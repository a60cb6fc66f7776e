--------------------------- MODULE TcpSessionProofs ---------------------------
(***************************************************************************)
(* What is proved of TcpSession for any messages, any size of the buffer    *)
(* and any cut of the stream: its types, that decodedata reads inside the   *)
(* buffer, that the messages arrive whole and in order, and that only a     *)
(* tail that comes late ends a session.                                     *)
(***************************************************************************)
EXTENDS TcpSession, SequenceTheorems, TLAPS

-----------------------------------------------------------------------------
(***************************************************************************)
(* A buffer between two calls: the read index is in the first third of the  *)
(* array, the write index in the array, and no cell behind it is written.   *)
(***************************************************************************)
Buffer == [cells : Seq(Cell), rd : Nat, wr : Nat]
BufferOK(b) ==
    /\ b \in Buffer
    /\ Len(b.cells) >= 3 /\ 3 * b.rd <= Len(b.cells) /\ b.wr <= Len(b.cells)
    /\ \A i \in 1..Len(b.cells) : i > b.wr => b.cells[i] = 0

(* The cells that are ready in b are the ones of c from the n-th on. *)
Drops(b, c, n) ==
    /\ BufferOK(b)
    /\ readAble(b) = readAble(c) - n
    /\ \A i \in 1..readAble(b) : b.cells[b.rd + i] = c.cells[c.rd + n + i]

(* A piece of a sequence, after its first m elements and up to the n-th. *)
LEMMA PieceFacts ==
    ASSUME NEW S, NEW s \in Seq(S), NEW m \in Nat, NEW n \in Nat, m <= n, n <= Len(s)
    PROVE  /\ SubSeq(s, m + 1, n) \in Seq(S)
           /\ Len(SubSeq(s, m + 1, n)) = n - m
           /\ \A i \in 1..(n - m) : SubSeq(s, m + 1, n)[i] = s[m + i]
<1>1. m + 1 \in Int /\ n \in Int /\ \A i \in (m + 1)..n : s[i] \in S
  OBVIOUS
<1>2. /\ SubSeq(s, m + 1, n) \in Seq(S)
      /\ Len(SubSeq(s, m + 1, n)) = IF m + 1 <= n THEN n - (m + 1) + 1 ELSE 0
      /\ \A i \in 1..(n - (m + 1) + 1) : SubSeq(s, m + 1, n)[i] = s[(m + 1) + i - 1]
  BY <1>1, SubSeqProperties
<1> QED
  BY <1>2

(* The cells of a new array. *)
LEMMA ZerosFacts ==
    ASSUME NEW n \in Nat
    PROVE  Zeros(n) \in Seq(Cell) /\ Len(Zeros(n)) = n /\ \A i \in 1..n : Zeros(n)[i] = 0
<1>1. 0 \in Cell
  BY DEF Cell
<1> QED
  BY <1>1 DEF Zeros

(* MustAdjust without the division. *)
LEMMA MustAdjustFacts ==
    ASSUME NEW b \in Buffer
    PROVE  MustAdjust(b) <=> 3 * b.rd > Len(b.cells)
<1>1. Len(b.cells) \in Nat /\ b.rd \in Nat
  BY DEF Buffer
<1>2. \A n, r \in Nat : r > n \div 3 <=> 3 * r > n
  OBVIOUS
<1> QED
  BY <1>1, <1>2 DEF MustAdjust

(* Moving puts the unread cells at the front of the array. *)
LEMMA MovedFacts ==
    ASSUME NEW b \in Buffer, NEW n \in Nat, n >= 3, b.rd <= b.wr, b.wr <= Len(b.cells),
           readAble(b) <= n
    PROVE  Drops(Moved(b, n), b, 0) /\ Moved(b, n).rd = 0 /\ Len(Moved(b, n).cells) = n
<1>  DEFINE r == readAble(b)
            m == Moved(b, n)
<1>1. r \in 0..n /\ b.rd \in Nat /\ b.wr \in Nat /\ b.wr = b.rd + r /\ b.cells \in Seq(Cell)
  BY DEF Buffer, readAble
<1>2. /\ Unread(b) \in Seq(Cell) /\ Len(Unread(b)) = r
      /\ \A i \in 1..r : Unread(b)[i] = b.cells[b.rd + i]
  <2>1. b.wr - b.rd = r
    BY <1>1
  <2>2. /\ SubSeq(b.cells, b.rd + 1, b.wr) \in Seq(Cell)
        /\ Len(SubSeq(b.cells, b.rd + 1, b.wr)) = b.wr - b.rd
        /\ \A i \in 1..(b.wr - b.rd) : SubSeq(b.cells, b.rd + 1, b.wr)[i] = b.cells[b.rd + i]
    BY <1>1, PieceFacts
  <2> QED
    BY <2>1, <2>2 DEF Unread
<1>3. /\ Zeros(n - r) \in Seq(Cell) /\ Len(Zeros(n - r)) = n - r
      /\ \A i \in 1..(n - r) : Zeros(n - r)[i] = 0
  <2>1. n - r \in Nat
    BY <1>1
  <2>  HIDE DEF r
  <2> QED
    BY <2>1, ZerosFacts
<1>4. /\ m.cells \in Seq(Cell) /\ Len(m.cells) = n
      /\ \A i \in 1..n : m.cells[i] = IF i <= r THEN Unread(b)[i] ELSE Zeros(n - r)[i - r]
  <2>1. m.cells = Unread(b) \o Zeros(n - r)
    BY DEF Moved
  <2>2. /\ Unread(b) \o Zeros(n - r) \in Seq(Cell)
        /\ Len(Unread(b) \o Zeros(n - r)) = Len(Unread(b)) + Len(Zeros(n - r))
        /\ \A i \in 1..(Len(Unread(b)) + Len(Zeros(n - r))) :
              (Unread(b) \o Zeros(n - r))[i] = IF i <= Len(Unread(b)) THEN Unread(b)[i]
                                               ELSE Zeros(n - r)[i - Len(Unread(b))]
    BY <1>2, <1>3, ConcatProperties
  <2> QED
    BY <1>1, <1>2, <1>3, <2>1, <2>2
<1>5. m.rd = 0 /\ m.wr = r /\ m \in Buffer
  BY <1>1, <1>4 DEF Moved, Buffer
<1>  HIDE DEF m
<1>6. BufferOK(m)
  BY <1>1, <1>3, <1>4, <1>5 DEF BufferOK
<1>7. readAble(m) = r
  BY <1>5, <1>1 DEF readAble
<1>8. \A i \in 1..readAble(m) : m.cells[m.rd + i] = b.cells[b.rd + 0 + i]
  BY <1>1, <1>2, <1>4, <1>5, <1>7
<1> QED
  BY <1>1, <1>4, <1>5, <1>6, <1>7, <1>8 DEF Drops, m

(* Adjusting a buffer keeps the cells that are ready. *)
LEMMA AdjustFacts ==
    ASSUME NEW b \in Buffer, Len(b.cells) >= 3, b.rd <= b.wr, b.wr <= Len(b.cells),
           \A i \in 1..Len(b.cells) : i > b.wr => b.cells[i] = 0
    PROVE  Drops(adjustBuffer(b), b, 0)
<1>1. b.rd \in Nat /\ b.wr \in Nat /\ Len(b.cells) \in Nat
  BY DEF Buffer
<1>2. CASE MustAdjust(b)
  <2>1. readAble(b) <= Len(b.cells)
    BY <1>1 DEF readAble
  <2> QED
    BY <1>1, <1>2, <2>1, MovedFacts DEF adjustBuffer
<1>3. CASE ~MustAdjust(b)
  <2>1. 3 * b.rd <= Len(b.cells)
    BY <1>1, <1>3, MustAdjustFacts
  <2> QED
    BY <1>1, <1>3, <2>1 DEF adjustBuffer, Drops, BufferOK, readAble
<1> QED
  BY <1>2, <1>3

(* Taking cells that are ready leaves the others. *)
LEMMA TakeFacts ==
    ASSUME NEW b, BufferOK(b), NEW n \in Nat, n <= readAble(b)
    PROVE  ~CopyFaults(Skipped(b, n)) /\ Drops(recycleRead(b, n), b, n)
<1>  DEFINE s == Skipped(b, n)
<1>1. b \in Buffer /\ b.rd \in Nat /\ b.wr \in Nat /\ Len(b.cells) \in Nat /\ b.wr <= Len(b.cells)
  BY DEF BufferOK, Buffer
<1>2. s = [b EXCEPT !.rd = b.rd + n]
  <2>1. b.rd + n <= Len(b.cells)
    BY <1>1 DEF readAble
  <2> QED
    BY <1>1, <2>1 DEF Skipped
<1>3. s \in Buffer /\ s.cells = b.cells /\ s.rd = b.rd + n /\ s.wr = b.wr
  BY <1>1, <1>2 DEF Buffer
<1>  HIDE DEF s
<1>4. readAble(s) = readAble(b) - n /\ readAble(s) >= 0 /\ s.rd <= s.wr
  BY <1>1, <1>3 DEF readAble
<1>5. ~CopyFaults(s)
  BY <1>4, <1>1 DEF CopyFaults, readAble
<1>6. Drops(adjustBuffer(s), s, 0)
  BY <1>1, <1>3, <1>4, AdjustFacts DEF BufferOK
<1>7. Drops(adjustBuffer(s), b, n)
  <2>  DEFINE a == adjustBuffer(s)
  <2>1. BufferOK(a) /\ readAble(a) = readAble(s) - 0
        /\ \A i \in 1..readAble(a) : a.cells[a.rd + i] = s.cells[s.rd + 0 + i]
    BY <1>6 DEF Drops
  <2>  HIDE DEF a
  <2>2. readAble(a) = readAble(b) - n /\ readAble(a) \in Nat
    BY <2>1, <1>1, <1>3, <1>4 DEF readAble
  <2>3. ASSUME NEW i \in 1..readAble(a) PROVE a.cells[a.rd + i] = b.cells[b.rd + n + i]
    <3>1. s.rd + 0 + i = b.rd + n + i
      BY <1>1, <1>3, <2>2
    <3> QED
      BY <2>1, <3>1, <1>3
  <2> QED
    BY <2>1, <2>2, <2>3 DEF Drops, a
<1> QED
  BY <1>5, <1>7 DEF recycleRead, s

(* The cells that are ready in b are those of c and then those of s. *)
Adds(b, c, s) ==
    /\ BufferOK(b)
    /\ readAble(b) = readAble(c) + Len(s)
    /\ \A i \in 1..readAble(b) :
          b.cells[b.rd + i] = IF i <= readAble(c) THEN c.cells[c.rd + i] ELSE s[i - readAble(c)]

(* Where the i-th of the r cells that are ready and of n new ones lies. *)
LEMMA CellPlace ==
    \A rd, wr, r, n, len \in Nat : \A i \in 1..(r + n) :
        r + rd = wr /\ wr + n <= len =>
            /\ rd + i \in 1..len
            /\ (rd + i) - wr = i - r
            /\ i <= r <=> ~(i - r \in 1..n)
OBVIOUS

(* Cells for which there is room are written behind those that are ready. *)
LEMMA RoomToWrite ==
    ASSUME NEW w, BufferOK(w), w.rd <= w.wr, NEW s \in Seq(Cell),
           NEW k \in Nat, k = w.wr + Len(s), k <= Len(w.cells),
           NEW cells \in Seq(Cell), Len(cells) = Len(w.cells),
           \A i \in 1..Len(w.cells) :
              cells[i] = IF i - w.wr \in 1..Len(s) THEN s[i - w.wr] ELSE w.cells[i],
           NEW b, b = [w EXCEPT !.cells = cells, !.wr = k]
    PROVE  Adds(b, w, s) /\ b.rd = w.rd
<1>1. /\ w \in Buffer /\ w.rd \in Nat /\ w.wr \in Nat /\ Len(w.cells) \in Nat /\ Len(s) \in Nat
      /\ Len(w.cells) >= 3 /\ 3 * w.rd <= Len(w.cells)
      /\ \A i \in 1..Len(w.cells) : i > w.wr => w.cells[i] = 0
  BY DEF BufferOK, Buffer
<1>2. b.cells = cells /\ b.rd = w.rd /\ b.wr = k /\ b \in Buffer
  BY <1>1 DEF Buffer
<1>3. BufferOK(b)
  <2>1. ASSUME NEW i \in 1..Len(w.cells), i > k PROVE cells[i] = 0
    <3>1. i > w.wr /\ ~(i - w.wr \in 1..Len(s))
      BY <1>1, <2>1
    <3> QED
      BY <1>1, <3>1
  <2> QED
    BY <1>1, <1>2, <2>1 DEF BufferOK
<1>4. readAble(b) = readAble(w) + Len(s) /\ readAble(w) = w.wr - w.rd /\ readAble(w) \in Nat
  BY <1>1, <1>2 DEF readAble
<1>5. ASSUME NEW i \in 1..readAble(b)
      PROVE  b.cells[b.rd + i] =
               IF i <= readAble(w) THEN w.cells[w.rd + i] ELSE s[i - readAble(w)]
  <2>1. /\ w.rd \in Nat /\ w.wr \in Nat /\ readAble(w) \in Nat
        /\ Len(s) \in Nat /\ Len(w.cells) \in Nat
        /\ i \in 1..(readAble(w) + Len(s)) /\ readAble(w) + w.rd = w.wr
        /\ w.wr + Len(s) <= Len(w.cells)
    BY <1>1, <1>4
  <2>2. /\ w.rd + i \in 1..Len(w.cells)
        /\ (w.rd + i) - w.wr = i - readAble(w)
        /\ i <= readAble(w) <=> ~(i - readAble(w) \in 1..Len(s))
    <3>  DEFINE rd == w.rd
                wr == w.wr
                r == readAble(w)
                n == Len(s)
                len == Len(w.cells)
    <3>  HIDE DEF rd, wr, r, n, len
    <3>1. /\ rd \in Nat /\ wr \in Nat /\ r \in Nat /\ n \in Nat /\ len \in Nat
          /\ i \in 1..(r + n) /\ r + rd = wr /\ wr + n <= len
      BY <2>1 DEF rd, wr, r, n, len
    <3>2. /\ rd + i \in 1..len /\ (rd + i) - wr = i - r
          /\ i <= r <=> ~(i - r \in 1..n)
      BY ONLY <3>1, CellPlace
    <3> QED
      BY <3>2 DEF rd, wr, r, n, len
  <2> QED
    BY <1>2, <2>2
<1> QED
  BY <1>2, <1>3, <1>4, <1>5 DEF Adds

(* What is read from the connection is written behind what is ready. *)
LEMMA WriteFacts ==
    ASSUME NEW b, BufferOK(b), b.rd <= b.wr, NEW s \in Seq(Cell)
    PROVE  Adds(writeToBuffer(b, s), b, s)
<1>1. /\ b \in Buffer /\ b.rd \in Nat /\ b.wr \in Nat /\ Len(b.cells) \in Nat /\ Len(s) \in Nat
      /\ b.wr <= Len(b.cells) /\ Len(b.cells) >= 3
  BY DEF BufferOK, Buffer
<1>  DEFINE n == (3 * (b.wr + Len(s))) \div 2
            w == IF Len(s) > writeAble(b) THEN resizeBuffer(b, n) ELSE b
<1>2. Drops(w, b, 0) /\ w.rd <= w.wr /\ w.wr + Len(s) <= Len(w.cells)
  <2>1. CASE Len(s) > writeAble(b)
    <3>1. n \in Nat /\ n >= b.wr + Len(s) /\ b.wr + Len(s) > 3
      <4>1. \A m \in Nat : (3 * m) \div 2 \in Nat /\ (3 * m) \div 2 >= m
        OBVIOUS
      <4>2. b.wr + Len(s) \in Nat /\ b.wr + Len(s) > Len(b.cells)
        BY <1>1, <2>1 DEF writeAble
      <4> QED
        BY <1>1, <4>1, <4>2
    <3>  HIDE DEF n
    <3>2. readAble(b) <= n /\ n >= 3
      BY <1>1, <3>1 DEF readAble
    <3>3. Drops(Moved(b, n), b, 0) /\ Moved(b, n).rd = 0 /\ Len(Moved(b, n).cells) = n
      BY <1>1, <3>1, <3>2, MovedFacts
    <3>4. w = Moved(b, n)
      BY <2>1 DEF resizeBuffer
    <3>5. w.wr = readAble(b)
      BY <3>4 DEF Moved
    <3> QED
      BY <1>1, <3>1, <3>3, <3>4, <3>5 DEF readAble
  <2>2. CASE ~(Len(s) > writeAble(b))
    BY <1>1, <2>2 DEF Drops, readAble, writeAble
  <2> QED
    BY <2>1, <2>2
<1>3. writeToBuffer(b, s) = [w EXCEPT !.cells = [i \in 1..Len(w.cells) |->
                                                   IF i - w.wr \in 1..Len(s) THEN s[i - w.wr]
                                                   ELSE w.cells[i]],
                                      !.wr = @ + Len(s)]
  BY DEF writeToBuffer
<1>  HIDE DEF w, n
<1>4. Adds(writeToBuffer(b, s), w, s)
  <2>  DEFINE cells == [i \in 1..Len(w.cells) |->
                          IF i - w.wr \in 1..Len(s) THEN s[i - w.wr] ELSE w.cells[i]]
              k == w.wr + Len(s)
  <2>1. BufferOK(w) /\ w \in Buffer /\ w.wr \in Nat /\ Len(w.cells) \in Nat
        /\ \A i \in 1..Len(w.cells) : w.cells[i] \in Cell
    BY <1>2 DEF Drops, BufferOK, Buffer
  <2>2. \A i \in 1..Len(w.cells) :
           (IF i - w.wr \in 1..Len(s) THEN s[i - w.wr] ELSE w.cells[i]) \in Cell
    BY <1>1, <2>1
  <2>3. cells \in Seq(Cell) /\ Len(cells) = Len(w.cells)
    BY <2>1, <2>2
  <2>4. \A i \in 1..Len(w.cells) :
           cells[i] = IF i - w.wr \in 1..Len(s) THEN s[i - w.wr] ELSE w.cells[i]
    OBVIOUS
  <2>5. k \in Nat /\ k = w.wr + Len(s) /\ k <= Len(w.cells)
    BY <1>1, <1>2, <2>1
  <2>6. writeToBuffer(b, s) = [w EXCEPT !.cells = cells, !.wr = k]
    BY <1>3, <2>1 DEF Buffer
  <2>  HIDE DEF cells, k
  <2> QED
    BY <1>2, <2>1, <2>3, <2>4, <2>5, <2>6, RoomToWrite
<1>  DEFINE a == writeToBuffer(b, s)
<1>  HIDE DEF a
<1>5. /\ BufferOK(a) /\ readAble(a) = readAble(w) + Len(s)
      /\ \A i \in 1..readAble(a) :
            a.cells[a.rd + i] = IF i <= readAble(w) THEN w.cells[w.rd + i] ELSE s[i - readAble(w)]
  BY <1>4 DEF Adds, a
<1>6. /\ readAble(w) = readAble(b) /\ readAble(b) \in Nat
      /\ \A i \in 1..readAble(b) : w.cells[w.rd + i] = b.cells[b.rd + i]
  <2>1. /\ readAble(w) = readAble(b) - 0 /\ readAble(b) \in Nat
        /\ \A i \in 1..readAble(w) : w.cells[w.rd + i] = b.cells[b.rd + 0 + i]
    BY <1>1, <1>2 DEF Drops, readAble
  <2>2. \A i \in 1..readAble(b) : b.rd + 0 + i = b.rd + i
    BY <1>1, <2>1
  <2> QED
    BY <2>1, <2>2
<1> QED
  BY <1>5, <1>6 DEF Adds, a

(* One cell is skipped where none, or only one, is ready. *)
LEMMA SkipFacts ==
    ASSUME NEW b, BufferOK(b), readAble(b) < LEN, ~CopyFaults(Skipped(b, 1))
    PROVE  BufferOK(recycleRead(b, 1)) /\ recycleRead(b, 1).wr <= recycleRead(b, 1).rd
<1>  DEFINE s == Skipped(b, 1)
<1>1. /\ b \in Buffer /\ b.rd \in Nat /\ b.wr \in Nat /\ Len(b.cells) \in Nat
      /\ b.wr <= Len(b.cells) /\ Len(b.cells) >= 3 /\ 3 * b.rd <= Len(b.cells)
      /\ \A i \in 1..Len(b.cells) : i > b.wr => b.cells[i] = 0
  BY DEF BufferOK, Buffer
<1>2. s = [b EXCEPT !.rd = b.rd + 1]
  BY <1>1 DEF Skipped
<1>3. s \in Buffer /\ s.cells = b.cells /\ s.rd = b.rd + 1 /\ s.wr = b.wr /\ s.wr <= s.rd
  <2>1. b.wr <= b.rd + 1
    BY <1>1 DEF readAble, LEN
  <2> QED
    BY <1>1, <1>2, <2>1 DEF Buffer
<1>  HIDE DEF s
<1>4. CASE MustAdjust(s)
  <2>1. readAble(s) >= 0 /\ s.rd = s.wr
    BY <1>1, <1>3, <1>4 DEF CopyFaults, readAble, s
  <2>2. readAble(s) = 0 /\ readAble(s) <= Len(s.cells)
    BY <1>1, <1>3, <2>1 DEF readAble
  <2>3. Drops(Moved(s, Len(s.cells)), s, 0) /\ Moved(s, Len(s.cells)).rd = 0
    BY <1>1, <1>3, <2>1, <2>2, MovedFacts
  <2>4. Moved(s, Len(s.cells)).wr = 0
    BY <2>2 DEF Moved
  <2> QED
    BY <1>4, <2>3, <2>4 DEF recycleRead, adjustBuffer, Drops, s
<1>5. CASE ~MustAdjust(s)
  <2>1. 3 * s.rd <= Len(s.cells)
    BY <1>1, <1>3, <1>5, MustAdjustFacts
  <2>2. BufferOK(s)
    BY <1>1, <1>3, <2>1 DEF BufferOK
  <2> QED
    BY <1>3, <1>5, <2>2 DEF recycleRead, adjustBuffer, s
<1> QED
  BY <1>4, <1>5

-----------------------------------------------------------------------------
(* Recycling cells that are ready never faults and leaves the others. *)
LEMMA RecycleFacts ==
    ASSUME BufferOK(buffer), NEW n \in Nat, n <= readAble(buffer), NEW then, Recycle(n, then)
    PROVE  session' = then /\ Drops(buffer', buffer, n)
BY TakeFacts DEF Recycle

(* Skipping a cell where less than a field is ready leaves none, if it does not fault. *)
LEMMA SkipStep ==
    ASSUME BufferOK(buffer), readAble(buffer) < LEN, NEW then, Recycle(1, then)
    PROVE  \/ session' = "crashed" /\ buffer' = buffer
           \/ session' = then /\ BufferOK(buffer') /\ buffer'.wr <= buffer'.rd
BY SkipFacts DEF Recycle

(* What is left when n of the cells that are ready are dropped is not negative. *)
LEMMA DropsReady ==
    ASSUME NEW b, NEW c, BufferOK(c), NEW n \in Nat, n <= readAble(c), Drops(b, c, n)
    PROVE  BufferOK(b) /\ b.rd <= b.wr
<1>1. c.rd \in Nat /\ c.wr \in Nat /\ b.rd \in Nat /\ b.wr \in Nat
  BY DEF BufferOK, Drops, Buffer
<1> QED
  BY <1>1 DEF Drops, readAble

(* The next field lies in the array, and only cells that came make a mark. *)
LEMMA WordFacts ==
    ASSUME BufferOK(buffer)
    PROVE  /\ Word \in Nat
           /\ buffer.rd + LEN <= Len(buffer.cells)
           /\ GoodMark => readAble(buffer) >= LEN
<1>1. /\ buffer.cells \in Seq(Cell) /\ Len(buffer.cells) \in Nat
      /\ buffer.rd \in Nat /\ buffer.wr \in Nat
      /\ Len(buffer.cells) >= 3 /\ 3 * buffer.rd <= Len(buffer.cells)
      /\ \A i \in 1..Len(buffer.cells) : i > buffer.wr => buffer.cells[i] = 0
  BY DEF BufferOK, Buffer
<1>2. buffer.rd + 2 <= Len(buffer.cells)
  BY <1>1
<1>  DEFINE x == buffer.cells[buffer.rd + 1]
            y == buffer.cells[buffer.rd + 2]
<1>3. x \in 0..255 /\ y \in 0..255
  <2>1. buffer.rd + 1 \in 1..Len(buffer.cells) /\ buffer.rd + 2 \in 1..Len(buffer.cells)
    BY <1>1, <1>2
  <2>2. \A i \in 1..Len(buffer.cells) : buffer.cells[i] \in Cell
    BY <1>1
  <2>3. x \in Cell /\ y \in Cell
    BY <2>1, <2>2
  <2> QED
    BY <2>3 DEF Cell
<1>4. buffer.rd + 2 > buffer.wr => y = 0
  BY <1>1, <1>2
<1>5. Word = 256 * x + y
  BY DEF Word
<1>  HIDE DEF x, y
<1>6. Word \in Nat
  BY <1>3, <1>5
<1>7. ASSUME GoodMark PROVE readAble(buffer) >= LEN
  <2>1. Word = 238
    BY <1>7 DEF GoodMark, PB_START, PB_END
  <2>2. y # 0
    BY <2>1, <1>3, <1>5
  <2> QED
    BY <1>1, <1>4, <2>2 DEF readAble, LEN
<1> QED
  BY <1>2, <1>6, <1>7 DEF LEN

(***************************************************************************)
(* The members keep their types, the buffer its shape, and the read index  *)
(* does not pass the write index before a tail is looked for.              *)
(***************************************************************************)
Sessions == {"reading", "parsing", "stopped", "crashed"}
Ready == session = "reading" \/ (session = "parsing" /\ parse # MSG_END)
Typed ==
    /\ sent \in Seq(Messages)
    /\ got \in Seq([cmd : Nat, data : Seq(Cell)])
    /\ wire \in Seq(Cell)
    /\ BufferOK(buffer)
    /\ parse \in MsgParseState
    /\ packet \in [cmd : Nat, len : Nat, data : Seq(Cell)]
    /\ repeat \in 0..3 /\ session \in Sessions
    /\ session = "parsing" => repeat >= 1
    /\ Ready => buffer.rd <= buffer.wr

(* Type correctness follows from it. *)
LEMMA TypedIsTypeOK == Typed => TypeOK
BY DEF Typed, TypeOK, BufferOK, Buffer, Sessions

(* The initial state is typed. *)
LEMMA InitTyped == Init => Typed
<1>  SUFFICES ASSUME Init PROVE Typed
  OBVIOUS
<1>  USE DEF Init
<1>1. sent \in Seq(Messages) /\ got \in Seq([cmd : Nat, data : Seq(Cell)]) /\ wire \in Seq(Cell)
  OBVIOUS
<1>2. BufferOK(buffer)
  <2>1. BufferSize \in Nat /\ BufferSize >= 3
    BY TcpSessionAssumption
  <2>2. /\ Zeros(BufferSize) \in Seq(Cell) /\ Len(Zeros(BufferSize)) = BufferSize
        /\ \A i \in 1..BufferSize : Zeros(BufferSize)[i] = 0
    BY <2>1, ZerosFacts
  <2> QED
    BY <2>1, <2>2 DEF BufferOK, Buffer
<1>3. packet \in [cmd : Nat, len : Nat, data : Seq(Cell)]
  <2>1. <<>> \in Seq(Cell)
    OBVIOUS
  <2> QED
    BY <2>1
<1> QED
  BY <1>1, <1>2, <1>3 DEF Typed, MsgParseState, MSG_START, MSG_END, Sessions

(* e is a head of ten cells, some data and a tail of two. *)
Pieces(h, d, t, e) ==
    /\ h \in Seq(Cell) /\ Len(h) = 10
    /\ d \in Seq(Cell)
    /\ t \in Seq(Cell) /\ Len(t) = 2
    /\ e = h \o d \o t

(* What stands where in them. *)
LEMMA FramePieces ==
    \A h, d, t, e : Pieces(h, d, t, e) =>
        /\ e \in Seq(Cell) /\ Len(e) = Len(d) + 12
        /\ \A i \in 1..10 : e[i] = h[i]
        /\ \A i \in 1..Len(d) : e[10 + i] = d[i]
        /\ e[Len(d) + 11] = t[1] /\ e[Len(d) + 12] = t[2]
<1>  SUFFICES ASSUME NEW h, NEW d, NEW t, NEW e, Pieces(h, d, t, e)
              PROVE  /\ e \in Seq(Cell) /\ Len(e) = Len(d) + 12
                     /\ \A i \in 1..10 : e[i] = h[i]
                     /\ \A i \in 1..Len(d) : e[10 + i] = d[i]
                     /\ e[Len(d) + 11] = t[1] /\ e[Len(d) + 12] = t[2]
  OBVIOUS
<1>0. /\ h \in Seq(Cell) /\ Len(h) = 10 /\ d \in Seq(Cell)
      /\ t \in Seq(Cell) /\ Len(t) = 2 /\ e = h \o d \o t
  BY DEF Pieces
<1>  DEFINE f == h \o d
<1>1. f \in Seq(Cell) /\ Len(f) = 10 + Len(d) /\ Len(d) \in Nat
  <2>1. h \o d \in Seq(Cell) /\ Len(h \o d) = Len(h) + Len(d)
    BY <1>0, ConcatProperties
  <2> QED
    BY <1>0, <2>1
<1>2. \A i \in 1..(10 + Len(d)) : f[i] = IF i <= 10 THEN h[i] ELSE d[i - 10]
  <2>1. \A i \in 1..(Len(h) + Len(d)) : (h \o d)[i] = IF i <= Len(h) THEN h[i] ELSE d[i - Len(h)]
    BY <1>0, ConcatProperties
  <2> QED
    BY <1>0, <2>1
<1>  HIDE DEF f
<1>3. e \in Seq(Cell) /\ Len(e) = Len(d) + 12
  <2>1. e = f \o t
    BY <1>0 DEF f
  <2>2. f \o t \in Seq(Cell) /\ Len(f \o t) = Len(f) + Len(t)
    BY <1>0, <1>1, ConcatProperties
  <2> QED
    BY <1>0, <1>1, <2>1, <2>2
<1>4. \A i \in 1..(Len(d) + 12) :
         e[i] = IF i <= 10 + Len(d) THEN f[i] ELSE t[i - (10 + Len(d))]
  <2>1. e = f \o t
    BY <1>0 DEF f
  <2>2. \A i \in 1..(Len(f) + Len(t)) : (f \o t)[i] = IF i <= Len(f) THEN f[i] ELSE t[i - Len(f)]
    BY <1>0, <1>1, ConcatProperties
  <2>3. Len(f) + Len(t) = Len(d) + 12
    BY <1>0, <1>1
  <2> QED
    BY <1>1, <2>1, <2>2, <2>3
<1>5. ASSUME NEW i \in 1..10 PROVE e[i] = h[i]
  <2>1. i \in 1..(Len(d) + 12) /\ i \in 1..(10 + Len(d)) /\ i <= 10 + Len(d) /\ i <= 10
    BY <1>1
  <2>2. e[i] = f[i] /\ f[i] = h[i]
    BY <2>1, <1>2, <1>4
  <2> QED
    BY <2>2
<1>6. ASSUME NEW i \in 1..Len(d) PROVE e[10 + i] = d[i]
  <2>1. /\ 10 + i \in 1..(Len(d) + 12) /\ 10 + i \in 1..(10 + Len(d)) /\ 10 + i <= 10 + Len(d)
        /\ ~(10 + i <= 10) /\ (10 + i) - 10 = i
    BY <1>1
  <2> QED
    BY <2>1, <1>2, <1>4
<1>7. e[Len(d) + 11] = t[1] /\ e[Len(d) + 12] = t[2]
  <2>1. /\ Len(d) + 11 \in 1..(Len(d) + 12) /\ ~(Len(d) + 11 <= 10 + Len(d))
        /\ (Len(d) + 11) - (10 + Len(d)) = 1
        /\ Len(d) + 12 \in 1..(Len(d) + 12) /\ ~(Len(d) + 12 <= 10 + Len(d))
        /\ (Len(d) + 12) - (10 + Len(d)) = 2
    BY <1>1
  <2>2. /\ e[Len(d) + 11] = t[(Len(d) + 11) - (10 + Len(d))]
        /\ e[Len(d) + 12] = t[(Len(d) + 12) - (10 + Len(d))]
    BY <2>1, <1>4
  <2> QED
    BY <2>1, <2>2
<1> QED
  BY <1>3, <1>5, <1>6, <1>7

(* The cells of a frame. *)
LEMMA EncodeFacts ==
    ASSUME NEW m \in Messages
    PROVE  /\ encodebytes(m) \in Seq(Cell) /\ Len(encodebytes(m)) = Len(m.data) + 12
           /\ m.cmd \in Cell /\ m.data \in Seq(Cell) /\ Len(m.data) \in Cell
           /\ encodebytes(m)[1] = 0 /\ encodebytes(m)[2] = PB_START
           /\ encodebytes(m)[3] = 0 /\ encodebytes(m)[4] = m.cmd
           /\ encodebytes(m)[5] = 0 /\ encodebytes(m)[6] = Len(m.data)
           /\ \A i \in 1..Len(m.data) : encodebytes(m)[10 + i] = m.data[i]
           /\ encodebytes(m)[Len(m.data) + 11] = 0
           /\ encodebytes(m)[Len(m.data) + 12] = PB_END
<1>1. m.cmd \in Cell /\ m.data \in Seq(Cell) /\ Len(m.data) \in Cell
  BY TcpSessionAssumption
<1>  DEFINE h == <<0, PB_START, 0, m.cmd, 0, Len(m.data), 0, 0, 0, 0>>
            t == <<0, PB_END>>
            e == encodebytes(m)
<1>2. h \in Seq(Cell) /\ Len(h) = 10 /\ t \in Seq(Cell) /\ Len(t) = 2
  BY <1>1 DEF Cell, PB_START, PB_END
<1>3. /\ h[1] = 0 /\ h[2] = PB_START /\ h[3] = 0 /\ h[4] = m.cmd /\ h[5] = 0 /\ h[6] = Len(m.data)
      /\ t[1] = 0 /\ t[2] = PB_END
  OBVIOUS
<1>4. e = h \o m.data \o t
  BY DEF encodebytes
<1>  HIDE DEF h, t, e
<1>5. /\ e \in Seq(Cell) /\ Len(e) = Len(m.data) + 12
      /\ \A i \in 1..10 : e[i] = h[i]
      /\ \A i \in 1..Len(m.data) : e[10 + i] = m.data[i]
      /\ e[Len(m.data) + 11] = t[1] /\ e[Len(m.data) + 12] = t[2]
  <2>  DEFINE d == m.data
  <2>1. d \in Seq(Cell) /\ e = h \o d \o t
    BY <1>1, <1>4
  <2>  HIDE DEF d
  <2>2. /\ e \in Seq(Cell) /\ Len(e) = Len(d) + 12
        /\ \A i \in 1..10 : e[i] = h[i]
        /\ \A i \in 1..Len(d) : e[10 + i] = d[i]
        /\ e[Len(d) + 11] = t[1] /\ e[Len(d) + 12] = t[2]
    <3>1. Pieces(h, d, t, e)
      BY <1>2, <2>1 DEF Pieces
    <3> QED
      BY <3>1, FramePieces
  <2> QED
    BY <2>2 DEF d
<1>6. e[1] = h[1] /\ e[2] = h[2] /\ e[3] = h[3] /\ e[4] = h[4] /\ e[5] = h[5] /\ e[6] = h[6]
  BY <1>5
<1> QED
  BY <1>1, <1>3, <1>5, <1>6 DEF e

-----------------------------------------------------------------------------
(* The members of a typed state. *)
LEMMA BufferTypes ==
    ASSUME BufferOK(buffer)
    PROVE  /\ buffer.cells \in Seq(Cell) /\ Len(buffer.cells) \in Nat
           /\ buffer.rd \in Nat /\ buffer.wr \in Nat
           /\ buffer.wr <= Len(buffer.cells)
           /\ readAble(buffer) \in Int /\ readAble(buffer) = buffer.wr - buffer.rd
BY DEF BufferOK, Buffer, readAble

(* A message is sent. *)
LEMMA SendTyped == ASSUME Typed, NEW m \in Messages, SendMsg(m) PROVE Typed'
<1>1. sent' \in Seq(Messages)
  BY DEF Typed, SendMsg
<1>2. wire' \in Seq(Cell)
  <2>1. encodebytes(m) \in Seq(Cell) /\ wire \in Seq(Cell)
    BY EncodeFacts DEF Typed
  <2>2. wire \o encodebytes(m) \in Seq(Cell)
    BY <2>1, ConcatProperties
  <2> QED
    BY <2>2 DEF SendMsg
<1> QED
  BY <1>1, <1>2 DEF Typed, SendMsg, Ready, BufferOK, readAble

(* A piece of what is under way is read. *)
LEMMA RecvCells ==
    ASSUME Typed, NEW n \in 1..MaxRead, Recv(n)
    PROVE  /\ n \in Nat /\ n <= Len(wire)
           /\ SubSeq(wire, 1, n) \in Seq(Cell) /\ Len(SubSeq(wire, 1, n)) = n
           /\ \A i \in 1..n : SubSeq(wire, 1, n)[i] = wire[i]
           /\ wire' \in Seq(Cell) /\ Len(wire') = Len(wire) - n
           /\ \A i \in 1..(Len(wire) - n) : wire'[i] = wire[n + i]
           /\ Adds(buffer', buffer, SubSeq(wire, 1, n))
<1>1. n \in Nat /\ n <= Len(wire) /\ wire \in Seq(Cell) /\ Len(wire) \in Nat
  BY TcpSessionAssumption DEF Typed, Recv
<1>2. /\ SubSeq(wire, 0 + 1, n) \in Seq(Cell) /\ Len(SubSeq(wire, 0 + 1, n)) = n - 0
      /\ \A i \in 1..(n - 0) : SubSeq(wire, 0 + 1, n)[i] = wire[0 + i]
  <2>1. 0 \in Nat /\ 0 <= n
    BY <1>1
  <2> QED
    BY <1>1, <2>1, PieceFacts
<1>3. /\ SubSeq(wire, 1, n) \in Seq(Cell) /\ Len(SubSeq(wire, 1, n)) = n
      /\ \A i \in 1..n : SubSeq(wire, 1, n)[i] = wire[i]
  <2>1. 0 + 1 = 1 /\ n - 0 = n
    BY <1>1
  <2>2. \A i \in 1..n : 0 + i = i
    BY <1>1
  <2> QED
    BY <1>2, <2>1, <2>2
<1>4. /\ SubSeq(wire, n + 1, Len(wire)) \in Seq(Cell)
      /\ Len(SubSeq(wire, n + 1, Len(wire))) = Len(wire) - n
      /\ \A i \in 1..(Len(wire) - n) : SubSeq(wire, n + 1, Len(wire))[i] = wire[n + i]
  <2>1. Len(wire) <= Len(wire)
    BY <1>1
  <2> QED
    BY <1>1, <2>1, PieceFacts
<1>5. Adds(buffer', buffer, SubSeq(wire, 1, n))
  <2>1. BufferOK(buffer) /\ buffer.rd <= buffer.wr
    BY DEF Typed, Ready, Recv
  <2> QED
    BY <1>3, <2>1, WriteFacts DEF Recv
<1> QED
  BY <1>1, <1>3, <1>4, <1>5 DEF Recv

(* A piece of what is under way is read. *)
LEMMA RecvTyped == ASSUME Typed, NEW n \in 1..MaxRead, Recv(n) PROVE Typed'
<1>1. /\ wire' \in Seq(Cell) /\ n \in Nat /\ Len(SubSeq(wire, 1, n)) = n
      /\ Adds(buffer', buffer, SubSeq(wire, 1, n))
  BY RecvCells
<1>2. BufferOK(buffer') /\ readAble(buffer') = readAble(buffer) + n
  BY <1>1 DEF Adds
<1>3. buffer'.rd <= buffer'.wr
  <2>1. buffer.rd \in Nat /\ buffer.wr \in Nat /\ buffer.rd <= buffer.wr
    BY DEF Typed, Ready, Recv, BufferOK, Buffer
  <2>2. buffer'.rd \in Nat /\ buffer'.wr \in Nat
    BY <1>2 DEF BufferOK, Buffer
  <2> QED
    BY <1>1, <1>2, <2>1, <2>2 DEF readAble
<1>4. (BufferOK(buffer))'
  BY <1>2 DEF BufferOK
<1> QED
  BY <1>1, <1>3, <1>4 DEF Typed, Recv, Sessions, Ready

(* What a step that only takes cells from the buffer has to show. *)
LEMMA TakenTyped ==
    ASSUME Typed, UNCHANGED <<sent, wire>>,
           got' \in Seq([cmd : Nat, data : Seq(Cell)]),
           parse' \in MsgParseState, packet' \in [cmd : Nat, len : Nat, data : Seq(Cell)],
           repeat' \in 0..3, session' \in Sessions, session' = "parsing" => repeat' >= 1,
           BufferOK(buffer'),
           session' = "reading" \/ (session' = "parsing" /\ parse' # MSG_END) =>
               buffer'.rd <= buffer'.wr
    PROVE  Typed'
<1>1. (BufferOK(buffer))'
  BY DEF BufferOK
<1> QED
  BY <1>1 DEF Typed, Ready

(* A field of the header is taken. *)
LEMMA HeaderTakes ==
    ASSUME Typed, DecodeHeader
    PROVE  /\ parse \in 1..5 /\ LEN <= readAble(buffer)
           /\ session' = "parsing" /\ Drops(buffer', buffer, LEN)
           /\ BufferOK(buffer') /\ buffer'.rd <= buffer'.wr
<1>1. parse \in 1..5 /\ parse # MSG_CONTENT /\ parse # MSG_END
  BY DEF Typed, DecodeHeader, MsgParseState, MSG_START, MSG_CONTENT, MSG_END
<1>2. LEN <= readAble(buffer) /\ LEN \in Nat
  <2>1. readAble(buffer) >= LEN
    BY <1>1 DEF DecodeHeader, Enough
  <2> QED
    BY <2>1, BufferTypes DEF Typed, LEN
<1>3. session' = "parsing" /\ Drops(buffer', buffer, LEN)
  BY <1>2, RecycleFacts DEF Typed, DecodeHeader
<1>4. BufferOK(buffer') /\ buffer'.rd <= buffer'.wr
  BY <1>2, <1>3, DropsReady DEF Typed
<1> QED
  BY <1>1, <1>2, <1>3, <1>4

(* A field of the header is taken. *)
LEMMA HeaderTyped == ASSUME Typed, DecodeHeader PROVE Typed'
<1>1. parse \in 1..5 /\ session' = "parsing" /\ BufferOK(buffer') /\ buffer'.rd <= buffer'.wr
  BY HeaderTakes
<1>2. packet' \in [cmd : Nat, len : Nat, data : Seq(Cell)]
  <2>1. Word \in Nat /\ packet \in [cmd : Nat, len : Nat, data : Seq(Cell)]
    BY WordFacts DEF Typed
  <2>2. /\ [packet EXCEPT !.cmd = Word] \in [cmd : Nat, len : Nat, data : Seq(Cell)]
        /\ [packet EXCEPT !.len = Word] \in [cmd : Nat, len : Nat, data : Seq(Cell)]
    BY <2>1
  <2>3. packet' \in {packet, [packet EXCEPT !.cmd = Word], [packet EXCEPT !.len = Word]}
    BY DEF DecodeHeader
  <2> QED
    BY <2>1, <2>2, <2>3
<1>3. parse' \in MsgParseState
  BY <1>1 DEF DecodeHeader, MsgParseState, MSG_START, MSG_END
<1> QED
  BY <1>1, <1>2, <1>3, TakenTyped DEF Typed, DecodeHeader, Sessions

(* The content is taken. *)
LEMMA ContentTakes ==
    ASSUME Typed, DecodeContent
    PROVE  /\ packet.len \in Nat /\ packet.len <= readAble(buffer)
           /\ session' = "parsing" /\ Drops(buffer', buffer, packet.len)
           /\ BufferOK(buffer') /\ buffer'.rd <= buffer'.wr
           /\ packet'.data \in Seq(Cell) /\ Len(packet'.data) = packet.len
           /\ \A i \in 1..packet.len : packet'.data[i] = buffer.cells[buffer.rd + i]
           /\ packet'.cmd = packet.cmd /\ packet'.len = packet.len
           /\ packet' \in [cmd : Nat, len : Nat, data : Seq(Cell)]
<1>1. packet.len \in Nat /\ packet.len <= readAble(buffer)
  <2>1. readAble(buffer) >= packet.len
    BY DEF DecodeContent, Enough, MSG_CONTENT, MSG_END
  <2> QED
    BY <2>1, BufferTypes DEF Typed
<1>2. session' = "parsing" /\ Drops(buffer', buffer, packet.len)
  BY <1>1, RecycleFacts DEF Typed, DecodeContent
<1>3. BufferOK(buffer') /\ buffer'.rd <= buffer'.wr
  BY <1>1, <1>2, DropsReady DEF Typed
<1>  DEFINE d == SubSeq(buffer.cells, buffer.rd + 1, buffer.rd + packet.len)
<1>4. /\ d \in Seq(Cell) /\ Len(d) = (buffer.rd + packet.len) - buffer.rd
      /\ \A i \in 1..((buffer.rd + packet.len) - buffer.rd) : d[i] = buffer.cells[buffer.rd + i]
  <2>1. /\ buffer.cells \in Seq(Cell) /\ buffer.rd \in Nat /\ buffer.rd + packet.len \in Nat
        /\ buffer.rd <= buffer.rd + packet.len /\ buffer.rd + packet.len <= Len(buffer.cells)
    BY <1>1, BufferTypes DEF Typed
  <2> QED
    BY <2>1, PieceFacts
<1>5. (buffer.rd + packet.len) - buffer.rd = packet.len
  BY <1>1, BufferTypes DEF Typed
<1>6. packet' = [packet EXCEPT !.data = d]
  BY DEF DecodeContent
<1>  HIDE DEF d
<1>7. /\ packet'.data = d /\ packet'.cmd = packet.cmd /\ packet'.len = packet.len
      /\ packet' \in [cmd : Nat, len : Nat, data : Seq(Cell)]
  BY <1>4, <1>6 DEF Typed
<1> QED
  BY <1>1, <1>2, <1>3, <1>4, <1>5, <1>7

(* The content is taken. *)
LEMMA ContentTyped == ASSUME Typed, DecodeContent PROVE Typed'
<1>1. /\ session' = "parsing" /\ BufferOK(buffer') /\ buffer'.rd <= buffer'.wr
      /\ packet' \in [cmd : Nat, len : Nat, data : Seq(Cell)]
  BY ContentTakes
<1>2. parse' \in MsgParseState
  BY DEF DecodeContent, MsgParseState, MSG_START, MSG_END
<1> QED
  BY <1>1, <1>2, TakenTyped DEF Typed, DecodeContent, Sessions

(* The tail is taken. *)
LEMMA EndTakes ==
    ASSUME Typed, DecodeEnd
    PROVE  /\ LEN <= readAble(buffer)
           /\ session' = "parsing" /\ Drops(buffer', buffer, LEN)
           /\ BufferOK(buffer') /\ buffer'.rd <= buffer'.wr
<1>1. LEN <= readAble(buffer) /\ LEN \in Nat
  <2>1. readAble(buffer) >= LEN
    BY WordFacts DEF Typed, DecodeEnd
  <2> QED
    BY <2>1, BufferTypes DEF Typed, LEN
<1>2. session' = "parsing" /\ Drops(buffer', buffer, LEN)
  BY <1>1, RecycleFacts DEF Typed, DecodeEnd
<1>3. BufferOK(buffer') /\ buffer'.rd <= buffer'.wr
  BY <1>1, <1>2, DropsReady DEF Typed
<1> QED
  BY <1>1, <1>2, <1>3

(* The tail is taken and the message handed over. *)
LEMMA EndTyped == ASSUME Typed, DecodeEnd PROVE Typed'
<1>1. session' = "parsing" /\ BufferOK(buffer') /\ buffer'.rd <= buffer'.wr
  BY EndTakes
<1>2. got' \in Seq([cmd : Nat, data : Seq(Cell)])
  <2>1. [cmd |-> packet.cmd, data |-> packet.data] \in [cmd : Nat, data : Seq(Cell)]
    BY DEF Typed
  <2>2. got' = Append(got, [cmd |-> packet.cmd, data |-> packet.data])
    BY DEF DecodeEnd
  <2> QED
    BY <2>1, <2>2, AppendProperties DEF Typed
<1>3. parse' \in MsgParseState
  BY DEF DecodeEnd, MsgParseState, MSG_START, MSG_END
<1> QED
  BY <1>1, <1>2, <1>3, TakenTyped DEF Typed, DecodeEnd, Sessions

(* A mark that is none: cells that are ready are skipped, or there are none. *)
LEMMA FailsTakes ==
    ASSUME Typed, DecodeFails
    PROVE  \/ /\ readAble(buffer) >= LEN /\ session' \in {"stopped", "parsing"}
              /\ BufferOK(buffer') /\ buffer'.rd <= buffer'.wr
           \/ /\ readAble(buffer) < LEN /\ parse = MSG_END /\ BufferOK(buffer')
              /\ \/ session' \in {"stopped", "crashed"}
                 \/ session' = "parsing" /\ buffer'.wr <= buffer'.rd
<1>  DEFINE then == IF repeat = 1 THEN "stopped" ELSE "parsing"
<1>1. Recycle(1, then) /\ then \in {"stopped", "parsing"}
  BY DEF DecodeFails
<1>  HIDE DEF then
<1>2. readAble(buffer) \in Int /\ BufferOK(buffer)
  BY BufferTypes DEF Typed
<1>3. CASE readAble(buffer) >= LEN
  <2>1. 1 \in Nat /\ 1 <= readAble(buffer)
    BY <1>2, <1>3 DEF LEN
  <2>2. session' = then /\ Drops(buffer', buffer, 1)
    BY <1>1, <1>2, <2>1, RecycleFacts
  <2>3. BufferOK(buffer') /\ buffer'.rd <= buffer'.wr
    BY <1>2, <2>1, <2>2, DropsReady
  <2> QED
    BY <1>1, <1>3, <2>2, <2>3
<1>4. CASE ~(readAble(buffer) >= LEN)
  <2>1. readAble(buffer) < LEN
    BY <1>2, <1>4 DEF LEN
  <2>2. parse = MSG_END
    BY <1>4 DEF DecodeFails, Enough, MSG_START, MSG_END, MSG_CONTENT
  <2>3. \/ session' = "crashed" /\ buffer' = buffer
        \/ session' = then /\ BufferOK(buffer') /\ buffer'.wr <= buffer'.rd
    BY <1>1, <1>2, <2>1, SkipStep
  <2> QED
    BY <1>1, <1>2, <2>1, <2>2, <2>3
<1> QED
  BY <1>3, <1>4

(* A mark that is none. *)
LEMMA FailsTyped == ASSUME Typed, DecodeFails PROVE Typed'
<1>1. /\ BufferOK(buffer') /\ session' \in {"stopped", "parsing", "crashed"}
      /\ session' = "parsing" /\ parse # MSG_END => buffer'.rd <= buffer'.wr
  BY FailsTakes
<1>2. parse' = parse /\ packet' = packet /\ UNCHANGED <<sent, got, wire>>
  BY DEF DecodeFails
<1>3. repeat \in 1..3 /\ repeat' = repeat - 1
  BY DEF Typed, DecodeFails
<1>4. repeat = 1 => session' # "parsing"
  BY DEF DecodeFails, Recycle
<1>5. repeat' \in 0..3 /\ (session' = "parsing" => repeat' >= 1)
  BY <1>3, <1>4
<1> QED
  BY <1>1, <1>2, <1>5, TakenTyped DEF Typed, Sessions

(* The loop ends and the next read is started. *)
LEMMA WaitsTakes ==
    ASSUME Typed, DecodeWaits
    PROVE  /\ Drops(buffer', buffer, 0) /\ BufferOK(buffer') /\ buffer'.rd <= buffer'.wr
           /\ session = "parsing" /\ parse # MSG_END
<1>1. parse # MSG_END /\ session = "parsing"
  BY DEF DecodeWaits, Enough, MSG_CONTENT, MSG_END
<1>2. buffer.rd <= buffer.wr
  BY <1>1 DEF Typed, Ready
<1>3. Drops(buffer', buffer, 0)
  BY <1>2, AdjustFacts DEF Typed, BufferOK, DecodeWaits
<1>4. 0 \in Nat /\ 0 <= readAble(buffer)
  BY <1>2, BufferTypes DEF Typed
<1> QED
  BY <1>1, <1>3, <1>4, DropsReady DEF Typed

(* The loop ends and the next read is started. *)
LEMMA WaitsTyped == ASSUME Typed, DecodeWaits PROVE Typed'
BY WaitsTakes, TakenTyped DEF Typed, DecodeWaits, Sessions

(* Every step keeps the types. *)
LEMMA NextTyped == Typed /\ [Next]_vars => Typed'
<1>  SUFFICES ASSUME Typed, [Next]_vars PROVE Typed'
  OBVIOUS
<1>1. ASSUME NEW m \in Messages, SendMsg(m) PROVE Typed'
  BY <1>1, SendTyped
<1>2. ASSUME NEW n \in 1..MaxRead, Recv(n) PROVE Typed'
  BY <1>2, RecvTyped
<1>3. CASE RecvFails
  BY <1>3 DEF RecvFails, Typed, Sessions, Ready, BufferOK, readAble
<1>4. CASE Parse
  BY <1>4, HeaderTyped, ContentTyped, EndTyped, FailsTyped, WaitsTyped DEF Parse
<1>5. CASE UNCHANGED vars
  BY <1>5 DEF vars, Typed, Ready, BufferOK
<1> QED
  BY <1>1, <1>2, <1>3, <1>4, <1>5 DEF Next

(* What is typed reads inside the buffer. *)
LEMMA TypedReads == Typed => ReadsStayInBuffer
<1>  SUFFICES ASSUME Typed PROVE ReadsStayInBuffer
  OBVIOUS
<1>1. buffer.rd + LEN <= Len(buffer.cells)
  BY WordFacts DEF Typed
<1>2. parse = MSG_CONTENT /\ Enough => buffer.rd + packet.len <= Len(buffer.cells)
  <2>1. packet.len \in Nat
    BY DEF Typed
  <2> QED
    BY <2>1, BufferTypes DEF Typed, Enough, MSG_CONTENT, MSG_END
<1> QED
  BY <1>1, <1>2 DEF ReadsStayInBuffer

(* The types are an invariant. *)
LEMMA TypedAlways == Spec => []Typed
BY InitTyped, NextTyped, PTL DEF Spec

(* The members keep their types and the two indexes stay in the array. *)
THEOREM TypeCorrect == Spec => []TypeOK
BY TypedAlways, TypedIsTypeOK, PTL

(* What decodedata copies lies inside the buffer, the tail that it does not wait for too. *)
THEOREM ReadsCorrect == Spec => []ReadsStayInBuffer
BY TypedAlways, TypedReads, PTL

-----------------------------------------------------------------------------
(***************************************************************************)
(* What the parser has still to take: the cells that are ready in a buffer *)
(* b and then those of a wire w.                                           *)
(***************************************************************************)
Have(b, w) == readAble(b) + Len(w)
Ahead(b, w, i) == IF i <= readAble(b) THEN b.cells[b.rd + i] ELSE w[i - readAble(b)]

FrameLen(m) == Len(encodebytes(m))

(***************************************************************************)
(* The frames of the messages of s after the first g lie end to end in     *)
(* what is ahead, the taken cells of the first one excepted: the frame of  *)
(* message j follows the cell at[j], and the last one ends with the last   *)
(* cell that is ahead.                                                     *)
(***************************************************************************)
FrameAt(at, b, w, m, j) ==
    /\ at[j + 1] = at[j] + FrameLen(m) /\ at[j + 1] <= Have(b, w)
    /\ \A c \in 1..FrameLen(m) : at[j] + c >= 1 => Ahead(b, w, at[j] + c) = encodebytes(m)[c]

Frames(at, b, w, taken, g, s) ==
    /\ at \in [Nat -> Int]
    /\ at[g + 1] = 0 - taken
    /\ at[Len(s) + 1] = Have(b, w)
    /\ \A j \in (g + 1)..Len(s) : FrameAt(at, b, w, s[j], j)

(* The same cells are ahead in another buffer and on another wire. *)
LEMMA FramesMoved ==
    ASSUME NEW b, NEW w, NEW b2, NEW w2, NEW at, NEW taken, NEW g \in Nat, NEW s \in Seq(Messages),
           Frames(at, b, w, taken, g, s), Have(b, w) \in Nat, Have(b2, w2) = Have(b, w),
           \A i \in 1..Have(b, w) : Ahead(b2, w2, i) = Ahead(b, w, i)
    PROVE  Frames(at, b2, w2, taken, g, s)
<1>1. ASSUME NEW j \in (g + 1)..Len(s) PROVE FrameAt(at, b2, w2, s[j], j)
  <2>1. s[j] \in Messages /\ j \in Nat /\ at[j] \in Int /\ FrameLen(s[j]) \in Nat
    <3>1. j \in 1..Len(s)
      OBVIOUS
    <3>2. s[j] \in Messages
      BY <3>1
    <3>3. FrameLen(s[j]) \in Nat
      BY <3>2, EncodeFacts DEF FrameLen
    <3> QED
      BY <3>1, <3>2, <3>3 DEF Frames
  <2>2. FrameAt(at, b, w, s[j], j)
    BY DEF Frames
  <2>3. ASSUME NEW c \in 1..FrameLen(s[j]), at[j] + c >= 1
        PROVE  Ahead(b2, w2, at[j] + c) = encodebytes(s[j])[c]
    <3>1. at[j] + c \in 1..Have(b, w)
      BY <2>1, <2>2, <2>3 DEF FrameAt
    <3>2. Ahead(b, w, at[j] + c) = encodebytes(s[j])[c]
      BY <2>2, <2>3 DEF FrameAt
    <3> QED
      BY <3>1, <3>2
  <2> QED
    BY <2>2, <2>3 DEF FrameAt
<1> QED
  BY <1>1 DEF Frames

(* The first n cells that were ahead are taken. *)
LEMMA FramesDropped ==
    ASSUME NEW b, NEW w, NEW b2, NEW at, NEW taken \in Nat, NEW n \in Nat, NEW g \in Nat,
           NEW s \in Seq(Messages), Frames(at, b, w, taken, g, s),
           Have(b, w) \in Nat, Have(b2, w) = Have(b, w) - n,
           \A i \in 1..(Have(b, w) - n) : Ahead(b2, w, i) = Ahead(b, w, n + i)
    PROVE  Frames([j \in Nat |-> at[j] - n], b2, w, taken + n, g, s)
<1>  DEFINE at2 == [j \in Nat |-> at[j] - n]
<1>1. at \in [Nat -> Int] /\ Len(s) + 1 \in Nat /\ g + 1 \in Nat
  BY DEF Frames
<1>2. at2 \in [Nat -> Int] /\ \A j \in Nat : at2[j] = at[j] - n
  BY <1>1
<1>  HIDE DEF at2
<1>3. at2[g + 1] = 0 - (taken + n) /\ at2[Len(s) + 1] = Have(b2, w)
  BY <1>1, <1>2 DEF Frames
<1>4. ASSUME NEW j \in (g + 1)..Len(s) PROVE FrameAt(at2, b2, w, s[j], j)
  <2>1. /\ s[j] \in Messages /\ j \in Nat /\ j + 1 \in Nat /\ at[j] \in Int /\ at[j + 1] \in Int
        /\ FrameLen(s[j]) \in Nat
    <3>1. j \in 1..Len(s) /\ j + 1 \in Nat
      OBVIOUS
    <3>2. s[j] \in Messages
      BY <3>1
    <3>3. FrameLen(s[j]) \in Nat
      BY <3>2, EncodeFacts DEF FrameLen
    <3> QED
      BY <1>1, <3>1, <3>2, <3>3
  <2>2. FrameAt(at, b, w, s[j], j)
    BY DEF Frames
  <2>3. at2[j] = at[j] - n /\ at2[j + 1] = at[j + 1] - n
    BY <1>2, <2>1
  <2>4. ASSUME NEW c \in 1..FrameLen(s[j]), at2[j] + c >= 1
        PROVE  Ahead(b2, w, at2[j] + c) = encodebytes(s[j])[c]
    <3>1. c \in Nat /\ c <= FrameLen(s[j])
      BY <2>1
    <3>2. at[j] + FrameLen(s[j]) <= Have(b, w)
      BY <2>2 DEF FrameAt
    <3>3. at2[j] + c \in 1..(Have(b, w) - n) /\ n + (at2[j] + c) = at[j] + c /\ at[j] + c >= 1
      <4>  DEFINE x == at[j]
                  y == at2[j]
                  f == FrameLen(s[j])
                  h == Have(b, w)
      <4>1. /\ x \in Int /\ n \in Nat /\ c \in Nat /\ f \in Nat /\ h \in Nat
            /\ y = x - n /\ c <= f /\ x + f <= h /\ y + c >= 1
        BY <2>1, <2>3, <2>4, <3>1, <3>2
      <4>  HIDE DEF x, y, f, h
      <4>2. y + c \in 1..(h - n) /\ n + (y + c) = x + c /\ x + c >= 1
        BY ONLY <4>1
      <4> QED
        BY <4>2 DEF x, y, f, h
    <3>4. Ahead(b, w, at[j] + c) = encodebytes(s[j])[c]
      BY <2>2, <3>3 DEF FrameAt
    <3> QED
      BY <3>3, <3>4
  <2>5. at2[j + 1] = at2[j] + FrameLen(s[j]) /\ at2[j + 1] <= Have(b2, w)
    BY <2>1, <2>2, <2>3 DEF FrameAt
  <2> QED
    BY <2>4, <2>5 DEF FrameAt
<1> QED
  BY <1>2, <1>3, <1>4 DEF Frames, at2

(* The first frame has been taken as a whole. *)
LEMMA FramesTaken ==
    ASSUME NEW b, NEW w, NEW at, NEW taken \in Nat, NEW g \in Nat, NEW s \in Seq(Messages),
           Frames(at, b, w, taken, g, s), g < Len(s), taken = FrameLen(s[g + 1])
    PROVE  Frames(at, b, w, 0, g + 1, s)
<1>1. g + 1 \in (g + 1)..Len(s) /\ g + 1 \in Nat /\ (g + 1) + 1 \in Nat
  OBVIOUS
<1>2. FrameAt(at, b, w, s[g + 1], g + 1) /\ at[g + 1] = 0 - taken
  BY <1>1 DEF Frames
<1>3. at[(g + 1) + 1] = 0 - 0
  BY <1>1, <1>2 DEF FrameAt
<1>4. \A j \in ((g + 1) + 1)..Len(s) : j \in (g + 1)..Len(s)
  OBVIOUS
<1> QED
  BY <1>3, <1>4 DEF Frames

(* One more frame is put behind what is ahead. *)
LEMMA FramesSent ==
    ASSUME NEW b, BufferOK(b), b.rd <= b.wr, NEW w \in Seq(Cell), NEW at, NEW taken,
           NEW g \in Nat, NEW s \in Seq(Messages), g <= Len(s),
           Frames(at, b, w, taken, g, s), NEW m \in Messages
    PROVE  \E at2 : Frames(at2, b, w \o encodebytes(m), taken, g, Append(s, m))
<1>  DEFINE e == encodebytes(m)
            w2 == w \o e
            h == Have(b, w)
            at2 == [at EXCEPT ![Len(s) + 2] = h + Len(e)]
            s2 == Append(s, m)
<1>1. e \in Seq(Cell) /\ Len(e) \in Nat /\ Len(w) \in Nat
  BY EncodeFacts
<1>2. readAble(b) \in Nat /\ h \in Nat /\ h = readAble(b) + Len(w)
  BY <1>1 DEF BufferOK, Buffer, readAble, Have
<1>3. /\ Len(w2) = Len(w) + Len(e)
      /\ \A i \in 1..(Len(w) + Len(e)) : w2[i] = IF i <= Len(w) THEN w[i] ELSE e[i - Len(w)]
  BY <1>1, ConcatProperties
<1>4. /\ s2 \in Seq(Messages) /\ Len(s2) = Len(s) + 1 /\ Len(s) \in Nat
      /\ \A i \in 1..Len(s) : s2[i] = s[i]
      /\ s2[Len(s) + 1] = m
  BY AppendProperties
<1>  HIDE DEF e, w2, h, s2
<1>5. /\ at2 \in [Nat -> Int] /\ at2[Len(s) + 2] = h + Len(e)
      /\ \A i \in Nat : i # Len(s) + 2 => at2[i] = at[i]
  <2>1. at \in [Nat -> Int]
    BY DEF Frames
  <2>2. Len(s) + 2 \in Nat /\ h + Len(e) \in Int
    BY ONLY <1>1, <1>2, <1>4
  <2> QED
    BY <2>1, <2>2
<1>  HIDE DEF at2
<1>6. Have(b, w2) = h + Len(e)
  BY <1>1, <1>2, <1>3 DEF Have
<1>7. ASSUME NEW i \in 1..h PROVE Ahead(b, w2, i) = Ahead(b, w, i)
  <2>1. ~(i <= readAble(b)) => i - readAble(b) \in 1..(Len(w) + Len(e)) /\ i - readAble(b) <= Len(w)
    BY <1>1, <1>2
  <2> QED
    BY <1>3, <2>1 DEF Ahead
<1>8. ASSUME NEW c \in 1..Len(e) PROVE Ahead(b, w2, h + c) = e[c]
  <2>1. /\ ~(h + c <= readAble(b)) /\ (h + c) - readAble(b) \in 1..(Len(w) + Len(e))
        /\ ~((h + c) - readAble(b) <= Len(w)) /\ ((h + c) - readAble(b)) - Len(w) = c
    <3>  DEFINE r == readAble(b)
                n == Len(w)
                l == Len(e)
    <3>1. c \in 1..l /\ l \in Nat /\ n \in Nat /\ r \in Nat /\ h = r + n
      BY <1>1, <1>2
    <3>  HIDE DEF r, n, l
    <3>2. /\ ~(h + c <= r) /\ (h + c) - r \in 1..(n + l)
          /\ ~((h + c) - r <= n) /\ ((h + c) - r) - n = c
      BY ONLY <3>1
    <3> QED
      BY <3>2 DEF r, n, l
  <2>2. w2[(h + c) - readAble(b)] = e[((h + c) - readAble(b)) - Len(w)]
    BY <1>3, <2>1
  <2> QED
    BY <2>1, <2>2 DEF Ahead
<1>9. at2[g + 1] = 0 - taken /\ at2[Len(s2) + 1] = Have(b, w2) /\ at2[Len(s) + 1] = h
  <2>1. g + 1 # Len(s) + 2 /\ g + 1 \in Nat /\ Len(s2) + 1 = Len(s) + 2
        /\ Len(s) + 1 # Len(s) + 2 /\ Len(s) + 1 \in Nat
    BY <1>4
  <2> QED
    BY <1>5, <1>6, <2>1 DEF Frames, h
<1>10. ASSUME NEW j \in (g + 1)..Len(s) PROVE FrameAt(at2, b, w2, s2[j], j)
  <2>1. /\ j \in 1..Len(s) /\ j \in Nat /\ j + 1 \in Nat /\ j # Len(s) + 2 /\ j + 1 # Len(s) + 2
        /\ s2[j] = s[j] /\ s[j] \in Messages
    BY <1>4
  <2>2. at2[j] = at[j] /\ at2[j + 1] = at[j + 1] /\ at[j] \in Int /\ FrameLen(s[j]) \in Nat
    <3>1. FrameLen(s[j]) \in Nat
      BY <2>1, EncodeFacts DEF FrameLen
    <3> QED
      BY <1>5, <2>1, <3>1 DEF Frames
  <2>3. FrameAt(at, b, w, s[j], j)
    BY DEF Frames
  <2>4. /\ at[j + 1] = at[j] + FrameLen(s[j]) /\ at[j + 1] <= h
        /\ \A c \in 1..FrameLen(s[j]) :
              at[j] + c >= 1 => Ahead(b, w, at[j] + c) = encodebytes(s[j])[c]
    BY <2>3 DEF FrameAt, h
  <2>5. ASSUME NEW c \in 1..FrameLen(s[j]), at[j] + c >= 1
        PROVE  Ahead(b, w2, at[j] + c) = encodebytes(s[j])[c]
    <3>1. at[j] + c \in 1..h
      BY <1>2, <2>2, <2>4, <2>5
    <3> QED
      BY <1>7, <2>4, <2>5, <3>1
  <2>6. at[j + 1] <= Have(b, w2)
    <3>1. at[j + 1] \in Int
      BY <2>2, <2>4
    <3> QED
      BY <1>1, <1>2, <1>6, <2>4, <3>1
  <2> QED
    BY <2>1, <2>2, <2>4, <2>5, <2>6 DEF FrameAt
<1>11. FrameAt(at2, b, w2, s2[Len(s) + 1], Len(s) + 1)
  <2>1. (Len(s) + 1) + 1 = Len(s) + 2
    BY <1>4
  <2>2. FrameLen(m) = Len(e)
    BY DEF FrameLen, e
  <2>3. \A c \in 1..Len(e) : Ahead(b, w2, h + c) = encodebytes(m)[c]
    BY <1>8 DEF e
  <2>4. at2[(Len(s) + 1) + 1] = h + Len(e) /\ h + Len(e) <= Have(b, w2)
    BY <1>1, <1>2, <1>5, <1>6, <2>1
  <2> QED
    BY <1>4, <1>9, <2>2, <2>3, <2>4 DEF FrameAt
<1>12. \A j \in (g + 1)..Len(s2) : j \in (g + 1)..Len(s) \/ j = Len(s) + 1
  BY <1>4
<1>13. \A j \in (g + 1)..Len(s2) : FrameAt(at2, b, w2, s2[j], j)
  BY <1>10, <1>11, <1>12
<1>14. Frames(at2, b, w2, taken, g, s2)
  BY <1>5, <1>9, <1>13 DEF Frames
<1> QED
  BY <1>14 DEF s2, w2, e

(* The next cells that are ready are the next ones of the first frame. *)
LEMMA NextCells ==
    ASSUME NEW b, BufferOK(b), b.rd <= b.wr, NEW w \in Seq(Cell), NEW at, NEW taken \in Nat,
           NEW g \in Nat, NEW s \in Seq(Messages), g < Len(s),
           Frames(at, b, w, taken, g, s),
           NEW c \in Nat, c >= 1, c <= readAble(b), taken + c <= Len(s[g + 1].data) + 12
    PROVE  b.cells[b.rd + c] = encodebytes(s[g + 1])[taken + c]
<1>1. g + 1 \in (g + 1)..Len(s) /\ g + 1 \in 1..Len(s)
  OBVIOUS
<1>2. s[g + 1] \in Messages
  BY <1>1
<1>3. FrameLen(s[g + 1]) = Len(s[g + 1].data) + 12 /\ Len(s[g + 1].data) \in Nat
  BY <1>2, EncodeFacts DEF FrameLen
<1>4. FrameAt(at, b, w, s[g + 1], g + 1) /\ at[g + 1] = 0 - taken
  BY <1>1 DEF Frames
<1>5. taken + c \in 1..FrameLen(s[g + 1]) /\ at[g + 1] + (taken + c) = c
  BY <1>3, <1>4
<1>6. Ahead(b, w, c) = encodebytes(s[g + 1])[taken + c]
  BY <1>4, <1>5 DEF FrameAt
<1> QED
  BY <1>6 DEF Ahead

(* Where cells are ready and nothing of a frame is taken a message is under way. *)
LEMMA FrameUnderWay ==
    ASSUME NEW b, BufferOK(b), NEW w \in Seq(Cell), NEW at,
           NEW g \in Nat, NEW s \in Seq(Messages), g <= Len(s),
           Frames(at, b, w, 0, g, s), readAble(b) >= LEN
    PROVE  g < Len(s)
<1>1. readAble(b) \in Int /\ Len(w) \in Nat /\ Len(s) \in Nat
  BY DEF BufferOK, Buffer, readAble
<1>2. Have(b, w) # 0
  BY <1>1 DEF Have, LEN
<1>3. g = Len(s) => at[g + 1] = 0 - 0 /\ at[g + 1] = Have(b, w)
  BY DEF Frames
<1> QED
  BY <1>1, <1>2, <1>3

(* What is ahead when n cells that are ready are dropped. *)
DroppedAhead(b, b2, w, n) ==
    /\ Have(b, w) \in Nat /\ Have(b2, w) = Have(b, w) - n
    /\ \A i \in 1..(Have(b, w) - n) : Ahead(b2, w, i) = Ahead(b, w, n + i)

(* Dropping cells that are ready brings the next ones forward. *)
LEMMA DropsAhead ==
    \A b, b2 : \A w \in Seq(Cell), n \in Nat :
        BufferOK(b) /\ n <= readAble(b) /\ Drops(b2, b, n) => DroppedAhead(b, b2, w, n)
<1>  SUFFICES ASSUME NEW b, NEW b2, NEW w \in Seq(Cell), NEW n \in Nat,
                     BufferOK(b), n <= readAble(b), Drops(b2, b, n)
              PROVE  DroppedAhead(b, b2, w, n)
  OBVIOUS
<1>1. readAble(b) \in Nat /\ Len(w) \in Nat /\ b.rd \in Nat
  BY DEF BufferOK, Buffer, readAble
<1>2. /\ readAble(b2) = readAble(b) - n
      /\ \A i \in 1..readAble(b2) : b2.cells[b2.rd + i] = b.cells[b.rd + n + i]
  BY DEF Drops
<1>3. Have(b, w) \in Nat /\ Have(b2, w) = Have(b, w) - n /\ Have(b, w) = readAble(b) + Len(w)
  BY <1>1, <1>2 DEF Have
<1>4. ASSUME NEW i \in 1..(Have(b, w) - n) PROVE Ahead(b2, w, i) = Ahead(b, w, n + i)
  <2>1. i \in Nat /\ i >= 1
    BY <1>1, <1>3
  <2>2. CASE i <= readAble(b2)
    <3>1. i \in 1..readAble(b2) /\ n + i <= readAble(b) /\ b.rd + n + i = b.rd + (n + i)
      BY <1>1, <1>2, <2>1, <2>2
    <3> QED
      BY <1>2, <2>2, <3>1 DEF Ahead
  <2>3. CASE ~(i <= readAble(b2))
    <3>1. ~(n + i <= readAble(b)) /\ i - readAble(b2) = (n + i) - readAble(b)
      BY <1>1, <1>2, <2>1, <2>3
    <3> QED
      BY <2>3, <3>1 DEF Ahead
  <2> QED
    BY <2>2, <2>3
<1> QED
  BY <1>3, <1>4 DEF DroppedAhead

-----------------------------------------------------------------------------
(* How much of the frame of the first message not handed over is taken. *)
Taken == IF parse = MSG_END THEN 10 + packet.len ELSE LEN * (parse - 1)

(* What the codec holds of that message. *)
PacketOK ==
    /\ parse > MSG_START => Len(got) < Len(sent)
    /\ parse > MSG_CMD_ID => packet.cmd = sent[Len(got) + 1].cmd
    /\ parse > MSG_CMD_LEN => packet.len = Len(sent[Len(got) + 1].data)
    /\ parse = MSG_END => packet.data = sent[Len(got) + 1].data

HasFrames(b, w, taken, g, s) == \E at : Frames(at, b, w, taken, g, s)

(* The frames that are ahead are those of the messages not handed over, or *)
(* a tail is skipped that has not come, or the session is over.            *)
Sound ==
    /\ session \in {"reading", "parsing"} /\ buffer.rd <= buffer.wr
    /\ PacketOK
    /\ HasFrames(buffer, wire, Taken, Len(got), sent)
Failing == session = "parsing" /\ parse = MSG_END /\ buffer.wr <= buffer.rd
Over == session \in {"stopped", "crashed"}

Delivered == Len(got) <= Len(sent) /\ \A j \in 1..Len(got) : got[j] = sent[j]

(* The inductive invariant of the two properties about the messages. *)
IInv == Typed /\ Delivered /\ (Sound \/ Failing \/ Over)

(* The frames that are ahead in the next state. *)
LEMMA HasFramesNext ==
    ASSUME HasFrames(buffer', wire', Taken', Len(got'), sent')
    PROVE  HasFrames(buffer, wire, Taken, Len(got), sent)'
BY DEF HasFrames, Frames, FrameAt, Have, Ahead, readAble

(* What has been handed over is what was sent. *)
LEMMA DeliveredIsOrdered == ASSUME Typed, Delivered PROVE MessagesArriveInOrder
<1>1. got \in Seq([cmd : Nat, data : Seq(Cell)]) /\ sent \in Seq(Messages)
  BY DEF Typed
<1>2. Len(got) \in Nat /\ Len(sent) \in Nat /\ Len(got) <= Len(sent)
  BY <1>1 DEF Delivered
<1>3. /\ SubSeq(sent, 0 + 1, Len(got)) \in Seq(Messages)
      /\ Len(SubSeq(sent, 0 + 1, Len(got))) = Len(got) - 0
      /\ \A i \in 1..(Len(got) - 0) : SubSeq(sent, 0 + 1, Len(got))[i] = sent[0 + i]
  BY <1>1, <1>2, PieceFacts
<1>  DEFINE p == SubSeq(sent, 1, Len(got))
<1>4. p \in Seq(Messages) /\ Len(p) = Len(got) /\ \A i \in 1..Len(got) : p[i] = sent[i]
  <2>1. 0 + 1 = 1 /\ Len(got) - 0 = Len(got) /\ \A i \in 1..Len(got) : 0 + i = i
    BY <1>2
  <2> QED
    BY <1>3, <2>1
<1>  HIDE DEF p
<1>5. \A i \in 1..Len(got) : got[i] = p[i]
  BY <1>4 DEF Delivered
<1>6. got = p
  BY ONLY <1>1, <1>4, <1>5, SeqEqual
<1> QED
  BY <1>2, <1>6 DEF MessagesArriveInOrder, p

(* The first message not handed over. *)
LEMMA FirstMessage ==
    ASSUME Typed, Len(got) < Len(sent)
    PROVE  /\ sent[Len(got) + 1] \in Messages
           /\ sent[Len(got) + 1] = [cmd |-> sent[Len(got) + 1].cmd,
                                    data |-> sent[Len(got) + 1].data]
           /\ sent[Len(got) + 1].cmd \in Cell /\ sent[Len(got) + 1].data \in Seq(Cell)
           /\ Len(sent[Len(got) + 1].data) \in Cell
<1>1. Len(got) + 1 \in 1..Len(sent) /\ sent \in Seq(Messages)
  BY DEF Typed
<1>2. sent[Len(got) + 1] \in Messages
  BY <1>1
<1>3. sent[Len(got) + 1] \in [cmd : Cell, data : Seq(Cell)]
  BY <1>2, TcpSessionAssumption
<1> QED
  BY <1>2, <1>3, EncodeFacts

(* How much is taken is a number. *)
LEMMA TakenNat == ASSUME Typed PROVE Taken \in Nat /\ Len(got) \in Nat /\ Len(sent) \in Nat
BY DEF Typed, Taken, MsgParseState, MSG_START, MSG_END, LEN

(* The two cells of the next field where both are ready. *)
LEMMA NextWord ==
    ASSUME Typed, buffer.rd <= buffer.wr, readAble(buffer) >= LEN, Len(got) < Len(sent),
           NEW at, NEW taken \in Nat, Frames(at, buffer, wire, taken, Len(got), sent),
           taken + LEN <= Len(sent[Len(got) + 1].data) + 12
    PROVE  Word = 256 * encodebytes(sent[Len(got) + 1])[taken + 1]
                  + encodebytes(sent[Len(got) + 1])[taken + 2]
<1>1. /\ BufferOK(buffer) /\ wire \in Seq(Cell) /\ sent \in Seq(Messages) /\ Len(got) \in Nat
      /\ readAble(buffer) \in Int /\ Len(sent[Len(got) + 1].data) \in Nat
  <2>1. BufferOK(buffer) /\ wire \in Seq(Cell) /\ sent \in Seq(Messages)
    BY DEF Typed
  <2>2. Len(got) \in Nat /\ readAble(buffer) \in Int
    BY <2>1, TakenNat, BufferTypes
  <2>3. Len(sent[Len(got) + 1].data) \in Cell
    BY FirstMessage
  <2> QED
    BY <2>1, <2>2, <2>3 DEF Cell
<1>2. /\ 1 \in Nat /\ 1 >= 1 /\ 1 <= readAble(buffer)
      /\ taken + 1 <= Len(sent[Len(got) + 1].data) + 12
      /\ 2 \in Nat /\ 2 >= 1 /\ 2 <= readAble(buffer)
      /\ taken + 2 <= Len(sent[Len(got) + 1].data) + 12
  BY <1>1 DEF LEN
<1>3. buffer.cells[buffer.rd + 1] = encodebytes(sent[Len(got) + 1])[taken + 1]
  BY <1>1, <1>2, NextCells
<1>4. buffer.cells[buffer.rd + 2] = encodebytes(sent[Len(got) + 1])[taken + 2]
  BY <1>1, <1>2, NextCells
<1> QED
  BY <1>3, <1>4 DEF Word

(* The frames that are ahead when n cells are taken. *)
LEMMA FramesAfter ==
    ASSUME Typed, buffer.rd <= buffer.wr, NEW n \in Nat, n <= readAble(buffer),
           Drops(buffer', buffer, n), NEW at, NEW taken \in Nat,
           Frames(at, buffer, wire, taken, Len(got), sent)
    PROVE  \E at2 : Frames(at2, buffer', wire, taken + n, Len(got), sent)
<1>1. BufferOK(buffer) /\ wire \in Seq(Cell) /\ sent \in Seq(Messages) /\ Len(got) \in Nat
  BY TakenNat DEF Typed
<1>2. /\ Have(buffer, wire) \in Nat /\ Have(buffer', wire) = Have(buffer, wire) - n
      /\ \A i \in 1..(Have(buffer, wire) - n) :
            Ahead(buffer', wire, i) = Ahead(buffer, wire, n + i)
  <2>1. DroppedAhead(buffer, buffer', wire, n)
    BY <1>1, DropsAhead
  <2> QED
    BY <2>1 DEF DroppedAhead
<1>3. Frames([j \in Nat |-> at[j] - n], buffer', wire, taken + n, Len(got), sent)
  BY <1>1, <1>2, FramesDropped
<1> QED
  BY <1>3

-----------------------------------------------------------------------------
(* Initially nothing is ahead. *)
LEMMA InitSound == Init => IInv
<1>  SUFFICES ASSUME Init PROVE IInv
  OBVIOUS
<1>1. Typed
  BY InitTyped
<1>2. Len(got) = 0 /\ Len(sent) = 0 /\ Len(wire) = 0
  BY DEF Init
<1>3. Delivered
  BY <1>2 DEF Delivered
<1>4. buffer.rd = 0 /\ buffer.wr = 0 /\ session = "reading"
  BY DEF Init
<1>5. PacketOK
  BY DEF Init, PacketOK, MSG_START, MSG_CMD_ID, MSG_CMD_LEN, MSG_END
<1>6. Frames([j \in Nat |-> 0], buffer, wire, Taken, Len(got), sent)
  <2>1. Taken = 0
    BY DEF Init, Taken, MSG_START, MSG_END, LEN
  <2>2. Have(buffer, wire) = 0
    BY <1>2, <1>4 DEF Have, readAble
  <2>3. \A j \in (0 + 1)..0 : FALSE
    OBVIOUS
  <2>  DEFINE at == [j \in Nat |-> 0]
  <2>4. at \in [Nat -> Int] /\ at[0 + 1] = 0 - 0 /\ at[0 + 1] = 0
    <3>1. 0 \in Int /\ 0 + 1 \in Nat /\ 0 - 0 = 0
      OBVIOUS
    <3>2. at \in [Nat -> Int]
      BY <3>1, Zenon
    <3>3. at[0 + 1] = 0
      BY <3>1, Zenon
    <3> QED
      BY <3>1, <3>2, <3>3
  <2>  HIDE DEF at
  <2>5. Frames(at, buffer, wire, Taken, Len(got), sent)
    BY <1>2, <2>1, <2>2, <2>3, <2>4 DEF Frames
  <2> QED
    BY <2>5 DEF at
<1> QED
  BY <1>1, <1>3, <1>4, <1>5, <1>6 DEF IInv, Sound, HasFrames

(* A message is sent. *)
LEMMA SendSound ==
    ASSUME IInv, NEW m \in Messages, SendMsg(m)
    PROVE  Delivered' /\ (Sound \/ Failing \/ Over)'
<1>1. Typed /\ Delivered /\ sent \in Seq(Messages) /\ Len(got) \in Nat /\ Len(sent) \in Nat
  BY TakenNat DEF IInv, Typed
<1>2. /\ Len(sent') = Len(sent) + 1 /\ sent' = Append(sent, m)
      /\ \A i \in 1..Len(sent) : sent'[i] = sent[i]
  BY <1>1, AppendProperties DEF SendMsg
<1>3. UNCHANGED <<got, buffer, parse, packet, session>> /\ wire' = wire \o encodebytes(m)
  BY DEF SendMsg
<1>4. Delivered'
  <2>1. Len(got) <= Len(sent) + 1 /\ \A j \in 1..Len(got) : j \in 1..Len(sent)
    BY <1>1 DEF Delivered
  <2> QED
    BY <1>1, <1>2, <1>3, <2>1 DEF Delivered
<1>5. CASE Sound
  <2>1. PICK at : Frames(at, buffer, wire, Taken, Len(got), sent)
    BY <1>5 DEF Sound, HasFrames
  <2>2. \E at2 : Frames(at2, buffer, wire \o encodebytes(m), Taken, Len(got), Append(sent, m))
    <3>1. BufferOK(buffer) /\ buffer.rd <= buffer.wr /\ wire \in Seq(Cell) /\ Len(got) <= Len(sent)
      BY <1>1, <1>5 DEF Sound, Typed, Delivered
    <3> QED
      BY <1>1, <2>1, <3>1, FramesSent
  <2>3. HasFrames(buffer, wire, Taken, Len(got), sent)'
    <3>1. Taken' = Taken
      BY <1>3 DEF Taken
    <3>2. HasFrames(buffer', wire', Taken', Len(got'), sent')
      BY <1>2, <1>3, <2>2, <3>1 DEF HasFrames
    <3> QED
      BY <3>2, HasFramesNext
  <2>4. PacketOK'
    <3>1. Len(got) < Len(sent) =>
              Len(got) < Len(sent) + 1 /\ sent'[Len(got) + 1] = sent[Len(got) + 1]
      <4>1. Len(got) < Len(sent) => Len(got) + 1 \in 1..Len(sent) /\ Len(got) < Len(sent) + 1
        BY <1>1
      <4> QED
        BY <1>2, <4>1
    <3>2. parse \in 1..7
      BY <1>1 DEF Typed, MsgParseState, MSG_START, MSG_END
    <3> QED
      BY <1>2, <1>3, <1>5, <3>1, <3>2
         DEF Sound, PacketOK, MSG_START, MSG_CMD_ID, MSG_CMD_LEN, MSG_END
  <2>5. Sound'
    BY <1>3, <1>5, <2>3, <2>4 DEF Sound
  <2> QED
    BY <1>4, <2>5
<1>6. CASE Failing \/ Over
  BY <1>3, <1>4, <1>6 DEF Failing, Over
<1> QED
  BY <1>5, <1>6 DEF IInv

(* What is ahead does not change when a piece of the wire is read. *)
LEMMA RecvAhead ==
    ASSUME Typed, NEW n \in 1..MaxRead, Recv(n)
    PROVE  /\ Have(buffer, wire) \in Nat /\ Have(buffer', wire') = Have(buffer, wire)
           /\ \A i \in 1..Have(buffer, wire) : Ahead(buffer', wire', i) = Ahead(buffer, wire, i)
<1>  DEFINE p == SubSeq(wire, 1, n)
            r == readAble(buffer)
            l == Len(wire)
<1>1. /\ n \in Nat /\ n <= l /\ Len(p) = n /\ \A i \in 1..n : p[i] = wire[i]
      /\ Len(wire') = l - n /\ \A i \in 1..(l - n) : wire'[i] = wire[n + i]
      /\ Adds(buffer', buffer, p)
  BY RecvCells
<1>2. r \in Nat /\ l \in Nat
  <2>1. buffer.rd <= buffer.wr /\ buffer.rd \in Nat /\ buffer.wr \in Nat
    BY BufferTypes DEF Typed, Ready, Recv
  <2> QED
    BY <2>1 DEF readAble, Typed
<1>  HIDE DEF p, r, l
<1>3. /\ readAble(buffer') = r + n
      /\ \A i \in 1..(r + n) : buffer'.cells[buffer'.rd + i] =
                                  IF i <= r THEN buffer.cells[buffer.rd + i] ELSE p[i - r]
  BY <1>1 DEF Adds, r
<1>4. Have(buffer, wire) = r + l /\ Have(buffer', wire') = r + l
  BY <1>1, <1>2, <1>3 DEF Have, r, l
<1>5. ASSUME NEW i \in 1..(r + l) PROVE Ahead(buffer', wire', i) = Ahead(buffer, wire, i)
  <2>1. Ahead(buffer, wire, i) = IF i <= r THEN buffer.cells[buffer.rd + i] ELSE wire[i - r]
    BY DEF Ahead, r
  <2>2. Ahead(buffer', wire', i) =
            IF i <= r + n THEN buffer'.cells[buffer'.rd + i] ELSE wire'[i - (r + n)]
    BY <1>3 DEF Ahead
  <2>3. CASE i <= r
    <3>1. i \in 1..(r + n) /\ i <= r + n
      BY <1>1, <1>2, <2>3
    <3> QED
      BY <1>3, <2>1, <2>2, <2>3, <3>1
  <2>4. CASE ~(i <= r) /\ i <= r + n
    <3>1. i \in 1..(r + n) /\ i - r \in 1..n
      BY <1>1, <1>2, <2>4
    <3> QED
      BY <1>1, <1>3, <2>1, <2>2, <2>4, <3>1
  <2>5. CASE ~(i <= r + n)
    <3>1. ~(i <= r) /\ i - (r + n) \in 1..(l - n) /\ n + (i - (r + n)) = i - r
      BY <1>1, <1>2, <2>5
    <3> QED
      BY <1>1, <2>1, <2>2, <2>5, <3>1
  <2> QED
    BY <2>3, <2>4, <2>5
<1> QED
  BY <1>2, <1>4, <1>5

(* A piece of what is under way is read. *)
LEMMA RecvSound ==
    ASSUME IInv, NEW n \in 1..MaxRead, Recv(n)
    PROVE  Delivered' /\ (Sound \/ Failing \/ Over)'
<1>1. /\ UNCHANGED <<sent, got, parse, packet>> /\ session = "reading" /\ session' = "parsing"
      /\ Typed /\ Delivered
  BY DEF Recv, IInv
<1>2. Sound /\ buffer'.rd <= buffer'.wr
  <2>1. Typed'
    BY <1>1, RecvTyped
  <2>2. parse # MSG_END => buffer'.rd <= buffer'.wr
    BY <1>1, <2>1 DEF Typed, Ready
  <2>3. Sound
    BY <1>1 DEF IInv, Failing, Over
  <2>4. buffer'.rd <= buffer'.wr
    <3>1. Adds(buffer', buffer, SubSeq(wire, 1, n)) /\ Len(SubSeq(wire, 1, n)) = n /\ n \in Nat
      BY <1>1, RecvCells
    <3>2. readAble(buffer') = readAble(buffer) + n /\ BufferOK(buffer')
      BY <3>1 DEF Adds
    <3>3. /\ buffer.rd \in Nat /\ buffer.wr \in Nat /\ buffer.rd <= buffer.wr
          /\ buffer'.rd \in Nat /\ buffer'.wr \in Nat
      BY <1>1, <2>3, <3>2 DEF Sound, Typed, BufferOK, Buffer
    <3> QED
      BY <3>1, <3>2, <3>3 DEF readAble
  <2> QED
    BY <2>3, <2>4
<1>3. PICK at : Frames(at, buffer, wire, Taken, Len(got), sent)
  BY <1>2 DEF Sound, HasFrames
<1>4. Frames(at, buffer', wire', Taken, Len(got), sent)
  <2>1. /\ Have(buffer, wire) \in Nat /\ Have(buffer', wire') = Have(buffer, wire)
        /\ \A i \in 1..Have(buffer, wire) : Ahead(buffer', wire', i) = Ahead(buffer, wire, i)
    BY <1>1, RecvAhead
  <2>2. Len(got) \in Nat /\ sent \in Seq(Messages)
    BY <1>1 DEF Typed
  <2> QED
    BY <1>3, <2>1, <2>2, FramesMoved
<1>5. HasFrames(buffer, wire, Taken, Len(got), sent)'
  <2>1. Taken' = Taken
    BY <1>1 DEF Taken
  <2>2. HasFrames(buffer', wire', Taken', Len(got'), sent')
    BY <1>1, <1>4, <2>1 DEF HasFrames
  <2> QED
    BY <2>2, HasFramesNext
<1>6. PacketOK' /\ Delivered'
  BY <1>1, <1>2 DEF Sound, PacketOK, Delivered
<1> QED
  BY <1>1, <1>2, <1>5, <1>6 DEF Sound

-----------------------------------------------------------------------------
(* The position in the frame where the parser is. *)
LEMMA TakenFacts ==
    ASSUME Typed
    PROVE  /\ parse \in 1..7
           /\ parse # MSG_END => Taken = 2 * (parse - 1)
           /\ parse = MSG_END => Taken = 10 + packet.len
BY DEF Typed, Taken, MsgParseState, MSG_START, MSG_END, LEN

(* Where a field is ready a message is under way. *)
LEMMA MessageUnderWay ==
    ASSUME Typed, Delivered, Sound, readAble(buffer) >= LEN
    PROVE  Len(got) < Len(sent)
<1>1. CASE parse > MSG_START
  BY <1>1 DEF Sound, PacketOK
<1>2. CASE ~(parse > MSG_START)
  <2>1. parse = 1 /\ Taken = 0
    BY <1>2, TakenFacts DEF MSG_START, MSG_END
  <2>2. PICK at : Frames(at, buffer, wire, 0, Len(got), sent)
    BY <2>1 DEF Sound, HasFrames
  <2>3. /\ BufferOK(buffer) /\ wire \in Seq(Cell) /\ Len(got) \in Nat
        /\ sent \in Seq(Messages) /\ Len(got) <= Len(sent)
    BY DEF Typed, Delivered
  <2> QED
    BY <2>2, <2>3, FrameUnderWay
<1> QED
  BY <1>1, <1>2

(* The two cells of the next field where the parser is. *)
LEMMA SoundWord ==
    ASSUME Typed, Delivered, Sound, readAble(buffer) >= LEN,
           Taken + LEN <= Len(sent[Len(got) + 1].data) + 12
    PROVE  Word = 256 * encodebytes(sent[Len(got) + 1])[Taken + 1]
                  + encodebytes(sent[Len(got) + 1])[Taken + 2]
<1>1. Len(got) < Len(sent) /\ Taken \in Nat /\ buffer.rd <= buffer.wr
  BY MessageUnderWay, TakenNat DEF Sound
<1>2. PICK at : Frames(at, buffer, wire, Taken, Len(got), sent)
  BY DEF Sound, HasFrames
<1> QED
  BY <1>1, <1>2, NextWord

(* The frames that are ahead when the parser has taken n cells. *)
LEMMA SoundAfter ==
    ASSUME Typed, Sound, NEW n \in Nat, n <= readAble(buffer), Drops(buffer', buffer, n),
           UNCHANGED <<sent, got, wire>>, Taken' = Taken + n
    PROVE  HasFrames(buffer, wire, Taken, Len(got), sent)'
<1>1. PICK at : Frames(at, buffer, wire, Taken, Len(got), sent)
  BY DEF Sound, HasFrames
<1>2. buffer.rd <= buffer.wr /\ Taken \in Nat
  BY TakenNat DEF Sound
<1>3. PICK at2 : Frames(at2, buffer', wire, Taken + n, Len(got), sent)
  BY <1>1, <1>2, FramesAfter
<1>4. HasFrames(buffer', wire', Taken', Len(got'), sent')
  BY <1>3 DEF HasFrames
<1> QED
  BY <1>4, HasFramesNext

(* A field of the header is taken. *)
LEMMA HeaderSound == ASSUME IInv, DecodeHeader PROVE Delivered' /\ Sound'
<1>1. Typed /\ Delivered
  BY DEF IInv
<1>2. /\ parse \in 1..5 /\ LEN <= readAble(buffer) /\ session' = "parsing"
      /\ Drops(buffer', buffer, LEN) /\ buffer'.rd <= buffer'.wr
  BY <1>1, HeaderTakes
<1>3. /\ UNCHANGED <<sent, got, wire>> /\ parse' = parse + 1 /\ session = "parsing"
      /\ packet' = CASE parse = MSG_CMD_ID -> [packet EXCEPT !.cmd = Word]
                     [] parse = MSG_CMD_LEN -> [packet EXCEPT !.len = Word]
                     [] OTHER -> packet
  BY DEF DecodeHeader
<1>4. Sound
  BY <1>2, <1>3 DEF IInv, Failing, Over, MSG_END
<1>5. readAble(buffer) >= LEN /\ LEN \in Nat /\ LEN = 2
  BY <1>1, <1>2, BufferTypes DEF Typed, LEN
<1>6. Len(got) < Len(sent)
  BY <1>1, <1>4, <1>5, MessageUnderWay
<1>  DEFINE m == sent[Len(got) + 1]
<1>7. m \in Messages /\ m.cmd \in Cell /\ Len(m.data) \in Cell
  BY <1>1, <1>6, FirstMessage
<1>8. /\ encodebytes(m)[3] = 0 /\ encodebytes(m)[4] = m.cmd
      /\ encodebytes(m)[5] = 0 /\ encodebytes(m)[6] = Len(m.data)
  BY <1>7, EncodeFacts
<1>9. Taken = 2 * (parse - 1)
  BY <1>1, <1>2, TakenFacts DEF MSG_END
<1>10. Word = 256 * encodebytes(m)[Taken + 1] + encodebytes(m)[Taken + 2]
  <2>1. Taken + LEN <= Len(m.data) + 12
    BY <1>2, <1>5, <1>7, <1>9 DEF Cell
  <2> QED
    BY <1>1, <1>4, <1>5, <2>1, SoundWord
<1>  HIDE DEF m
<1>11. parse = MSG_CMD_ID => packet' = [packet EXCEPT !.cmd = m.cmd]
  <2>1. parse = MSG_CMD_ID => Word = 256 * 0 + m.cmd
    BY <1>8, <1>9, <1>10 DEF MSG_CMD_ID
  <2>2. 256 * 0 + m.cmd = m.cmd
    <3>1. \A i \in 0..255 : 256 * 0 + i = i
      OBVIOUS
    <3> QED
      BY <1>7, <3>1 DEF Cell
  <2> QED
    BY <1>3, <2>1, <2>2 DEF MSG_CMD_ID, MSG_CMD_LEN
<1>12. parse = MSG_CMD_LEN => packet' = [packet EXCEPT !.len = Len(m.data)]
  <2>1. parse = MSG_CMD_LEN => Word = 256 * 0 + Len(m.data)
    BY <1>8, <1>9, <1>10 DEF MSG_CMD_LEN
  <2>2. 256 * 0 + Len(m.data) = Len(m.data)
    BY <1>7 DEF Cell
  <2> QED
    BY <1>3, <2>1, <2>2 DEF MSG_CMD_ID, MSG_CMD_LEN
<1>13. parse # MSG_CMD_ID /\ parse # MSG_CMD_LEN => packet' = packet
  BY <1>3
<1>14. /\ parse > MSG_CMD_ID => packet.cmd = m.cmd
       /\ parse > MSG_CMD_LEN => packet.len = Len(m.data)
  BY <1>4 DEF Sound, PacketOK, m
<1>15. packet \in [cmd : Nat, len : Nat, data : Seq(Cell)]
  BY <1>1 DEF Typed
<1>16. /\ parse' > MSG_CMD_ID => packet'.cmd = m.cmd
       /\ parse' > MSG_CMD_LEN => packet'.len = Len(m.data)
  <2>1. CASE parse = MSG_CMD_ID
    BY <1>3, <1>11, <1>15, <2>1 DEF MSG_CMD_ID, MSG_CMD_LEN
  <2>2. CASE parse = MSG_CMD_LEN
    BY <1>3, <1>12, <1>14, <1>15, <2>2 DEF MSG_CMD_ID, MSG_CMD_LEN
  <2>3. CASE parse # MSG_CMD_ID /\ parse # MSG_CMD_LEN
    BY <1>2, <1>3, <1>13, <1>14, <2>3 DEF MSG_CMD_ID, MSG_CMD_LEN
  <2> QED
    BY <2>1, <2>2, <2>3
<1>17. m' = m /\ parse' # MSG_END
  BY <1>2, <1>3 DEF m, MSG_END
<1>18. PacketOK'
  BY <1>3, <1>6, <1>16, <1>17 DEF PacketOK, m
<1>19. Taken' = Taken + LEN
  BY <1>2, <1>3, <1>5, <1>9, <1>17 DEF Taken
<1>20. HasFrames(buffer, wire, Taken, Len(got), sent)'
  BY <1>1, <1>2, <1>3, <1>4, <1>5, <1>19, SoundAfter
<1> QED
  BY <1>1, <1>2, <1>3, <1>18, <1>20 DEF Delivered, Sound

(* The content is taken. *)
LEMMA ContentSound == ASSUME IInv, DecodeContent PROVE Delivered' /\ Sound'
<1>1. Typed /\ Delivered
  BY DEF IInv
<1>2. /\ packet.len \in Nat /\ packet.len <= readAble(buffer)
      /\ session' = "parsing" /\ Drops(buffer', buffer, packet.len) /\ buffer'.rd <= buffer'.wr
      /\ packet'.data \in Seq(Cell) /\ Len(packet'.data) = packet.len
      /\ \A i \in 1..packet.len : packet'.data[i] = buffer.cells[buffer.rd + i]
      /\ packet'.cmd = packet.cmd /\ packet'.len = packet.len
  BY <1>1, ContentTakes
<1>3. UNCHANGED <<sent, got, wire>> /\ parse = 6 /\ parse' = 7 /\ session = "parsing"
  BY DEF DecodeContent, MSG_CONTENT, MSG_END
<1>4. Sound
  BY <1>3 DEF IInv, Failing, Over, MSG_END
<1>  DEFINE m == sent[Len(got) + 1]
<1>5. Len(got) < Len(sent) /\ packet.cmd = m.cmd /\ packet.len = Len(m.data)
  BY <1>3, <1>4 DEF Sound, PacketOK, MSG_START, MSG_CMD_ID, MSG_CMD_LEN
<1>6. m \in Messages /\ m.data \in Seq(Cell)
  BY <1>1, <1>5, FirstMessage
<1>7. Taken = 10 /\ Taken' = 10 + packet.len
  BY <1>2, <1>3 DEF Taken, MSG_END, LEN
<1>8. packet'.data = m.data
  <2>1. PICK at : Frames(at, buffer, wire, Taken, Len(got), sent)
    BY <1>4 DEF Sound, HasFrames
  <2>2. ASSUME NEW i \in 1..Len(m.data) PROVE packet'.data[i] = m.data[i]
    <3>1. /\ i \in Nat /\ i >= 1 /\ i <= readAble(buffer) /\ Taken + i <= Len(m.data) + 12
          /\ Taken \in Nat
      <4>1. readAble(buffer) \in Int
        BY <1>1, BufferTypes DEF Typed
      <4> QED
        BY <1>2, <1>5, <1>7, <4>1
    <3>2. /\ BufferOK(buffer) /\ wire \in Seq(Cell) /\ sent \in Seq(Messages) /\ Len(got) \in Nat
          /\ buffer.rd <= buffer.wr
      BY <1>1, <1>4 DEF Typed, Sound
    <3>3. buffer.cells[buffer.rd + i] = encodebytes(m)[Taken + i]
      BY <1>5, <2>1, <3>1, <3>2, NextCells
    <3>4. encodebytes(m)[10 + i] = m.data[i]
      BY <1>6, EncodeFacts
    <3> QED
      BY <1>2, <1>5, <1>7, <3>3, <3>4
  <2>  DEFINE d == packet'.data
  <2>3. d \in Seq(Cell) /\ Len(d) = Len(m.data) /\ \A i \in 1..Len(m.data) : d[i] = m.data[i]
    BY <1>2, <1>5, <2>2
  <2>  HIDE DEF m, d
  <2>4. d = m.data
    BY ONLY <1>6, <2>3, SeqEqual
  <2> QED
    BY <2>4 DEF d
<1>  HIDE DEF m
<1>9. m' = m
  BY <1>3 DEF m
<1>10. PacketOK'
  BY <1>2, <1>3, <1>5, <1>8, <1>9 DEF PacketOK, m
<1>11. HasFrames(buffer, wire, Taken, Len(got), sent)'
  BY <1>1, <1>2, <1>3, <1>4, <1>7, SoundAfter
<1> QED
  BY <1>1, <1>2, <1>3, <1>10, <1>11 DEF Delivered, Sound

(* The tail is taken and the message handed over: the next frame follows. *)
LEMMA EndSound == ASSUME IInv, DecodeEnd PROVE Delivered' /\ Sound'
<1>1. Typed /\ Delivered
  BY DEF IInv
<1>2. /\ LEN <= readAble(buffer) /\ session' = "parsing"
      /\ Drops(buffer', buffer, LEN) /\ buffer'.rd <= buffer'.wr /\ LEN = 2 /\ LEN \in Nat
  BY <1>1, EndTakes DEF LEN
<1>3. /\ UNCHANGED <<sent, wire>> /\ parse = 7 /\ parse' = 1 /\ session = "parsing"
      /\ got' = Append(got, [cmd |-> packet.cmd, data |-> packet.data])
  BY DEF DecodeEnd, MSG_START, MSG_END
<1>4. Sound
  <2>1. ~(buffer.wr <= buffer.rd)
    <3>1. readAble(buffer) = buffer.wr - buffer.rd /\ buffer.wr \in Nat /\ buffer.rd \in Nat
      BY <1>1, BufferTypes DEF Typed
    <3> QED
      BY <1>2, <3>1
  <2> QED
    BY <1>3, <2>1 DEF IInv, Failing, Over
<1>  DEFINE m == sent[Len(got) + 1]
<1>5. /\ Len(got) < Len(sent) /\ packet.cmd = m.cmd /\ packet.len = Len(m.data)
      /\ packet.data = m.data
  BY <1>3, <1>4 DEF Sound, PacketOK, MSG_START, MSG_CMD_ID, MSG_CMD_LEN, MSG_END
<1>6. m \in Messages /\ m = [cmd |-> m.cmd, data |-> m.data]
  BY <1>1, <1>5, FirstMessage
<1>7. FrameLen(m) = Len(m.data) + 12 /\ Len(m.data) \in Nat
  BY <1>6, EncodeFacts DEF FrameLen
<1>8. Taken = 10 + Len(m.data) /\ Taken \in Nat /\ Taken' = 0
  BY <1>3, <1>5, <1>7 DEF Taken, MSG_END, LEN
<1>9. /\ got \in Seq([cmd : Nat, data : Seq(Cell)]) /\ Len(got) \in Nat /\ sent \in Seq(Messages)
      /\ BufferOK(buffer) /\ wire \in Seq(Cell) /\ Len(sent) \in Nat
  BY <1>1 DEF Typed
<1>10. /\ Len(got') = Len(got) + 1 /\ got'[Len(got) + 1] = m
       /\ \A i \in 1..Len(got) : got'[i] = got[i]
  <2>1. got' = Append(got, m)
    BY <1>3, <1>5, <1>6
  <2>2. /\ Len(Append(got, m)) = Len(got) + 1 /\ Append(got, m)[Len(got) + 1] = m
        /\ \A i \in 1..Len(got) : Append(got, m)[i] = got[i]
    <3>1. [cmd |-> packet.cmd, data |-> packet.data] \in [cmd : Nat, data : Seq(Cell)]
      BY <1>1 DEF Typed
    <3>2. m \in [cmd : Nat, data : Seq(Cell)]
      BY <1>5, <1>6, <3>1
    <3> QED
      BY <1>9, <3>2, AppendProperties
  <2> QED
    BY <2>1, <2>2
<1>11. Delivered'
  <2>1. Len(got) + 1 <= Len(sent)
    BY <1>5, <1>9
  <2>2. ASSUME NEW j \in 1..(Len(got) + 1) PROVE got'[j] = sent[j]
    <3>1. CASE j = Len(got) + 1
      BY <1>10, <3>1
    <3>2. CASE j # Len(got) + 1
      <4>1. j \in 1..Len(got)
        BY <1>9, <3>2
      <4> QED
        BY <1>1, <1>10, <4>1 DEF Delivered
    <3> QED
      BY <3>1, <3>2
  <2> QED
    BY <1>3, <1>10, <2>1, <2>2 DEF Delivered
<1>  HIDE DEF m
<1>12. PICK at : Frames(at, buffer, wire, Taken, Len(got), sent)
  BY <1>4 DEF Sound, HasFrames
<1>13. PICK at2 : Frames(at2, buffer', wire, Taken + LEN, Len(got), sent)
  <2>1. buffer.rd <= buffer.wr
    BY <1>4 DEF Sound
  <2> QED
    BY <1>1, <1>2, <1>8, <1>12, <2>1, FramesAfter
<1>14. Frames(at2, buffer', wire, 0, Len(got) + 1, sent)
  <2>1. Taken + LEN = FrameLen(sent[Len(got) + 1]) /\ Taken + LEN \in Nat
    BY <1>2, <1>7, <1>8 DEF m
  <2> QED
    BY <1>5, <1>9, <1>13, <2>1, FramesTaken
<1>15. HasFrames(buffer, wire, Taken, Len(got), sent)'
  <2>1. HasFrames(buffer', wire', Taken', Len(got'), sent')
    BY <1>3, <1>8, <1>10, <1>14 DEF HasFrames
  <2> QED
    BY <2>1, HasFramesNext
<1>16. PacketOK'
  BY <1>3 DEF PacketOK, MSG_START, MSG_CMD_ID, MSG_CMD_LEN, MSG_END
<1> QED
  BY <1>2, <1>11, <1>15, <1>16 DEF Sound

(* What is taken for a mark where both of its cells are ready is one. *)
LEMMA MarksAreGood ==
    ASSUME Typed, Delivered, Sound, readAble(buffer) >= LEN, parse \in {MSG_START, MSG_END}
    PROVE  GoodMark
<1>1. Len(got) < Len(sent)
  BY MessageUnderWay
<1>  DEFINE m == sent[Len(got) + 1]
<1>2. m \in Messages /\ Len(m.data) \in Nat
  BY <1>1, FirstMessage DEF Cell
<1>3. /\ encodebytes(m)[1] = 0 /\ encodebytes(m)[2] = PB_START
      /\ encodebytes(m)[Len(m.data) + 11] = 0 /\ encodebytes(m)[Len(m.data) + 12] = PB_END
  BY <1>2, EncodeFacts
<1>4. Taken + LEN <= Len(m.data) + 12 =>
         Word = 256 * encodebytes(m)[Taken + 1] + encodebytes(m)[Taken + 2]
  BY SoundWord
<1>  HIDE DEF m
<1>5. CASE parse = MSG_START
  <2>1. Taken = 0
    BY <1>5, TakenFacts DEF MSG_START, MSG_END
  <2>2. Taken + LEN <= Len(m.data) + 12 /\ Taken + 1 = 1 /\ Taken + 2 = 2
    BY <1>2, <2>1 DEF LEN
  <2>3. Word = 256 * 0 + PB_START
    BY <1>3, <1>4, <2>2
  <2> QED
    BY <1>5, <2>3 DEF GoodMark, PB_START
<1>6. CASE parse = MSG_END
  <2>1. Taken = 10 + Len(m.data)
    BY <1>6, TakenFacts DEF Sound, PacketOK, MSG_CMD_LEN, MSG_END, m
  <2>2. /\ Taken + LEN <= Len(m.data) + 12
        /\ Taken + 1 = Len(m.data) + 11 /\ Taken + 2 = Len(m.data) + 12
    BY <1>2, <2>1 DEF LEN
  <2>3. Word = 256 * 0 + PB_END
    BY <1>3, <1>4, <2>2
  <2> QED
    BY <1>6, <2>3 DEF GoodMark, PB_START, PB_END
<1> QED
  BY <1>5, <1>6

(* A mark that is none: only a tail that has not come as a whole. *)
LEMMA FailsSplit ==
    ASSUME IInv, DecodeFails
    PROVE  /\ readAble(buffer) < LEN /\ parse = MSG_END
           /\ \/ session' \in {"stopped", "crashed"}
              \/ session' = "parsing" /\ buffer'.wr <= buffer'.rd
<1>1. Typed /\ Delivered /\ session = "parsing"
  BY DEF IInv, DecodeFails
<1>2. readAble(buffer) = buffer.wr - buffer.rd /\ buffer.wr \in Nat /\ buffer.rd \in Nat
  BY <1>1, BufferTypes DEF Typed
<1>3. ~(readAble(buffer) >= LEN)
  <2>1. SUFFICES ASSUME readAble(buffer) >= LEN PROVE FALSE
    OBVIOUS
  <2>2. Sound
    <3>1. ~(buffer.wr <= buffer.rd)
      BY <1>2, <2>1 DEF LEN
    <3> QED
      BY <1>1, <3>1 DEF IInv, Failing, Over
  <2>3. GoodMark
    BY <1>1, <2>1, <2>2, MarksAreGood DEF DecodeFails
  <2> QED
    BY <2>3 DEF DecodeFails
<1> QED
  BY <1>1, <1>3, FailsTakes

(* A mark that is none. *)
LEMMA FailsSound ==
    ASSUME IInv, DecodeFails
    PROVE  Delivered' /\ (Failing \/ Over)'
<1>1. parse' = parse /\ UNCHANGED <<sent, got>>
  BY DEF DecodeFails
<1>2. Delivered'
  BY <1>1 DEF IInv, Delivered
<1> QED
  BY <1>1, <1>2, FailsSplit DEF Failing, Over

(* The loop ends and the next read is started. *)
LEMMA WaitsSound == ASSUME IInv, DecodeWaits PROVE Delivered' /\ Sound'
<1>1. /\ Typed /\ Delivered /\ UNCHANGED <<sent, got, wire, parse, packet>>
      /\ session' = "reading"
  BY DEF IInv, DecodeWaits
<1>2. /\ Drops(buffer', buffer, 0) /\ buffer'.rd <= buffer'.wr
      /\ session = "parsing" /\ parse # MSG_END
  BY <1>1, WaitsTakes
<1>3. Sound
  BY <1>2 DEF IInv, Failing, Over
<1>4. 0 \in Nat /\ 0 <= readAble(buffer)
  BY <1>1, <1>3, BufferTypes DEF Typed, Sound
<1>5. Taken' = Taken /\ Taken = Taken + 0
  <2>1. Taken' = Taken
    BY <1>1 DEF Taken
  <2> QED
    BY <1>1, <2>1, TakenNat
<1>6. HasFrames(buffer, wire, Taken, Len(got), sent)'
  BY <1>1, <1>2, <1>3, <1>4, <1>5, SoundAfter
<1>7. PacketOK' /\ Delivered'
  BY <1>1, <1>3 DEF Sound, PacketOK, Delivered
<1> QED
  BY <1>1, <1>2, <1>6, <1>7 DEF Sound

(* Every step keeps the invariant. *)
LEMMA NextSound == IInv /\ [Next]_vars => IInv'
<1>  SUFFICES ASSUME IInv, [Next]_vars PROVE IInv'
  OBVIOUS
<1>1. Typed'
  BY NextTyped DEF IInv
<1>2. ASSUME NEW m \in Messages, SendMsg(m) PROVE IInv'
  BY <1>1, <1>2, SendSound DEF IInv
<1>3. ASSUME NEW n \in 1..MaxRead, Recv(n) PROVE IInv'
  BY <1>1, <1>3, RecvSound DEF IInv
<1>4. CASE RecvFails
  BY <1>1, <1>4 DEF RecvFails, IInv, Delivered, Over
<1>5. CASE DecodeHeader
  BY <1>1, <1>5, HeaderSound DEF IInv
<1>6. CASE DecodeContent
  BY <1>1, <1>6, ContentSound DEF IInv
<1>7. CASE DecodeEnd
  BY <1>1, <1>7, EndSound DEF IInv
<1>8. CASE DecodeFails
  BY <1>1, <1>8, FailsSound DEF IInv
<1>9. CASE DecodeWaits
  BY <1>1, <1>9, WaitsSound DEF IInv
<1>10. CASE UNCHANGED vars
  <2>1. UNCHANGED <<sent, got, wire, buffer, parse, packet, session>>
    BY <1>10 DEF vars
  <2>2. HasFrames(buffer, wire, Taken, Len(got), sent) =>
           HasFrames(buffer, wire, Taken, Len(got), sent)'
    <3>1. Taken' = Taken
      BY <2>1 DEF Taken
    <3>2. HasFrames(buffer, wire, Taken, Len(got), sent) =>
             HasFrames(buffer', wire', Taken', Len(got'), sent')
      BY <2>1, <3>1
    <3> QED
      BY <3>2, HasFramesNext
  <2>3. (Sound => Sound') /\ (Failing => Failing') /\ (Over => Over') /\ (Delivered => Delivered')
    BY <2>1, <2>2 DEF Sound, PacketOK, Failing, Over, Delivered
  <2> QED
    BY <1>1, <2>3 DEF IInv
<1> QED
  BY <1>2, <1>3, <1>4, <1>5, <1>6, <1>7, <1>8, <1>9, <1>10 DEF Next, Parse

(* The invariant holds in every state. *)
LEMMA IInvAlways == Spec => []IInv
BY InitSound, NextSound, PTL DEF Spec

(***************************************************************************)
(* However the frames are cut and the buffer is moved or grown, the        *)
(* handlers see the messages that were sent, whole, in order and once.     *)
(***************************************************************************)
THEOREM MessagesInOrder == Spec => []MessagesArriveInOrder
<1>1. IInv => MessagesArriveInOrder
  BY DeliveredIsOrdered DEF IInv
<1> QED
  BY <1>1, IInvAlways, PTL

(* Only a tail of which a part has not come ends a session. *)
LEMMA StopsAtTails ==
    IInv /\ [Next]_vars =>
        [session = "parsing" /\ session' \in {"stopped", "crashed"} =>
            parse = MSG_END /\ readAble(buffer) < LEN]_vars
<1>  SUFFICES ASSUME IInv, Next, session = "parsing", session' \in {"stopped", "crashed"}
              PROVE  parse = MSG_END /\ readAble(buffer) < LEN
  OBVIOUS
<1>1. ASSUME NEW m \in Messages, SendMsg(m) PROVE FALSE
  BY <1>1 DEF SendMsg
<1>2. ASSUME NEW n \in 1..MaxRead, Recv(n) PROVE FALSE
  BY <1>2 DEF Recv
<1>3. CASE RecvFails
  BY <1>3 DEF RecvFails
<1>4. CASE DecodeHeader
  BY <1>4, HeaderTakes DEF IInv
<1>5. CASE DecodeContent
  BY <1>5, ContentTakes DEF IInv
<1>6. CASE DecodeEnd
  BY <1>6, EndTakes DEF IInv
<1>7. CASE DecodeFails
  BY <1>7, FailsSplit
<1>8. CASE DecodeWaits
  BY <1>8 DEF DecodeWaits
<1> QED
  BY <1>1, <1>2, <1>3, <1>4, <1>5, <1>6, <1>7, <1>8 DEF Next, Parse

(***************************************************************************)
(* The parser gives a well-formed stream up, or takes the process down,    *)
(* only where a read has ended before or inside the tail of a frame.       *)
(***************************************************************************)
THEOREM OnlySplitTails == Spec => OnlySplitTailsStop
BY IInvAlways, StopsAtTails, PTL DEF Spec, OnlySplitTailsStop
=============================================================================
