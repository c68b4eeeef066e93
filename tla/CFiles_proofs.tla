----------------------------- MODULE CFiles_proofs -----------------------------
(***************************************************************************)
(* The theorems of CFiles, for any number of threads and streams, any      *)
(* files and any arguments.                                                *)
(***************************************************************************)
EXTENDS CFiles, TLAPS

-----------------------------------------------------------------------------
(* The FILE*s.                                                             *)

\* What makes StreamsKept inductive: every FILE* that has been taken or handed
\* out lies below the counter, and only those that were handed out are in the
\* table or closed.
BelowCounter ==
    /\ \A ptr \in DOMAIN handed : ptr < NEXT_FILE_PTR
    /\ \A t \in DOMAIN opening : opening[t].ptr < NEXT_FILE_PTR
    /\ DOMAIN OPEN_CFILES \subseteq DOMAIN handed
    /\ closed \subseteq DOMAIN handed
    /\ DOMAIN handed \subseteq Ptrs

IInv == TypeOK /\ StreamsKept /\ BelowCounter

\* A call that leaves the table, the counter and the history alone keeps IInv.
LEMMA FailedCall ==
    ASSUME IInv,
           UNCHANGED <<NEXT_FILE_PTR, OPEN_CFILES, opening, handed, closed, reported>>,
           panicked' \in BOOLEAN
    PROVE  IInv'
BY DEF IInv, TypeOK, StreamsKept, BelowCounter

\* fopen takes a FILE* that nobody has.
LEMMA TakeKeepsIInv ==
    ASSUME IInv, NEW t \in Threads, NEW path \in Paths, FopenTake(t, path)
    PROVE  IInv'
<1>1. /\ opening' = [u \in DOMAIN opening \cup {t} |->
                        IF u = t THEN [ptr |-> NEXT_FILE_PTR, file |-> path.file] ELSE opening[u]]
      /\ NEXT_FILE_PTR' = NEXT_FILE_PTR + 1
      /\ NEXT_FILE_PTR \in 1 .. OpenLimit
      /\ path.file \in DOMAIN Length
      /\ UNCHANGED <<OPEN_CFILES, panicked, handed, closed, reported>>
  BY CFilesAssumption DEF FopenTake, With, FreshPtr, resolve_ps4_path, IInv, TypeOK
<1>2. TypeOK'
  BY <1>1, CFilesAssumption DEF IInv, TypeOK
<1>3. StreamsKept'
  BY <1>1, CFilesAssumption DEF IInv, TypeOK, StreamsKept, BelowCounter, Ptrs
<1>4. BelowCounter'
  BY <1>1, CFilesAssumption DEF IInv, TypeOK, BelowCounter, Ptrs
<1> QED
  BY <1>2, <1>3, <1>4 DEF IInv

\* fopen inserts the stream under the FILE* it took.
LEMMA InsertKeepsIInv ==
    ASSUME IInv, NEW t \in Threads, FopenInsert(t)
    PROVE  IInv'
<1>1. PICK ptr \in 1 .. OpenLimit, file \in DOMAIN Length :
          /\ t \in DOMAIN opening /\ opening[t] = [ptr |-> ptr, file |-> file]
          /\ OPEN_CFILES' = [q \in DOMAIN OPEN_CFILES \cup {ptr} |->
                IF q = ptr THEN [file |-> file, pos |-> 0] ELSE OPEN_CFILES[q]]
          /\ handed' = [q \in DOMAIN handed \cup {ptr} |-> IF q = ptr THEN file ELSE handed[q]]
          /\ reported' = [q \in DOMAIN reported \cup {ptr} |-> IF q = ptr THEN 0 ELSE reported[q]]
          /\ opening' = [u \in DOMAIN opening \ {t} |-> opening[u]]
          /\ UNCHANGED <<NEXT_FILE_PTR, panicked, closed>>
  BY DEF FopenInsert, With, Without, IInv, TypeOK
<1>2. TypeOK'
  BY <1>1, CFilesAssumption DEF IInv, TypeOK
<1>3. StreamsKept'
  BY <1>1 DEF IInv, TypeOK, StreamsKept, BelowCounter
<1>4. BelowCounter'
  BY <1>1, CFilesAssumption DEF IInv, TypeOK, BelowCounter, Ptrs
<1> QED
  BY <1>2, <1>3, <1>4 DEF IInv

\* A step that only moves one open stream, as reads and seeks do, keeps IInv.
LEMMA MoveKeepsIInv ==
    ASSUME IInv, NEW ptr \in DOMAIN OPEN_CFILES, NEW pos \in 0 .. MaxPos, NEW told,
           OPEN_CFILES' = [OPEN_CFILES EXCEPT ![ptr].pos = pos],
           reported' = [reported EXCEPT ![ptr] = told],
           UNCHANGED <<NEXT_FILE_PTR, opening, panicked, handed, closed>>
    PROVE  IInv'
<1>1. /\ DOMAIN OPEN_CFILES' = DOMAIN OPEN_CFILES
      /\ \A q \in DOMAIN OPEN_CFILES :
            /\ OPEN_CFILES'[q] \in [file : DOMAIN Length, pos : 0 .. MaxPos]
            /\ OPEN_CFILES'[q].file = OPEN_CFILES[q].file
  BY DEF IInv, TypeOK
<1>2. DOMAIN reported' = DOMAIN reported
  OBVIOUS
<1> QED
  BY <1>1, <1>2 DEF IInv, TypeOK, StreamsKept, BelowCounter

\* fclose takes the stream out of the table for good.
LEMMA CloseKeepsIInv ==
    ASSUME IInv, NEW t \in Threads, NEW ptr \in Ptrs, Fclose(t, ptr)
    PROVE  IInv'
<1>1. /\ ptr \in DOMAIN OPEN_CFILES
      /\ OPEN_CFILES' = [q \in DOMAIN OPEN_CFILES \ {ptr} |-> OPEN_CFILES[q]]
      /\ closed' = closed \cup {ptr}
      /\ UNCHANGED <<NEXT_FILE_PTR, opening, panicked, handed, reported>>
  BY DEF Fclose, Without
<1> QED
  BY <1>1 DEF IInv, TypeOK, StreamsKept, BelowCounter

\* What a read returns and moves the position by stays within the file.
LEMMA ReadInside ==
    ASSUME IInv, NEW ptr \in DOMAIN OPEN_CFILES, NEW total \in Nat
    PROVE  /\ BytesRead(ptr, total) \in 0 .. total
           /\ OPEN_CFILES[ptr].pos + BytesRead(ptr, total) \in 0 .. MaxPos
           /\ \/ BytesRead(ptr, total) = 0
              \/ OPEN_CFILES[ptr].pos + BytesRead(ptr, total) <= Length[OPEN_CFILES[ptr].file]
<1>1. /\ OPEN_CFILES[ptr].pos \in 0 .. MaxPos
      /\ OPEN_CFILES[ptr].file \in DOMAIN Length
      /\ Length[OPEN_CFILES[ptr].file] \in 0 .. MaxPos
      /\ ReadCap \in Nat /\ MaxPos \in Nat
  BY CFilesAssumption DEF IInv, TypeOK
<1> QED
  BY <1>1 DEF BytesRead, Smaller

\* The bytes a read asks for.
LEMMA TotalNat ==
    ASSUME NEW size \in ItemSizes, NEW count \in Counts
    PROVE  /\ size \in Nat /\ count \in Nat /\ size * count \in Nat
           /\ Total(size, count) \in Nat
           /\ Total(size, count) # 0 => size # 0
           /\ size * count < Word => Total(size, count) = size * count
<1>1. /\ size \in Nat /\ count \in Nat /\ Word \in Nat \ {0}
  BY CFilesAssumption
<1>2. size * count \in Nat
  BY <1>1
<1>3. \A n \in Nat : n % Word \in Nat /\ (n < Word => n % Word = n)
  BY <1>1
<1>4. size = 0 => size * count = 0
  BY <1>1
<1> QED
  BY <1>1, <1>2, <1>3, <1>4 DEF Total

\* A read and a seek move one stream to a position the host takes.
LEMMA ReadMoves ==
    ASSUME IInv, NEW t \in Threads, NEW ptr \in Ptrs, NEW size \in ItemSizes,
           NEW count \in Counts, Fread(t, ptr, size, count)
    PROVE  IInv'
<1> DEFINE n == BytesRead(ptr, Total(size, count))
<1>1. ptr \in DOMAIN OPEN_CFILES
  BY DEF Fread
<1>2. OPEN_CFILES[ptr].pos + n \in 0 .. MaxPos
  BY <1>1, TotalNat, ReadInside
<1>3. /\ OPEN_CFILES' = [OPEN_CFILES EXCEPT ![ptr].pos = OPEN_CFILES[ptr].pos + n]
      /\ \E told : reported' = [reported EXCEPT ![ptr] = told]
      /\ UNCHANGED <<NEXT_FILE_PTR, opening, panicked, handed, closed>>
  BY <1>1 DEF Fread, Advance
<1> HIDE DEF n
<1> QED
  BY <1>1, <1>2, <1>3, MoveKeepsIInv

LEMMA SeekMoves ==
    ASSUME IInv, NEW t \in Threads, NEW ptr \in Ptrs, NEW offset \in Offsets,
           NEW whence \in 0 .. 3, Fseek(t, ptr, offset, whence)
    PROVE  IInv'
<1> DEFINE pos == SeekBase(ptr, whence) + offset
<1>1. /\ ptr \in DOMAIN OPEN_CFILES
      /\ pos \in 0 .. MaxPos
      /\ OPEN_CFILES' = [OPEN_CFILES EXCEPT ![ptr].pos = pos]
      /\ reported' = [reported EXCEPT ![ptr] = pos]
      /\ UNCHANGED <<NEXT_FILE_PTR, opening, panicked, handed, closed>>
  BY DEF Fseek, Seeks, Seekable
<1> HIDE DEF pos
<1> QED
  BY <1>1, MoveKeepsIInv

\* Every step keeps IInv.
LEMMA StepKeepsIInv == IInv /\ [Next]_vars => IInv'
<1> SUFFICES ASSUME IInv, [Next]_vars PROVE IInv'
  OBVIOUS
<1>1. CASE UNCHANGED vars
  BY <1>1, FailedCall DEF vars, IInv, TypeOK
<1>2. ASSUME NEW t \in Threads, NEW path \in Paths, FopenTake(t, path) PROVE IInv'
  BY <1>2, TakeKeepsIInv
<1>3. ASSUME NEW t \in Threads, FopenInsert(t) PROVE IInv'
  BY <1>3, InsertKeepsIInv
<1>4. ASSUME NEW t \in Threads, FopenFails(t) PROVE IInv'
  BY <1>4, FailedCall DEF FopenFails, IInv, TypeOK
<1>5. ASSUME NEW t \in Threads, NEW size \in ItemSizes, NEW count \in Counts,
             FreadPanics(t, size, count)
      PROVE  IInv'
  BY <1>5, FailedCall DEF FreadPanics
<1>6. ASSUME NEW t \in Threads, NEW size \in ItemSizes, NEW count \in Counts, NEW ptr \in Ptrs,
             Fread(t, ptr, size, count)
      PROVE  IInv'
  BY <1>6, ReadMoves
<1>7. ASSUME NEW t \in Threads, NEW size \in ItemSizes, NEW count \in Counts, NEW ptr \in Ptrs,
             FreadNothing(t, ptr, size, count)
      PROVE  IInv'
  BY <1>7, FailedCall DEF FreadNothing, IInv, TypeOK
<1>8. ASSUME NEW t \in Threads, NEW ptr \in Ptrs, NEW offset \in Offsets, NEW whence \in 0 .. 3,
             Fseek(t, ptr, offset, whence)
      PROVE  IInv'
  BY <1>8, SeekMoves
<1>9. ASSUME NEW t \in Threads, NEW ptr \in Ptrs, NEW offset \in Offsets, NEW whence \in 0 .. 3,
             FseekFails(t, ptr, offset, whence)
      PROVE  IInv'
  BY <1>9, FailedCall DEF FseekFails, IInv, TypeOK
<1>10. ASSUME NEW t \in Threads, NEW ptr \in Ptrs, Ftell(t, ptr) \/ FcloseFails(t, ptr)
       PROVE  IInv'
  BY <1>10, FailedCall DEF Ftell, FcloseFails, IInv, TypeOK
<1>11. ASSUME NEW t \in Threads, NEW ptr \in Ptrs, Fclose(t, ptr) PROVE IInv'
  BY <1>11, CloseKeepsIInv
<1> QED
  BY <1>1, <1>2, <1>3, <1>4, <1>5, <1>6, <1>7, <1>8, <1>9, <1>10, <1>11 DEF Next

LEMMA InitIInv == Init => IInv
<1> SUFFICES ASSUME Init PROVE IInv
  OBVIOUS
<1>1. /\ DOMAIN OPEN_CFILES = {} /\ DOMAIN opening = {}
      /\ DOMAIN handed = {} /\ DOMAIN reported = {} /\ closed = {}
  BY DEF Init
<1>2. NEXT_FILE_PTR = 1 /\ panicked \in BOOLEAN
  BY DEF Init
<1>3. 1 \in 1 .. OpenLimit + 1
  BY CFilesAssumption
<1> QED
  BY <1>1, <1>2, <1>3 DEF IInv, TypeOK, StreamsKept, BelowCounter

\* The table, the calls under way and the positions keep their types.
THEOREM TypeCorrect == Spec => []TypeOK
<1>1. IInv => TypeOK
  BY DEF IInv
<1> QED
  BY <1>1, InitIInv, StepKeepsIInv, PTL DEF Spec

\* A FILE* stands for the file it was returned for until fclose, and for nothing
\* afterwards, although fopen takes it from the counter before it has the lock.
THEOREM StreamIdentity == Spec => []StreamsKept
<1>1. IInv => StreamsKept
  BY DEF IInv
<1> QED
  BY <1>1, InitIInv, StepKeepsIInv, PTL DEF Spec

-----------------------------------------------------------------------------
(* The bytes.                                                              *)

\* Arithmetic of whole items.
LEMMA WholeItems ==
    ASSUME NEW n \in Nat, NEW size \in Nat \ {0}, NEW count \in Nat
    PROVE  /\ n \div size \in Nat
           /\ (n \div size) * size \in 0 .. n
           /\ n = size * count => (n \div size) * size = n /\ n \div size = count
<1>1. n \div size \in Nat /\ n % size \in 0 .. size - 1 /\ n = size * (n \div size) + (n % size)
  OBVIOUS
<1>2. (n \div size) * size \in 0 .. n
  BY <1>1
<1>3. ASSUME n = size * count PROVE n \div size = count
  <2> DEFINE q == n \div size
             r == n % size
  <2>1. q \in Nat /\ r \in 0 .. size - 1 /\ size * count = size * q + r
    BY <1>1, <1>3
  <2> HIDE DEF q, r
  <2>2. size * (count - q) = r
    BY <2>1
  <2>3. ~(count - q >= 1)
    BY <2>1, <2>2
  <2>4. ~(count - q <= -1)
    BY <2>1, <2>2
  <2>5. q = count
    BY <2>1, <2>3, <2>4
  <2> QED
    BY <2>5 DEF q
<1> QED
  BY <1>1, <1>2, <1>3

\* One read of the host can return all of a file, and multiplications are checked.
ReadsWhole == OverflowChecks /\ \A file \in DOMAIN Length : Length[file] <= ReadCap

BytesInv ==
    /\ IInv
    /\ \A ptr \in DOMAIN reported : reported[ptr] \in Nat
    /\ AllReported
    /\ ShortMeansEnd

\* A read either gets all it asks for, in whole items, or meets the end.
LEMMA ReadAllOrEnd ==
    ASSUME ReadsWhole, BytesInv, NEW ptr \in DOMAIN OPEN_CFILES, NEW size \in ItemSizes,
           NEW count \in Counts, ~(OverflowChecks /\ size * count >= Word), Total(size, count) # 0,
           NEW n, n = BytesRead(ptr, Total(size, count)),
           NEW items, items = n \div size
    PROVE  /\ n \in Nat /\ items \in Nat /\ items * size \in 0 .. n
           /\ \/ items * size = n /\ items = count
              \/ OPEN_CFILES[ptr].pos + n = Length[OPEN_CFILES[ptr].file]
              \/ n = 0 /\ items = 0 /\ OPEN_CFILES[ptr].pos > Length[OPEN_CFILES[ptr].file]
<1>1. /\ size \in Nat \ {0} /\ count \in Nat /\ size * count \in Nat
      /\ Total(size, count) = size * count
  BY TotalNat, CFilesAssumption DEF ReadsWhole
<1>2. n \in Nat
  BY <1>1, ReadInside DEF BytesInv
<1>3. items \in Nat /\ items * size \in 0 .. n
      /\ (n = size * count => items * size = n /\ items = count)
  <2>1. n \in Nat /\ size \in Nat \ {0} /\ count \in Nat
    BY <1>1, <1>2, Zenon
  <2>2. /\ n \div size \in Nat
        /\ (n \div size) * size \in 0 .. n
        /\ n = size * count => (n \div size) * size = n /\ n \div size = count
    BY ONLY <2>1, WholeItems
  <2> QED
    BY <2>2, Zenon
<1>4. /\ OPEN_CFILES[ptr].pos \in Nat
      /\ Length[OPEN_CFILES[ptr].file] \in Nat
      /\ ReadCap \in Nat
      /\ Length[OPEN_CFILES[ptr].file] <= ReadCap
  BY CFilesAssumption DEF BytesInv, IInv, TypeOK, ReadsWhole
<1>5. \/ n = size * count
      \/ OPEN_CFILES[ptr].pos + n = Length[OPEN_CFILES[ptr].file]
      \/ n = 0 /\ OPEN_CFILES[ptr].pos > Length[OPEN_CFILES[ptr].file]
  <2> DEFINE pos == OPEN_CFILES[ptr].pos
             len == Length[OPEN_CFILES[ptr].file]
             total == size * count
  <2>1. n = IF len - pos <= 0 THEN 0
            ELSE Smaller(Smaller(total, len - pos), ReadCap)
    BY <1>1 DEF BytesRead
  <2>2. total \in Nat /\ pos \in Nat /\ len \in Nat /\ ReadCap \in Nat /\ len <= ReadCap
    BY <1>1, <1>4
  <2> HIDE DEF pos, len, total
  <2>3. n = total \/ pos + n = len \/ (n = 0 /\ pos > len)
    BY <2>1, <2>2 DEF Smaller
  <2> QED
    BY <2>3 DEF pos, len, total
<1>6. n = 0 => items = 0
  BY <1>1, <1>2
<1> QED
  BY <1>2, <1>3, <1>5, <1>6

\* A step that moves one stream keeps BytesInv if it keeps it for that stream.
LEMMA MoveKeepsBytes ==
    ASSUME BytesInv, IInv', NEW ptr \in DOMAIN OPEN_CFILES, NEW pos \in Nat, NEW told \in Nat,
           OPEN_CFILES' = [OPEN_CFILES EXCEPT ![ptr].pos = pos],
           reported' = [reported EXCEPT ![ptr] = told],
           told <= pos,
           told < pos => pos = Length[OPEN_CFILES[ptr].file],
           ShortMeansEnd'
    PROVE  BytesInv'
<1>1. ptr \in DOMAIN reported
  BY DEF BytesInv, IInv, TypeOK, BelowCounter
<1>2. \A q \in DOMAIN reported' : reported'[q] \in Nat
  BY <1>1 DEF BytesInv
<1>3. AllReported'
  <2> SUFFICES ASSUME NEW q \in DOMAIN OPEN_CFILES
               PROVE  /\ reported'[q] <= OPEN_CFILES'[q].pos
                      /\ reported'[q] < OPEN_CFILES'[q].pos =>
                            OPEN_CFILES'[q].pos = Length[OPEN_CFILES'[q].file]
    BY DEF AllReported
  <2>1. q \in DOMAIN reported /\ OPEN_CFILES[q] \in [file : DOMAIN Length, pos : 0 .. MaxPos]
    BY DEF BytesInv, IInv, TypeOK, BelowCounter
  <2>2. CASE q = ptr
    BY <1>1, <2>1, <2>2
  <2>3. CASE q # ptr
    BY <2>1, <2>3 DEF BytesInv, AllReported
  <2> QED
    BY <2>2, <2>3
<1> QED
  BY <1>2, <1>3 DEF BytesInv

LEMMA ReadKeepsBytes ==
    ASSUME ReadsWhole, BytesInv, NEW t \in Threads, NEW ptr \in Ptrs, NEW size \in ItemSizes,
           NEW count \in Counts, Fread(t, ptr, size, count)
    PROVE  BytesInv'
<1> DEFINE n == BytesRead(ptr, Total(size, count))
           items == n \div size
           file == OPEN_CFILES[ptr].file
           pos == OPEN_CFILES[ptr].pos + n
           told == reported[ptr] + items * size
<1>1. /\ ptr \in DOMAIN OPEN_CFILES
      /\ OPEN_CFILES' = [OPEN_CFILES EXCEPT ![ptr].pos = pos]
      /\ reported' = [reported EXCEPT ![ptr] = told]
      /\ last' = [call |-> "fread", ptr |-> ptr, asked |-> count, ret |-> items]
      /\ ~(OverflowChecks /\ size * count >= Word) /\ Total(size, count) # 0
  BY DEF Fread, Advance, Items, Returns
<1>2. IInv'
  BY ReadMoves DEF BytesInv
<1>3. /\ n \in Nat /\ items \in Nat /\ items * size \in 0 .. n
      /\ \/ items * size = n /\ items = count
         \/ pos = Length[file]
         \/ n = 0 /\ items = 0 /\ pos > Length[file]
  <2>1. n \in Nat /\ OPEN_CFILES[ptr].pos \in Nat
    BY <1>1, TotalNat, ReadInside, CFilesAssumption DEF BytesInv, IInv, TypeOK
  <2> QED
    BY <1>1, <2>1, ReadAllOrEnd
<1>4. /\ OPEN_CFILES[ptr].pos \in Nat /\ file \in DOMAIN Length /\ Length[file] \in Nat
      /\ reported[ptr] \in Nat /\ reported[ptr] <= OPEN_CFILES[ptr].pos
      /\ reported[ptr] < OPEN_CFILES[ptr].pos => OPEN_CFILES[ptr].pos = Length[file]
      /\ count \in Nat
  BY <1>1, CFilesAssumption, TotalNat DEF BytesInv, IInv, TypeOK, BelowCounter, AllReported
<1>5. n > 0 => pos <= Length[file]
  BY <1>1, <1>3, ReadInside, TotalNat DEF BytesInv
<1>6. OPEN_CFILES'[ptr].pos = pos /\ OPEN_CFILES'[ptr].file = file
  BY <1>1 DEF BytesInv, IInv, TypeOK
<1> HIDE DEF n, items, file
<1>7. items * size \in Nat
  BY <1>3
<1>8. pos \in Nat /\ told \in Nat /\ told <= pos /\ (told < pos => pos = Length[file])
  <2> DEFINE m == items * size
  <2>1. m \in 0 .. n /\ (m = n \/ pos = Length[file] \/ n = 0)
    BY <1>3
  <2> HIDE DEF m
  <2> QED
    BY <1>3, <1>4, <1>5, <2>1 DEF m
<1>9. ShortMeansEnd'
  <2>1. last'.ret = items /\ last'.asked = count /\ last'.ptr = ptr
    BY <1>1
  <2> QED
    BY <1>3, <1>4, <1>6, <1>8, <2>1 DEF ShortMeansEnd
<1> HIDE DEF pos, told
<1> QED
  BY <1>1, <1>2, <1>8, <1>9, MoveKeepsBytes DEF file

LEMMA SeekKeepsBytes ==
    ASSUME BytesInv, NEW t \in Threads, NEW ptr \in Ptrs, NEW offset \in Offsets,
           NEW whence \in 0 .. 3, Fseek(t, ptr, offset, whence)
    PROVE  BytesInv'
<1> DEFINE pos == SeekBase(ptr, whence) + offset
<1>1. /\ ptr \in DOMAIN OPEN_CFILES
      /\ pos \in 0 .. MaxPos
      /\ OPEN_CFILES' = [OPEN_CFILES EXCEPT ![ptr].pos = pos]
      /\ reported' = [reported EXCEPT ![ptr] = pos]
      /\ last'.call = "fseek"
  BY DEF Fseek, Seeks, Seekable, Returns
<1>2. IInv'
  BY SeekMoves DEF BytesInv
<1>3. ShortMeansEnd'
  BY <1>1 DEF ShortMeansEnd
<1> HIDE DEF pos
<1>4. pos \in Nat
  BY <1>1, CFilesAssumption
<1>5. pos <= pos /\ ~(pos < pos)
  BY <1>4
<1> QED
  BY <1>1, <1>2, <1>3, <1>4, <1>5, MoveKeepsBytes

\* Steps that add no stream and move none keep BytesInv.
LEMMA OtherKeepsBytes ==
    ASSUME BytesInv, IInv',
           DOMAIN OPEN_CFILES' \subseteq DOMAIN OPEN_CFILES,
           \A q \in DOMAIN OPEN_CFILES' : OPEN_CFILES'[q] = OPEN_CFILES[q],
           reported' = reported,
           ShortMeansEnd'
    PROVE  BytesInv'
BY DEF BytesInv, AllReported

LEMMA StepKeepsBytes == ReadsWhole /\ BytesInv /\ [Next]_vars => BytesInv'
<1> SUFFICES ASSUME ReadsWhole, BytesInv, [Next]_vars PROVE BytesInv'
  OBVIOUS
<1>0. IInv /\ IInv'
  BY StepKeepsIInv DEF BytesInv
<1>1. CASE UNCHANGED <<OPEN_CFILES, reported, last>>
  BY <1>0, <1>1, OtherKeepsBytes DEF BytesInv, ShortMeansEnd
<1>2. ASSUME NEW t \in Threads, FopenInsert(t) PROVE BytesInv'
  <2>1. PICK ptr, file :
            /\ file \in DOMAIN Length
            /\ OPEN_CFILES' = [q \in DOMAIN OPEN_CFILES \cup {ptr} |->
                    IF q = ptr THEN [file |-> file, pos |-> 0] ELSE OPEN_CFILES[q]]
            /\ reported' = [q \in DOMAIN reported \cup {ptr} |-> IF q = ptr THEN 0 ELSE reported[q]]
            /\ last'.call = "fopen"
    BY <1>0, <1>2 DEF FopenInsert, With, Returns, IInv, TypeOK
  <2>2. DOMAIN OPEN_CFILES \subseteq DOMAIN reported
    BY <1>0 DEF IInv, TypeOK, BelowCounter
  <2>3. AllReported'
    BY <2>1, <2>2 DEF BytesInv, AllReported
  <2>4. \A q \in DOMAIN reported' : reported'[q] \in Nat
    BY <2>1 DEF BytesInv
  <2> QED
    BY <1>0, <2>1, <2>3, <2>4 DEF BytesInv, ShortMeansEnd
<1>3. ASSUME NEW t \in Threads, NEW size \in ItemSizes, NEW count \in Counts, NEW ptr \in Ptrs,
             Fread(t, ptr, size, count)
      PROVE  BytesInv'
  BY <1>3, ReadKeepsBytes
<1>4. ASSUME NEW t \in Threads, NEW ptr \in Ptrs, NEW offset \in Offsets, NEW whence \in 0 .. 3,
             Fseek(t, ptr, offset, whence)
      PROVE  BytesInv'
  BY <1>4, SeekKeepsBytes
<1>5. ASSUME NEW t \in Threads, NEW ptr \in Ptrs, Fclose(t, ptr) PROVE BytesInv'
  <2>1. /\ OPEN_CFILES' = [q \in DOMAIN OPEN_CFILES \ {ptr} |-> OPEN_CFILES[q]]
        /\ reported' = reported /\ last'.call = "fclose"
    BY <1>5 DEF Fclose, Without, Returns
  <2>2. ShortMeansEnd'
    BY <2>1 DEF ShortMeansEnd
  <2> QED
    BY <1>0, <2>1, <2>2, OtherKeepsBytes
<1>6. ASSUME UNCHANGED <<OPEN_CFILES, reported>>, last'.call # "fread" PROVE BytesInv'
  BY <1>0, <1>6, OtherKeepsBytes DEF ShortMeansEnd
<1>7. ASSUME NEW t \in Threads, FopenFails(t) PROVE BytesInv'
  BY <1>6, <1>7 DEF FopenFails, Returns
<1>8. ASSUME NEW t \in Threads, NEW size \in ItemSizes, NEW count \in Counts, NEW ptr \in Ptrs,
             FreadNothing(t, ptr, size, count)
      PROVE  BytesInv'
  BY <1>6, <1>8 DEF FreadNothing, Returns
<1>9. ASSUME NEW t \in Threads, NEW ptr \in Ptrs, NEW offset \in Offsets, NEW whence \in 0 .. 3,
             FseekFails(t, ptr, offset, whence)
      PROVE  BytesInv'
  BY <1>6, <1>9 DEF FseekFails, Returns
<1>10. ASSUME NEW t \in Threads, NEW ptr \in Ptrs, Ftell(t, ptr) \/ FcloseFails(t, ptr)
       PROVE  BytesInv'
  BY <1>6, <1>10 DEF Ftell, FcloseFails, Returns
<1>11. ASSUME NEW t \in Threads, NEW path \in Paths, FopenTake(t, path) PROVE BytesInv'
  BY <1>1, <1>11 DEF FopenTake
<1>12. ASSUME NEW t \in Threads, NEW size \in ItemSizes, NEW count \in Counts,
              FreadPanics(t, size, count)
       PROVE  BytesInv'
  BY <1>1, <1>12 DEF FreadPanics
<1>13. CASE UNCHANGED vars
  BY <1>1, <1>13 DEF vars
<1> QED
  BY <1>2, <1>3, <1>4, <1>5, <1>7, <1>8, <1>9, <1>10, <1>11, <1>12, <1>13 DEF Next

\* With checked multiplication and files that one read of the host can return
\* whole, every byte before the position of a stream has been returned to the
\* guest, up to an item cut off by the end of the file, and a short count means
\* that the end was met.
THEOREM NoByteLost ==
    ASSUME ReadsWhole
    PROVE  Spec => [](AllReported /\ ShortMeansEnd)
<1>1. Init => BytesInv
  <2> SUFFICES ASSUME Init PROVE BytesInv
    OBVIOUS
  <2>1. DOMAIN OPEN_CFILES = {} /\ DOMAIN reported = {} /\ last.call = "none"
    BY DEF Init
  <2> QED
    BY <2>1, InitIInv DEF BytesInv, AllReported, ShortMeansEnd
<1>2. BytesInv /\ [Next]_vars => BytesInv'
  BY StepKeepsBytes
<1>3. BytesInv => AllReported /\ ShortMeansEnd
  BY DEF BytesInv
<1> QED
  BY <1>1, <1>2, <1>3, PTL DEF Spec

\* The part of it about the count: fread returns fewer items than it was asked for
\* only at the end of the file.
THEOREM ShortCountMeansEnd ==
    ASSUME ReadsWhole
    PROVE  Spec => []ShortMeansEnd
BY NoByteLost, PTL

=============================================================================
