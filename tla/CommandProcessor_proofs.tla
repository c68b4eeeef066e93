----------------------- MODULE CommandProcessor_proofs -----------------------
(***************************************************************************)
(* Proofs about the GPU front end, for any threads, any command buffers    *)
(* and any number of swapchain images: the packet loop stays on packet     *)
(* boundaries, a buffer takes effect as a whole, and the semaphores of the *)
(* renderer are reused only when they are free.                            *)
(***************************************************************************)
EXTENDS CommandProcessor, SequenceTheorems, TLAPS

-----------------------------------------------------------------------------
(* The packets of a buffer. *)

\* A set of offsets that has 0 and, with an offset, the end of its packet.
HasStarts(dcb, S) ==
    /\ 0 \in S
    /\ \A q \in S : q + PacketWords(dcb[q + 1]) \in 0 .. Len(dcb) - 1 =>
                        q + PacketWords(dcb[q + 1]) \in S

\* The fields of a word.
LEMMA WordFields ==
    ASSUME NEW w \in Word
    PROVE  w.type \in 0 .. 3 /\ w.count \in Nat
<1>1. w.type \in 0 .. 3 /\ w.count \in 0 .. MaxCount
  BY DEF Word
<1>2. MaxCount \in Nat
  BY DEF MaxCount
<1> QED
  BY <1>1, <1>2

\* A slice of a buffer.
LEMMA Slice ==
    ASSUME NEW dcb \in Seq(Word), NEW m \in Nat \ {0}, NEW n \in Nat, m <= n + 1, n <= Len(dcb)
    PROVE  /\ SubSeq(dcb, m, n) \in Seq(Word)
           /\ Len(SubSeq(dcb, m, n)) = n - m + 1
           /\ \A i \in 1 .. n - m + 1 : SubSeq(dcb, m, n)[i] = dcb[m + i - 1]
<1>1. m \in Int /\ n \in Int /\ \A i \in m .. n : dcb[i] \in Word
  OBVIOUS
<1>2. (IF m <= n THEN n - m + 1 ELSE 0) = n - m + 1
  OBVIOUS
<1> QED
  BY <1>1, <1>2, SubSeqProperties

\* The words of a packet.
LEMMA PacketWordsType ==
    ASSUME NEW dcb \in Seq(Word), NEW p \in 0 .. Len(dcb) - 1
    PROVE  /\ dcb[p + 1] \in Word
           /\ dcb[p + 1].type \in 0 .. 3 /\ dcb[p + 1].count \in Nat
           /\ PacketWords(dcb[p + 1]) \in Nat /\ PacketWords(dcb[p + 1]) > 0
<1>1. p + 1 \in 1 .. Len(dcb)
  OBVIOUS
<1>2. dcb[p + 1] \in Word
  BY <1>1
<1>3. dcb[p + 1].type \in 0 .. 3 /\ dcb[p + 1].count \in Nat
  BY <1>2, WordFields
<1> QED
  BY <1>2, <1>3 DEF PacketWords

\* The least such set is one itself, and lies in every other.
LEMMA StartsLeast ==
    ASSUME NEW dcb \in Seq(Word), Len(dcb) > 0
    PROVE  /\ PacketStarts(dcb) \subseteq 0 .. Len(dcb) - 1
           /\ HasStarts(dcb, PacketStarts(dcb))
           /\ \A S \in SUBSET (0 .. Len(dcb) - 1) : HasStarts(dcb, S) => PacketStarts(dcb) \subseteq S
<1> DEFINE Positions == 0 .. Len(dcb) - 1
           Next0(q) == q + PacketWords(dcb[q + 1])
           P == PacketStarts(dcb)
<1>1. P = {p \in Positions : \A S \in SUBSET Positions : HasStarts(dcb, S) => p \in S}
  BY DEF PacketStarts, HasStarts
<1>2. 0 \in P
  BY <1>1 DEF HasStarts
<1>3. ASSUME NEW q \in P, Next0(q) \in Positions
      PROVE  Next0(q) \in P
  BY <1>1, <1>3 DEF HasStarts
<1>4. HasStarts(dcb, P)
  BY <1>2, <1>3 DEF HasStarts
<1> QED
  BY <1>1, <1>4

\* No packet begins inside another.
LEMMA NoStartInside ==
    ASSUME NEW dcb \in Seq(Word), Len(dcb) > 0,
           NEW p \in PacketStarts(dcb), NEW q \in PacketStarts(dcb), p < q
    PROVE  p + PacketWords(dcb[p + 1]) <= q
<1> DEFINE Positions == 0 .. Len(dcb) - 1
           P == PacketStarts(dcb)
           end(x) == x + PacketWords(dcb[x + 1])
           Clear(y) == \A z \in P : y < z => end(y) <= z
           T == {x \in P : \A y \in P : y <= x => Clear(y)}
<1>1. /\ P \subseteq Positions /\ 0 \in P
      /\ \A x \in P : end(x) \in Positions => end(x) \in P
      /\ \A S \in SUBSET Positions :
            (0 \in S /\ \A x \in S : end(x) \in Positions => end(x) \in S) => P \subseteq S
  BY StartsLeast DEF HasStarts
<1>2. \A x \in Positions : x \in Nat /\ end(x) \in Nat /\ x < end(x)
  BY PacketWordsType
<1>3. 0 \in Positions
  OBVIOUS
<1> HIDE DEF P, end, Positions
<1>4. Clear(0)
  <2> DEFINE S == {x \in Positions : x = 0 \/ end(0) <= x}
  <2>1. 0 \in S /\ \A x \in S : end(x) \in Positions => end(x) \in S
    BY <1>2, <1>3
  <2>2. P \subseteq S
    BY <2>1, <1>1
  <2> QED
    BY <2>2, <1>1, <1>2
<1>5. 0 \in T
  <2>1. ASSUME NEW y \in P, y <= 0 PROVE y = 0
    BY <2>1, <1>1, <1>2
  <2> QED
    BY <2>1, <1>1, <1>4
<1>6. ASSUME NEW x \in T, end(x) \in Positions
      PROVE  end(x) \in T
  <2>1. x \in P /\ end(x) \in P /\ x \in Positions /\ \A y \in P : y <= x => Clear(y)
    BY <1>1, <1>6
  <2>2. ASSUME NEW y \in P, y < end(x)
        PROVE  Clear(y) /\ end(y) <= end(x)
    <3>1. y <= x
      <4>1. Clear(x)
        BY <2>1, <1>2
      <4> QED
        BY <4>1, <2>1, <2>2, <1>1, <1>2
    <3> QED
      BY <3>1, <2>1, <2>2
  <2>3. Clear(end(x))
    <3> DEFINE e == end(x)
               S == {y \in P : y <= e \/ end(e) <= y}
    <3>1. 0 \in S
      BY <1>1, <1>2, <2>1
    <3>2. ASSUME NEW y \in S, end(y) \in Positions
          PROVE  end(y) \in S
      <4>1. y \in P /\ end(y) \in P /\ (y <= e \/ end(e) <= y)
        BY <3>2, <1>1
      <4>2. CASE y < e
        BY <4>1, <4>2, <2>2
      <4>3. CASE y = e
        BY <4>1, <4>3, <2>1, <1>1, <1>2
      <4>4. CASE end(e) <= y
        <5>1. y < end(y) /\ y \in Nat /\ end(y) \in Nat /\ end(e) \in Nat
          BY <4>1, <2>1, <1>1, <1>2
        <5> QED
          BY <4>1, <4>4, <5>1
      <4> QED
        BY <4>1, <4>2, <4>3, <4>4, <2>1, <1>1, <1>2
    <3>3. P \subseteq S
      <4>1. S \in SUBSET Positions
        BY <1>1
      <4> HIDE DEF S
      <4> QED
        BY <3>1, <3>2, <4>1, <1>1
    <3>4. ASSUME NEW z \in P, e < z
          PROVE  end(e) <= z
      BY <3>3, <3>4, <2>1, <1>1, <1>2
    <3> QED
      BY <3>4
  <2>4. ASSUME NEW y \in P, y <= end(x)
        PROVE  Clear(y)
    BY <2>1, <2>2, <2>3, <2>4, <1>1, <1>2
  <2> QED
    BY <2>1, <2>4
<1>7. P \subseteq T
  <2>1. T \in SUBSET Positions
    BY <1>1
  <2> HIDE DEF T
  <2> QED
    BY <2>1, <1>1, <1>5, <1>6
<1>8. Clear(p)
  BY <1>1, <1>2, <1>7 DEF P
<1> QED
  BY <1>8 DEF P, end

\* The loop moves from a packet to the next, or to the end of the buffer.
LEMMA PacketEndFramed ==
    ASSUME NEW dcb \in Seq(Word), Len(dcb) > 0,
           NEW off \in PacketStarts(dcb), dcb[off + 1].type # 0
    PROVE  /\ PacketEnd(dcb, off) \in PacketStarts(dcb) \cup {Len(dcb)}
           /\ PacketEnd(dcb, off) \in Nat
           /\ off < PacketEnd(dcb, off) /\ PacketEnd(dcb, off) <= Len(dcb)
           /\ PacketEnd(dcb, off) <= off + PacketWords(dcb[off + 1])
<1>1. off \in 0 .. Len(dcb) - 1 /\ Len(dcb) \in Nat
  BY StartsLeast
<1>2. /\ dcb[off + 1].type \in 0 .. 3 /\ dcb[off + 1].count \in Nat
      /\ PacketWords(dcb[off + 1]) \in Nat /\ PacketWords(dcb[off + 1]) > 0
  BY <1>1, PacketWordsType
<1>3. PacketEnd(dcb, off) = Smaller(off + PacketWords(dcb[off + 1]), Len(dcb))
  <2> DEFINE h == dcb[off + 1]
  <2>1. CASE h.type = 3
    <3>1. Pm4Type(h) = "Type3"
      BY <2>1 DEF Pm4Type
    <3>2. PacketEnd(dcb, off) = Smaller(off + 1 + h.count + 1, Len(dcb))
      BY <3>1 DEF PacketEnd
    <3>3. off + PacketWords(h) = off + 1 + h.count + 1
      BY <1>1, <1>2, <3>1 DEF PacketWords
    <3> QED
      BY <3>2, <3>3
  <2>2. CASE h.type # 3
    <3>1. Pm4Type(h) = "Type2"
      BY <2>2 DEF Pm4Type
    <3>2. PacketEnd(dcb, off) = off + 1 /\ PacketWords(h) = 1
      BY <3>1 DEF PacketEnd, PacketWords
    <3> QED
      BY <1>1, <3>2 DEF Smaller
  <2> QED
    BY <2>1, <2>2
<1>4. off + PacketWords(dcb[off + 1]) < Len(dcb) =>
          off + PacketWords(dcb[off + 1]) \in PacketStarts(dcb)
  BY <1>1, <1>2, StartsLeast DEF HasStarts
<1> QED
  BY <1>1, <1>2, <1>3, <1>4 DEF Smaller

\* A packet that begins before the end of the one at off begins at off or earlier.
LEMMA StartsBefore ==
    ASSUME NEW dcb \in Seq(Word), Len(dcb) > 0,
           NEW off \in PacketStarts(dcb), dcb[off + 1].type # 0,
           NEW q \in PacketStarts(dcb), q < PacketEnd(dcb, off)
    PROVE  q <= off
<1>1. off \in Int /\ q \in Int /\ PacketEnd(dcb, off) \in Nat
  BY StartsLeast, PacketEndFramed
<1>2. PacketWords(dcb[off + 1]) \in Nat
  BY StartsLeast, PacketWordsType
<1>3. PacketEnd(dcb, off) <= off + PacketWords(dcb[off + 1])
  BY PacketEndFramed
<1> QED
  BY <1>1, <1>2, <1>3, NoStartInside

-----------------------------------------------------------------------------
(* The registers. *)

\* The packets that set r and begin before off.
SettersBefore(dcb, r, off) == {p \in SettersOf(dcb, r) : p < off}

\* r has the value of the last of them, or the one it had when the buffer began.
HasValue(dcb, r, off, old, value) ==
    \/ SettersBefore(dcb, r, off) = {} /\ value = old
    \/ \E p \in SettersBefore(dcb, r, off) :
          /\ \A q \in SettersBefore(dcb, r, off) : q <= p
          /\ value = SubSeq(dcb, p + 2, p + 1 + Takes[r])

\* Each register takes one word or two.
LEMMA TakesType == \A r \in Registers : Takes[r] \in {1, 2}
BY DEF Takes, Registers

\* The words of a body that a register takes are those behind the header.
LEMMA BodyWords ==
    ASSUME NEW dcb \in Seq(Word), NEW off \in 0 .. Len(dcb) - 1,
           dcb[off + 1].type = 3
    PROVE  /\ Body(dcb, off) \in Seq(Word)
           /\ Len(Body(dcb, off)) = Smaller(dcb[off + 1].count + 1, Len(dcb) - off - 1)
           /\ \A r \in Registers : Len(Body(dcb, off)) >= Takes[r] =>
                 SubSeq(Body(dcb, off), 1, Takes[r]) = SubSeq(dcb, off + 2, off + 1 + Takes[r])
<1> DEFINE end == PacketEnd(dcb, off)
           body == Body(dcb, off)
<1>1. /\ off \in 0 .. Len(dcb) - 1 /\ Len(dcb) \in Nat
      /\ dcb[off + 1].count \in Nat
  BY PacketWordsType
<1>2. end = Smaller(off + 1 + dcb[off + 1].count + 1, Len(dcb))
  BY DEF PacketEnd, Pm4Type
<1>3. end \in Nat /\ off + 1 <= end /\ end <= Len(dcb)
      /\ end - off - 1 = Smaller(dcb[off + 1].count + 1, Len(dcb) - off - 1)
  BY <1>1, <1>2 DEF Smaller
<1> HIDE DEF end
<1>4. body \in Seq(Word) /\ Len(body) = end - off - 1
  <2>1. off + 2 \in Nat \ {0} /\ off + 2 <= end + 1
    BY <1>1, <1>3
  <2>2. body = SubSeq(dcb, off + 2, end)
    BY DEF Body, end
  <2> QED
    BY <1>1, <1>3, <2>1, <2>2, Slice
<1>5. ASSUME NEW r \in Registers, Len(body) >= Takes[r]
      PROVE  SubSeq(body, 1, Takes[r]) = SubSeq(dcb, off + 2, off + 1 + Takes[r])
  <2>1. Takes[r] \in Nat /\ Takes[r] >= 1
    BY TakesType
  <2>2. Takes[r] <= end - off - 1
    BY <1>3, <1>4, <1>5, <2>1
  <2> DEFINE k == Takes[r]
             a == SubSeq(body, 1, k)
             b == SubSeq(dcb, off + 2, off + 1 + k)
  <2> HIDE DEF k, body
  <2>3. k \in Nat /\ k >= 1 /\ k <= Len(body) /\ k <= end - off - 1
    BY <2>1, <2>2, <1>5 DEF k
  <2>4. a \in Seq(Word) /\ Len(a) = k /\ \A i \in 1 .. k : a[i] = body[i]
    <3>1. 1 \in Nat \ {0} /\ 1 <= k + 1 /\ k - 1 + 1 = k /\ \A i \in 1 .. k : 1 + i - 1 = i
      BY <2>3
    <3> QED
      BY <1>4, <2>3, <3>1, Slice
  <2>5. b \in Seq(Word) /\ Len(b) = k /\ \A i \in 1 .. k : b[i] = dcb[off + 1 + i]
    <3>1. /\ off + 2 \in Nat \ {0} /\ off + 1 + k \in Nat /\ off + 2 <= (off + 1 + k) + 1
          /\ off + 1 + k <= Len(dcb)
          /\ (off + 1 + k) - (off + 2) + 1 = k
          /\ \A i \in 1 .. k : (off + 2) + i - 1 = off + 1 + i
      BY <1>1, <1>3, <2>3
    <3>2. /\ b \in Seq(Word)
          /\ Len(b) = (off + 1 + k) - (off + 2) + 1
          /\ \A i \in 1 .. (off + 1 + k) - (off + 2) + 1 : b[i] = dcb[(off + 2) + i - 1]
      BY <3>1, Slice
    <3> QED
      BY <3>1, <3>2
  <2>6. \A i \in 1 .. k : body[i] = dcb[off + 1 + i]
    <3>1. /\ off + 2 \in Nat \ {0} /\ off + 2 <= end + 1
          /\ end - (off + 2) + 1 = end - off - 1
          /\ \A i \in 1 .. end - off - 1 : (off + 2) + i - 1 = off + 1 + i
          /\ \A i \in 1 .. k : i \in 1 .. end - off - 1
      BY <1>1, <1>3, <2>3
    <3>2. body = SubSeq(dcb, off + 2, end)
      BY DEF Body, end, body
    <3> QED
      BY <1>1, <1>3, <3>1, <3>2, Slice
  <2> HIDE DEF a, b
  <2>7. a = b
    BY <2>3, <2>4, <2>5, <2>6, SeqEqual
  <2> QED
    BY <2>7 DEF a, b, k, body
<1> QED
  BY <1>3, <1>4, <1>5

\* What the packet at off leaves in a register: the value the last packet up to it sets.
LEMMA PacketSets ==
    ASSUME NEW dcb \in Seq(Word), Len(dcb) > 0, NEW off \in PacketStarts(dcb),
           dcb[off + 1].type # 0, NEW r \in Registers, NEW old, NEW value,
           HasValue(dcb, r, off, old, value),
           NEW new,
           new = IF Pm4Type(dcb[off + 1]) = "Type3" /\ dcb[off + 1].op = SetBy[r]
                     /\ Len(Body(dcb, off)) >= Takes[r]
                 THEN SubSeq(Body(dcb, off), 1, Takes[r]) ELSE value
    PROVE  HasValue(dcb, r, PacketEnd(dcb, off), old, new)
<1> DEFINE end == PacketEnd(dcb, off)
           Before == SettersBefore(dcb, r, off)
           UpTo == SettersBefore(dcb, r, end)
           Sets == Pm4Type(dcb[off + 1]) = "Type3" /\ dcb[off + 1].op = SetBy[r]
                      /\ Len(Body(dcb, off)) >= Takes[r]
<1>1. off \in 0 .. Len(dcb) - 1 /\ end \in Nat /\ off < end /\ SettersOf(dcb, r) \subseteq PacketStarts(dcb)
      /\ PacketStarts(dcb) \subseteq Int
  BY StartsLeast, PacketEndFramed DEF SettersOf
<1>2. off \in SettersOf(dcb, r) <=> Sets
  <2>1. Pm4Type(dcb[off + 1]) = "Type3" <=> dcb[off + 1].type = 3
    BY DEF Pm4Type
  <2>2. CASE dcb[off + 1].type = 3
    BY <1>1, <2>1, <2>2, BodyWords DEF SettersOf
  <2>3. CASE dcb[off + 1].type # 3
    BY <2>1, <2>3 DEF SettersOf
  <2> QED
    BY <2>2, <2>3
<1>3. \A q \in PacketStarts(dcb) : q < end <=> q <= off
  <2>1. \A q \in PacketStarts(dcb) : q < end => q <= off
    BY StartsBefore
  <2> QED
    BY <2>1, <1>1
<1>4. UpTo = IF Sets THEN Before \cup {off} ELSE Before
  BY <1>1, <1>2, <1>3 DEF SettersBefore
<1>5. \A q \in Before : q < off /\ q \in Int
  BY <1>1 DEF SettersBefore
<1>6. CASE Sets
  <2>1. new = SubSeq(dcb, off + 2, off + 1 + Takes[r])
    <3>1. dcb[off + 1].type = 3
      BY <1>6 DEF Pm4Type
    <3> QED
      BY <1>1, <1>6, <3>1, BodyWords
  <2>2. off \in UpTo /\ \A q \in UpTo : q <= off
    BY <1>1, <1>4, <1>5, <1>6
  <2> QED
    BY <2>1, <2>2 DEF HasValue
<1>7. CASE ~Sets
  <2>1. UpTo = Before /\ new = value
    BY <1>4, <1>7
  <2> QED
    BY <2>1 DEF HasValue
<1> QED
  BY <1>6, <1>7

\* At the end of the buffer that is the final value.
LEMMA ValueIsFinal ==
    ASSUME NEW dcb \in Seq(Word), Len(dcb) > 0, NEW r \in Registers, NEW old, NEW value,
           HasValue(dcb, r, Len(dcb), old, value)
    PROVE  value = FinalValue(dcb, r, old)
<1>1. SettersBefore(dcb, r, Len(dcb)) = SettersOf(dcb, r) /\ SettersOf(dcb, r) \subseteq Int
  BY StartsLeast DEF SettersBefore, SettersOf
<1>2. CASE SettersOf(dcb, r) = {}
  BY <1>1, <1>2 DEF HasValue, FinalValue
<1>3. CASE SettersOf(dcb, r) # {}
  <2>1. PICK p \in SettersOf(dcb, r) :
            /\ \A q \in SettersOf(dcb, r) : q <= p
            /\ value = SubSeq(dcb, p + 2, p + 1 + Takes[r])
    BY <1>1, <1>3 DEF HasValue
  <2>2. \A x \in SettersOf(dcb, r) : (\A q \in SettersOf(dcb, r) : q <= x) => x = p
    BY <1>1, <2>1
  <2> DEFINE last == CHOOSE x \in SettersOf(dcb, r) : \A q \in SettersOf(dcb, r) : q <= x
  <2>3. last \in SettersOf(dcb, r) /\ \A q \in SettersOf(dcb, r) : q <= last
    BY <2>1
  <2>4. last = p
    BY <2>2, <2>3
  <2>5. FinalValue(dcb, r, old) = SubSeq(dcb, last + 2, last + 1 + Takes[r])
    BY <1>3 DEF FinalValue
  <2> HIDE DEF last
  <2> QED
    BY <2>1, <2>4, <2>5
<1> QED
  BY <1>2, <1>3

-----------------------------------------------------------------------------
(* The mutex and the types, for every buffer. *)

\* The buffers the threads may submit.
AllBuffers ==
    {dcb \in Seq(Word) : \E t \in Threads : \E s \in Submissions[t] : \E i \in DOMAIN s : s[i] = dcb}

RegFile == {f \in [Registers -> Seq(Word)] : \A r \in Registers : Len(f[r]) = Takes[r]}

Stages == {"guest", "submit", "packets", "wait", "acquire", "queue", "present", "done"}

\* Where a thread holds GPU_CONTEXT.
Critical == {"packets", "wait", "acquire", "queue", "present", "done"}

FrontType ==
    /\ GPU_CONTEXT \in Threads \cup {NoThread}
    /\ regs \in RegFile
    /\ submit_count \in Nat /\ frames_submitted \in Nat
    /\ pc \in [Threads -> Stages]
    /\ todo \in [Threads -> Seq(AllBuffers)]
    /\ offset \in [Threads -> Nat]
    /\ calls \in [Threads -> 0 .. MaxCalls]
    /\ start \in [Threads -> RegFile]
    /\ stopped \in BOOLEAN

\* Exactly the thread that holds the mutex is where it is needed.
MutexHeld == \A t \in Threads : pc[t] \in Critical <=> GPU_CONTEXT = t

\* A thread in the packet loop has a buffer with words in it.
HasBuffer ==
    \A t \in Threads : pc[t] = "packets" => todo[t] # <<>> /\ Len(Head(todo[t])) > 0

FrontInv == FrontType /\ MutexHeld /\ HasBuffer

\* What is left of a submission after its first buffer.
LEMMA TodoFacts ==
    ASSUME NEW s \in Seq(AllBuffers), s # <<>>
    PROVE  Head(s) \in AllBuffers /\ Head(s) \in Seq(Word) /\ Tail(s) \in Seq(AllBuffers)
<1>1. Head(s) \in AllBuffers /\ Tail(s) \in Seq(AllBuffers)
  BY HeadTailProperties
<1> QED
  BY <1>1 DEF AllBuffers

\* Every submission is a list of such buffers.
LEMMA SubmissionsType ==
    ASSUME NEW t \in Threads, NEW s \in Submissions[t]
    PROVE  s \in Seq(AllBuffers)
<1>1. s \in Seq(Seq(Word))
  BY CommandProcessorAssumption
<1>2. \A i \in 1 .. Len(s) : s[i] \in AllBuffers
  BY <1>1 DEF AllBuffers
<1>3. Len(s) \in Nat /\ s \in [1 .. Len(s) -> AllBuffers]
  BY <1>1, <1>2
<1> QED
  BY <1>3

\* A register keeps its number of words.
LEMMA PacketRegs ==
    ASSUME NEW dcb \in Seq(Word), NEW off \in 0 .. Len(dcb) - 1, dcb[off + 1].type = 3,
           NEW op, NEW old \in RegFile
    PROVE  process_type3_packet(op, Body(dcb, off), old) \in RegFile
<1> DEFINE body == Body(dcb, off)
           new == process_type3_packet(op, body, old)
<1>1. body \in Seq(Word)
  BY BodyWords
<1> HIDE DEF body
<1>2. ASSUME NEW r \in Registers, Len(body) >= Takes[r]
      PROVE  SubSeq(body, 1, Takes[r]) \in Seq(Word) /\ Len(SubSeq(body, 1, Takes[r])) = Takes[r]
  <2>1. Takes[r] \in Nat /\ 1 <= Takes[r] + 1 /\ 1 \in Nat \ {0} /\ Takes[r] - 1 + 1 = Takes[r]
    BY TakesType
  <2> QED
    BY <1>1, <1>2, <2>1, Slice
<1>3. /\ new = [r \in Registers |->
                  IF op = SetBy[r] /\ Len(body) >= Takes[r] THEN SubSeq(body, 1, Takes[r]) ELSE old[r]]
      /\ old \in [Registers -> Seq(Word)] /\ \A r \in Registers : Len(old[r]) = Takes[r]
  BY DEF process_type3_packet, RegFile, body
<1>4. new \in [Registers -> Seq(Word)]
  BY <1>2, <1>3
<1>5. \A r \in Registers : Len(new[r]) = Takes[r]
  BY <1>2, <1>3
<1> QED
  BY <1>4, <1>5 DEF RegFile, body

\* A thread moves and neither takes nor releases the mutex.
LEMMA MoveKeepsMutex ==
    ASSUME FrontInv, NEW t \in Threads, NEW l \in Stages, NEW m \in Stages,
           pc[t] = l, pc' = [pc EXCEPT ![t] = m],
           l \in Critical <=> m \in Critical, GPU_CONTEXT' = GPU_CONTEXT
    PROVE  MutexHeld'
BY DEF FrontInv, FrontType, MutexHeld

\* A submission begins without the mutex.
LEMMA SubmitKeeps ==
    ASSUME FrontInv, NEW t \in Threads, NEW s \in Submissions[t], Submit(t, s)
    PROVE  FrontInv'
<1>1. /\ pc[t] = "guest" /\ pc' = [pc EXCEPT ![t] = "submit"]
      /\ calls[t] < MaxCalls /\ calls' = [calls EXCEPT ![t] = @ + 1]
      /\ todo' = [todo EXCEPT ![t] = IF CountAccepted(s) THEN s ELSE <<>>]
      /\ UNCHANGED <<GPU_CONTEXT, regs, submit_count, frames_submitted, offset, start, stopped>>
  BY DEF Submit, Goes
<1>2. (IF CountAccepted(s) THEN s ELSE <<>>) \in Seq(AllBuffers)
  BY SubmissionsType
<1>3. FrontType'
  <2>1. todo' \in [Threads -> Seq(AllBuffers)]
    BY <1>1, <1>2 DEF FrontInv, FrontType
  <2>2. calls' \in [Threads -> 0 .. MaxCalls]
    BY <1>1, CommandProcessorAssumption DEF FrontInv, FrontType
  <2>3. pc' \in [Threads -> Stages]
    BY <1>1 DEF FrontInv, FrontType, Stages
  <2> QED
    BY <1>1, <2>1, <2>2, <2>3 DEF FrontInv, FrontType
<1>4. MutexHeld'
  BY <1>1, MoveKeepsMutex DEF Stages, Critical
<1>5. HasBuffer'
  BY <1>1 DEF FrontInv, FrontType, HasBuffer
<1> QED
  BY <1>3, <1>4, <1>5 DEF FrontInv

\* A buffer that is skipped.
LEMMA SkipBufferKeeps ==
    ASSUME FrontInv, NEW t \in Threads, SkipBuffer(t)
    PROVE  FrontInv'
<1>1. /\ pc[t] = "submit" /\ pc' = [pc EXCEPT ![t] = "submit"]
      /\ todo[t] # <<>> /\ todo' = [todo EXCEPT ![t] = Tail(@)]
      /\ UNCHANGED <<GPU_CONTEXT, regs, submit_count, frames_submitted, offset, calls, start, stopped>>
  BY DEF SkipBuffer, Goes
<1>2. FrontType'
  <2>1. todo' \in [Threads -> Seq(AllBuffers)]
    BY <1>1, TodoFacts DEF FrontInv, FrontType
  <2>2. pc' \in [Threads -> Stages]
    BY <1>1 DEF FrontInv, FrontType, Stages
  <2> QED
    BY <1>1, <2>1, <2>2 DEF FrontInv, FrontType
<1>3. MutexHeld'
  BY <1>1, MoveKeepsMutex DEF Stages, Critical
<1>4. HasBuffer'
  BY <1>1 DEF FrontInv, FrontType, HasBuffer
<1> QED
  BY <1>2, <1>3, <1>4 DEF FrontInv

\* The mutex is taken for a buffer.
LEMMA BeginBufferKeeps ==
    ASSUME FrontInv, NEW t \in Threads, BeginBuffer(t)
    PROVE  FrontInv'
<1>1. /\ pc[t] = "submit" /\ pc' = [pc EXCEPT ![t] = "packets"]
      /\ todo[t] # <<>> /\ Len(Head(todo[t])) > 0
      /\ GPU_CONTEXT = NoThread /\ GPU_CONTEXT' = t
      /\ offset' = [offset EXCEPT ![t] = 0]
      /\ start' = [start EXCEPT ![t] = regs]
      /\ UNCHANGED <<regs, submit_count, frames_submitted, todo, calls, stopped>>
  BY DEF BeginBuffer, Goes, GpuFree, SizeAccepted
<1>2. FrontType'
  <2>1. pc' \in [Threads -> Stages]
    BY <1>1 DEF FrontInv, FrontType, Stages
  <2>2. offset' \in [Threads -> Nat] /\ start' \in [Threads -> RegFile]
    BY <1>1 DEF FrontInv, FrontType
  <2> QED
    BY <1>1, <2>1, <2>2 DEF FrontInv, FrontType
<1>3. MutexHeld'
  BY <1>1, CommandProcessorAssumption DEF FrontInv, FrontType, MutexHeld, Critical
<1>4. HasBuffer'
  BY <1>1 DEF FrontInv, FrontType, HasBuffer
<1> QED
  BY <1>2, <1>3, <1>4 DEF FrontInv

\* A turn of the packet loop.
LEMMA PacketKeeps ==
    ASSUME FrontInv, NEW t \in Threads, Packet(t)
    PROVE  FrontInv'
<1> DEFINE dcb == Head(todo[t])
           off == offset[t]
<1>1. /\ pc[t] = "packets" /\ pc' = [pc EXCEPT ![t] = "packets"]
      /\ off < Len(dcb)
      /\ offset' = [offset EXCEPT ![t] = PacketEnd(dcb, off)]
      /\ UNCHANGED <<GPU_CONTEXT, submit_count, frames_submitted, todo, calls, start>>
      /\ IF Pm4Type(dcb[off + 1]) = "Type3"
         THEN /\ stopped' = (OverflowChecks /\ RegOffsetOverflows(dcb[off + 1].op, Body(dcb, off)))
              /\ regs' = process_type3_packet(dcb[off + 1].op, Body(dcb, off), regs)
         ELSE UNCHANGED <<regs, stopped>>
  BY DEF Packet, Goes
<1>2. todo[t] # <<>> /\ dcb \in Seq(Word)
  BY <1>1, TodoFacts DEF FrontInv, FrontType, HasBuffer
<1> HIDE DEF dcb
<1>3. off \in 0 .. Len(dcb) - 1
  BY <1>1, <1>2 DEF FrontInv, FrontType
<1>4. PacketEnd(dcb, off) \in Nat
  <2>1. dcb[off + 1].count \in Nat /\ Len(dcb) \in Nat
    BY <1>2, <1>3, PacketWordsType
  <2> QED
    BY <1>3, <2>1 DEF PacketEnd, Smaller
<1>5. regs' \in RegFile
  <2>1. CASE Pm4Type(dcb[off + 1]) = "Type3"
    <3>1. dcb[off + 1].type = 3
      BY <2>1 DEF Pm4Type
    <3> QED
      BY <1>1, <1>2, <1>3, <2>1, <3>1, PacketRegs DEF FrontInv, FrontType
  <2>2. CASE Pm4Type(dcb[off + 1]) # "Type3"
    BY <1>1, <2>2 DEF FrontInv, FrontType
  <2> QED
    BY <2>1, <2>2
<1>6. stopped' \in BOOLEAN
  <2>1. (OverflowChecks /\ RegOffsetOverflows(dcb[off + 1].op, Body(dcb, off))) \in BOOLEAN
    OBVIOUS
  <2>2. stopped \in BOOLEAN
    BY DEF FrontInv, FrontType
  <2>3. stopped' = stopped \/ stopped' = (OverflowChecks /\ RegOffsetOverflows(dcb[off + 1].op, Body(dcb, off)))
    BY <1>1
  <2> QED
    BY <2>1, <2>2, <2>3
<1>7. FrontType'
  <2>1. pc' \in [Threads -> Stages]
    BY <1>1 DEF FrontInv, FrontType, Stages
  <2>2. offset' \in [Threads -> Nat]
    BY <1>1, <1>4 DEF FrontInv, FrontType
  <2> QED
    BY <1>1, <1>5, <1>6, <2>1, <2>2 DEF FrontInv, FrontType
<1>8. MutexHeld'
  BY <1>1, MoveKeepsMutex DEF Stages, Critical
<1>9. HasBuffer'
  BY <1>1 DEF FrontInv, FrontType, HasBuffer
<1> QED
  BY <1>7, <1>8, <1>9 DEF FrontInv

\* The mutex is released behind a buffer.
LEMMA EndBufferKeeps ==
    ASSUME FrontInv, NEW t \in Threads, EndBuffer(t)
    PROVE  FrontInv'
<1>1. /\ pc[t] = "packets" /\ pc' = [pc EXCEPT ![t] = "submit"]
      /\ submit_count' = submit_count + 1
      /\ todo' = [todo EXCEPT ![t] = Tail(@)]
      /\ GPU_CONTEXT' = NoThread
      /\ UNCHANGED <<regs, frames_submitted, offset, calls, start, stopped>>
  BY DEF EndBuffer, Goes
<1>2. todo[t] # <<>>
  BY <1>1 DEF FrontInv, HasBuffer
<1>3. FrontType'
  <2>1. pc' \in [Threads -> Stages]
    BY <1>1 DEF FrontInv, FrontType, Stages
  <2>2. todo' \in [Threads -> Seq(AllBuffers)]
    BY <1>1, <1>2, TodoFacts DEF FrontInv, FrontType
  <2> QED
    BY <1>1, <2>1, <2>2 DEF FrontInv, FrontType
<1>4. MutexHeld'
  BY <1>1, CommandProcessorAssumption DEF FrontInv, FrontType, MutexHeld, Critical
<1>5. HasBuffer'
  BY <1>1 DEF FrontInv, FrontType, HasBuffer
<1> QED
  BY <1>3, <1>4, <1>5 DEF FrontInv

\* The steps of a frame: the thread takes the mutex, moves with it, releases it.
FrameStep(t) ==
    /\ pc[t] \in Stages \ {"packets"} /\ pc'[t] \in Stages \ {"packets"}
    /\ pc' = [pc EXCEPT ![t] = pc'[t]]
    /\ frames_submitted' \in Nat
    /\ stopped' = stopped
    /\ UNCHANGED <<regs, submit_count, todo, offset, calls, start>>
    /\ \/ GPU_CONTEXT' = GPU_CONTEXT /\ (pc[t] \in Critical <=> pc'[t] \in Critical)
       \/ GPU_CONTEXT = NoThread /\ GPU_CONTEXT' = t /\ pc'[t] \in Critical
       \/ pc[t] \in Critical /\ GPU_CONTEXT' = NoThread /\ pc'[t] \notin Critical

\* Such a step keeps the types and the mutex.
LEMMA FrameStepKeeps ==
    ASSUME FrontInv, NEW t \in Threads, FrameStep(t)
    PROVE  FrontInv'
<1>1. FrontType'
  <2>1. pc' \in [Threads -> Stages]
    BY DEF FrontInv, FrontType, FrameStep
  <2>2. GPU_CONTEXT' \in Threads \cup {NoThread}
    BY DEF FrontInv, FrontType, FrameStep
  <2> QED
    BY <2>1, <2>2 DEF FrontInv, FrontType, FrameStep
<1>2. MutexHeld'
  <2>1. CASE GPU_CONTEXT' = GPU_CONTEXT /\ (pc[t] \in Critical <=> pc'[t] \in Critical)
    BY <2>1, MoveKeepsMutex DEF FrameStep
  <2>2. CASE GPU_CONTEXT = NoThread /\ GPU_CONTEXT' = t /\ pc'[t] \in Critical
    BY <2>2, CommandProcessorAssumption DEF FrontInv, FrontType, MutexHeld, FrameStep
  <2>3. CASE pc[t] \in Critical /\ GPU_CONTEXT' = NoThread /\ pc'[t] \notin Critical
    BY <2>3, CommandProcessorAssumption DEF FrontInv, FrontType, MutexHeld, FrameStep
  <2> QED
    BY <2>1, <2>2, <2>3 DEF FrameStep
<1>3. HasBuffer'
  BY DEF FrontInv, FrontType, HasBuffer, FrameStep
<1> QED
  BY <1>1, <1>2, <1>3 DEF FrontInv

-----------------------------------------------------------------------------
(* The renderer. *)

\* Where the thread that holds the mutex is.
Stage == IF GPU_CONTEXT = NoThread THEN "free" ELSE pc[GPU_CONTEXT]

\* An image that was acquired and not presented yet.
Held == IF Stage \in {"queue", "present"} THEN 1 ELSE 0

RenderTypes ==
    /\ renderer \in BOOLEAN /\ in_flight_fence \in BOOLEAN /\ image_available \in BOOLEAN
    /\ shown \in BOOLEAN /\ out_of_date \in BOOLEAN
    /\ submitted \in Nat /\ rendered \in Nat /\ presented \in Nat /\ frame_count \in Nat
    /\ free \in Nat

\* The fence is signaled exactly if nothing is submitted; the semaphore is, from the
\* acquire to the end of the submission that waits for it.
FenceInv ==
    /\ Stage = "queue" => in_flight_fence /\ image_available /\ submitted = 0
    /\ Stage # "queue" => /\ submitted \in {0, 1}
                          /\ image_available <=> submitted = 1
                          /\ in_flight_fence <=> submitted = 0
    /\ Stage = "acquire" => in_flight_fence

\* An image is free, held, waiting to be shown or on the screen.
ImagesInv == free + presented + (IF shown THEN 1 ELSE 0) + Held = ImageCount

RenderInv == RenderTypes /\ FenceInv /\ ImagesInv

\* While a thread does not move the mutex, what it does elsewhere is not seen.
LEMMA StageOf ==
    ASSUME FrontInv, NEW t \in Threads
    PROVE  /\ pc[t] \in Critical => Stage = pc[t] /\ GPU_CONTEXT = t
           /\ pc[t] \notin Critical => GPU_CONTEXT # t
BY CommandProcessorAssumption DEF FrontInv, MutexHeld, Stage

\* Steps that leave the renderer alone, outside a frame.
Aside == {"free", "packets", "wait", "done"}

\* They keep what holds of it.
LEMMA RendererAside ==
    ASSUME RenderInv, UNCHANGED rendererVars,
           Stage' = Stage \/ (Stage \in Aside /\ Stage' \in Aside)
    PROVE  RenderInv'
<1>1. RenderTypes'
  BY DEF RenderInv, RenderTypes, rendererVars
<1>2. FenceInv'
  BY DEF RenderInv, FenceInv, rendererVars, Aside
<1>3. ImagesInv'
  <2>1. Held' = Held
    BY DEF Held, Aside
  <2> QED
    BY <2>1 DEF RenderInv, ImagesInv, rendererVars
<1> QED
  BY <1>1, <1>2, <1>3 DEF RenderInv

\* A step of a thread without the mutex does not change the stage.
LEMMA StageSame ==
    ASSUME FrontInv, NEW t \in Threads, GPU_CONTEXT # t, GPU_CONTEXT' = GPU_CONTEXT,
           NEW m, pc' = [pc EXCEPT ![t] = m]
    PROVE  Stage' = Stage
BY DEF FrontInv, FrontType, Stage

\* Every thread's step keeps both invariants.
LEMMA SubmissionSteps ==
    ASSUME FrontInv, RenderInv, NEW t \in Threads,
           \/ \E s \in Submissions[t] : Submit(t, s)
           \/ SkipBuffer(t) \/ BeginBuffer(t) \/ Packet(t) \/ EndBuffer(t) \/ Pace(t)
    PROVE  FrontInv' /\ RenderInv'
<1>1. ASSUME NEW s \in Submissions[t], Submit(t, s) PROVE FrontInv' /\ RenderInv'
  <2>1. Stage' = Stage
    BY <1>1, StageOf, StageSame DEF Submit, Goes, Critical
  <2> QED
    BY <1>1, <2>1, SubmitKeeps, RendererAside DEF Submit
<1>2. CASE SkipBuffer(t)
  <2>1. Stage' = Stage
    BY <1>2, StageOf, StageSame DEF SkipBuffer, Goes, Critical
  <2> QED
    BY <1>2, <2>1, SkipBufferKeeps, RendererAside DEF SkipBuffer
<1>3. CASE BeginBuffer(t)
  <2>1. FrontInv' /\ UNCHANGED rendererVars /\ GPU_CONTEXT = NoThread /\ GPU_CONTEXT' = t
    BY <1>3, BeginBufferKeeps DEF BeginBuffer, GpuFree
  <2>2. pc'[t] = "packets"
    BY <1>3 DEF BeginBuffer, Goes, FrontInv, FrontType
  <2>3. Stage = "free" /\ Stage' = "packets"
    BY <2>1, <2>2, CommandProcessorAssumption DEF Stage
  <2> QED
    BY <2>1, <2>3, RendererAside DEF Aside
<1>4. CASE Packet(t)
  <2>1. FrontInv' /\ UNCHANGED rendererVars /\ GPU_CONTEXT' = GPU_CONTEXT /\ pc[t] = "packets" /\ pc'[t] = "packets"
    BY <1>4, PacketKeeps DEF Packet, Goes, FrontInv, FrontType
  <2>2. Stage = "packets" /\ Stage' = "packets"
    BY <2>1, StageOf, CommandProcessorAssumption DEF Stage, Critical
  <2> QED
    BY <2>1, <2>2, RendererAside DEF Aside
<1>5. CASE EndBuffer(t)
  <2>1. FrontInv' /\ UNCHANGED rendererVars /\ GPU_CONTEXT' = NoThread /\ pc[t] = "packets"
    BY <1>5, EndBufferKeeps DEF EndBuffer, Goes
  <2>2. Stage = "packets" /\ Stage' = "free"
    BY <2>1, StageOf DEF Stage, Critical
  <2> QED
    BY <2>1, <2>2, RendererAside DEF Aside
<1>6. CASE Pace(t)
  <2>1. FrameStep(t)
    BY <1>6 DEF Pace, Goes, FrameStep, Stages, Critical, FrontInv, FrontType
  <2>2. Stage' = Stage
    BY <1>6, StageOf, StageSame DEF Pace, Goes, Critical
  <2> QED
    BY <1>6, <2>1, <2>2, FrameStepKeeps, RendererAside DEF Pace
<1> QED
  BY <1>1, <1>2, <1>3, <1>4, <1>5, <1>6

\* The move of the thread that holds the mutex.
LEMMA HolderMoves ==
    ASSUME FrontInv, NEW t \in Threads, NEW l, NEW m, Goes(t, l, m),
           l \in Critical, GPU_CONTEXT' = GPU_CONTEXT
    PROVE  Stage = l /\ Stage' = m /\ pc[t] = l /\ pc'[t] = m /\ pc' = [pc EXCEPT ![t] = pc'[t]]
<1>1. pc[t] = l /\ pc' = [pc EXCEPT ![t] = m] /\ pc'[t] = m
  BY DEF Goes, FrontInv, FrontType
<1>2. Stage = l /\ GPU_CONTEXT = t
  BY <1>1, StageOf
<1> QED
  BY <1>1, <1>2, CommandProcessorAssumption DEF Stage

\* The steps of present_blank_frame keep them.
LEMMA PresentSteps ==
    ASSUME FrontInv, RenderInv, NEW t \in Threads, present_blank_frame(t)
    PROVE  FrontInv' /\ RenderInv'
<1>1. /\ UNCHANGED <<GPU_CONTEXT, regs, submit_count, frames_submitted, todo, offset, calls, start, stopped>>
      /\ frames_submitted \in Nat
  BY DEF present_blank_frame, FrontInv, FrontType
<1>2. CASE Goes(t, "wait", "acquire") /\ wait_for_fences
  <2>1. Stage = "wait" /\ Stage' = "acquire" /\ pc[t] = "wait" /\ pc'[t] = "acquire" /\ pc' = [pc EXCEPT ![t] = pc'[t]]
    BY <1>1, <1>2, HolderMoves DEF Critical
  <2>2. FrameStep(t)
    BY <1>1, <2>1 DEF FrameStep, Stages, Critical
  <2>3. RenderInv'
    BY <1>2, <2>1 DEF RenderInv, RenderTypes, FenceInv, ImagesInv, Held, wait_for_fences, FrameDone, FenceAfterWait
  <2> QED
    BY <2>2, <2>3, FrameStepKeeps
<1>3. CASE Goes(t, "acquire", "queue") /\ acquire_next_image
  <2>1. Stage = "acquire" /\ Stage' = "queue" /\ pc[t] = "acquire" /\ pc'[t] = "queue" /\ pc' = [pc EXCEPT ![t] = pc'[t]]
    BY <1>1, <1>3, HolderMoves DEF Critical
  <2>2. FrameStep(t)
    BY <1>1, <2>1 DEF FrameStep, Stages, Critical
  <2>3. RenderInv'
    BY <1>3, <2>1 DEF RenderInv, RenderTypes, FenceInv, ImagesInv, Held, acquire_next_image
  <2> QED
    BY <2>2, <2>3, FrameStepKeeps
<1>4. CASE Goes(t, "acquire", "done") /\ AcquireFails
  <2>1. Stage = "acquire" /\ Stage' = "done" /\ pc[t] = "acquire" /\ pc'[t] = "done" /\ pc' = [pc EXCEPT ![t] = pc'[t]]
    BY <1>1, <1>4, HolderMoves DEF Critical
  <2>2. FrameStep(t)
    BY <1>1, <2>1 DEF FrameStep, Stages, Critical
  <2>3. RenderInv'
    BY <1>4, <2>1 DEF RenderInv, RenderTypes, FenceInv, ImagesInv, Held, AcquireFails, rendererVars
  <2> QED
    BY <2>2, <2>3, FrameStepKeeps
<1>5. CASE Goes(t, "queue", "present") /\ queue_submit
  <2>1. Stage = "queue" /\ Stage' = "present" /\ pc[t] = "queue" /\ pc'[t] = "present" /\ pc' = [pc EXCEPT ![t] = pc'[t]]
    BY <1>1, <1>5, HolderMoves DEF Critical
  <2>2. FrameStep(t)
    BY <1>1, <2>1 DEF FrameStep, Stages, Critical
  <2>3. RenderInv'
    <3>1. /\ in_flight_fence = TRUE /\ image_available = TRUE /\ submitted = 0
          /\ in_flight_fence' = FALSE /\ image_available' = image_available
          /\ submitted' = submitted + 1
      BY <1>5, <2>1 DEF RenderInv, RenderTypes, FenceInv, queue_submit
    <3>2. submitted' = 1
      BY <3>1
    <3>3. RenderTypes'
      <4>1. submitted' \in Nat
        BY <3>2
      <4>2. in_flight_fence' \in BOOLEAN
        BY <3>1
      <4> QED
        BY <1>5, <4>1, <4>2, Zenon DEF RenderInv, RenderTypes, queue_submit
    <3>4. FenceInv'
      BY <2>1, <3>1, <3>2 DEF FenceInv
    <3>5. ImagesInv'
      BY <1>5, <2>1 DEF RenderInv, ImagesInv, Held, queue_submit
    <3> QED
      BY <3>3, <3>4, <3>5 DEF RenderInv
  <2> QED
    BY <2>2, <2>3, FrameStepKeeps
<1>6. CASE Goes(t, "present", "done") /\ queue_present
  <2>1. Stage = "present" /\ Stage' = "done" /\ pc[t] = "present" /\ pc'[t] = "done" /\ pc' = [pc EXCEPT ![t] = pc'[t]]
    BY <1>1, <1>6, HolderMoves DEF Critical
  <2>2. FrameStep(t)
    BY <1>1, <2>1 DEF FrameStep, Stages, Critical
  <2>3. RenderInv'
    BY <1>6, <2>1 DEF RenderInv, RenderTypes, FenceInv, ImagesInv, Held, queue_present
  <2> QED
    BY <2>2, <2>3, FrameStepKeeps
<1> QED
  BY <1>2, <1>3, <1>4, <1>5, <1>6 DEF present_blank_frame

\* The first and the last step of sceGnmSubmitDone, and the abort.
LEMMA SubmitDoneSteps ==
    ASSUME FrontInv, RenderInv, NEW t \in Threads,
           submit_done(t) \/ EndSubmitDone(t) \/ PresentPanics(t)
    PROVE  FrontInv' /\ RenderInv'
<1>1. CASE submit_done(t)
  <2> DEFINE m == IF renderer THEN "wait" ELSE "done"
  <2>1. /\ pc[t] = "guest" /\ pc' = [pc EXCEPT ![t] = m] /\ pc'[t] = m
        /\ GPU_CONTEXT = NoThread /\ GPU_CONTEXT' = t /\ UNCHANGED rendererVars
        /\ frames_submitted' \in Nat
        /\ UNCHANGED <<regs, submit_count, todo, offset, calls, start, stopped>>
    BY <1>1 DEF submit_done, Goes, GpuFree, FrontInv, FrontType
  <2>2. m \in {"wait", "done"}
    OBVIOUS
  <2> HIDE DEF m
  <2>3. FrameStep(t)
    BY <2>1, <2>2 DEF FrameStep, Stages, Critical
  <2>4. Stage = "free" /\ Stage' = m
    BY <2>1, CommandProcessorAssumption DEF Stage
  <2> QED
    BY <2>1, <2>2, <2>3, <2>4, FrameStepKeeps, RendererAside DEF Aside
<1>2. CASE EndSubmitDone(t)
  <2>1. /\ pc[t] = "done" /\ pc' = [pc EXCEPT ![t] = "guest"] /\ pc'[t] = "guest"
        /\ GPU_CONTEXT' = NoThread /\ UNCHANGED rendererVars
        /\ frames_submitted' \in Nat
        /\ UNCHANGED <<regs, submit_count, todo, offset, calls, start, stopped>>
    BY <1>2 DEF EndSubmitDone, Goes, FrontInv, FrontType
  <2>2. FrameStep(t)
    BY <2>1 DEF FrameStep, Stages, Critical
  <2>3. Stage = "done" /\ Stage' = "free"
    BY <2>1, StageOf DEF Stage, Critical
  <2> QED
    BY <2>1, <2>2, <2>3, FrameStepKeeps, RendererAside DEF Aside
<1>3. CASE PresentPanics(t)
  <2>1. FrontInv'
    BY <1>3 DEF PresentPanics, FrontInv, FrontType, MutexHeld, HasBuffer
  <2>2. Stage' = Stage
    BY <1>3 DEF PresentPanics, Stage
  <2> QED
    BY <1>3, <2>1, <2>2, RendererAside DEF PresentPanics
<1> QED
  BY <1>1, <1>2, <1>3

\* The device, the display and the window.
LEMMA OutsideSteps ==
    ASSUME FrontInv, RenderInv, Outside(Execute) \/ Outside(Show) \/ Outside(Resize)
    PROVE  FrontInv' /\ RenderInv'
<1>1. UNCHANGED <<GPU_CONTEXT, regs, submit_count, frames_submitted, pc, todo, offset, calls, start, stopped>>
  BY DEF Outside
<1>2. FrontInv'
  BY <1>1 DEF FrontInv, FrontType, MutexHeld, HasBuffer
<1>3. Stage' = Stage
  BY <1>1 DEF Stage
<1>4. Held' = Held
  BY <1>3 DEF Held
<1>5. CASE Execute
  <2>1. Stage # "queue" /\ submitted = 1
    BY <1>5 DEF Execute, RenderInv, RenderTypes, FenceInv
  <2>2. submitted' = 0 /\ image_available' = FALSE /\ in_flight_fence' = TRUE
    BY <1>5, <2>1 DEF Execute
  <2>3. RenderTypes'
    <3>1. submitted' \in Nat /\ rendered' \in Nat
      BY <1>5, <2>2 DEF Execute, RenderInv, RenderTypes
    <3>2. in_flight_fence' \in BOOLEAN /\ image_available' \in BOOLEAN
      BY <2>2
    <3> QED
      BY <1>5, <3>1, <3>2, Zenon DEF Execute, RenderInv, RenderTypes
  <2>4. FenceInv'
    BY <1>3, <2>1, <2>2 DEF FenceInv
  <2>5. ImagesInv'
    BY <1>4, <1>5 DEF Execute, RenderInv, ImagesInv
  <2> QED
    BY <1>2, <2>3, <2>4, <2>5 DEF RenderInv
<1>6. CASE Show
  <2>1. RenderTypes'
    BY <1>6 DEF Show, RenderInv, RenderTypes
  <2>2. FenceInv'
    BY <1>3, <1>6 DEF Show, RenderInv, FenceInv
  <2>3. Held \in Nat
    BY DEF Held
  <2>4. ImagesInv'
    BY <1>4, <1>6, <2>3 DEF Show, RenderInv, RenderTypes, ImagesInv
  <2> QED
    BY <1>2, <2>1, <2>2, <2>4 DEF RenderInv
<1>7. CASE Resize
  <2>1. RenderTypes'
    BY <1>7 DEF Resize, RenderInv, RenderTypes
  <2>2. FenceInv'
    BY <1>3, <1>7 DEF Resize, RenderInv, FenceInv
  <2>3. ImagesInv'
    BY <1>4, <1>7 DEF Resize, RenderInv, ImagesInv
  <2> QED
    BY <1>2, <2>1, <2>2, <2>3 DEF RenderInv
<1> QED
  BY <1>2, <1>5, <1>6, <1>7 DEF Outside

-----------------------------------------------------------------------------
(* The specification, for every buffer. *)

\* All registers are zero at first, and the renderer is idle.
LEMMA InitHolds ==
    ASSUME Init
    PROVE  FrontInv /\ RenderInv
<1>1. ZeroRegs \in RegFile
  <2>1. \A r \in Registers : Takes[r] \in Nat
    BY TakesType
  <2>2. ZeroWord \in Word
    BY DEF ZeroWord, Word, MaxCount
  <2>3. \A r \in Registers : ZeroRegs[r] = [i \in 1 .. Takes[r] |-> ZeroWord]
    BY DEF ZeroRegs
  <2>4. \A r \in Registers : ZeroRegs[r] \in Seq(Word) /\ Len(ZeroRegs[r]) = Takes[r]
    <3>1. \A k \in Nat : /\ [i \in 1 .. k |-> ZeroWord] \in [1 .. k -> Word]
                         /\ DOMAIN [i \in 1 .. k |-> ZeroWord] = 1 .. k
      BY <2>2
    <3>2. \A k \in Nat : /\ [i \in 1 .. k |-> ZeroWord] \in Seq(Word)
                         /\ Len([i \in 1 .. k |-> ZeroWord]) = k
      BY <2>2, <3>1
    <3> QED
      BY <2>1, <2>3, <3>2, Zenon
  <2>5. ZeroRegs \in [Registers -> Seq(Word)]
    BY <2>4 DEF ZeroRegs
  <2> QED
    BY <2>4, <2>5 DEF RegFile
<1>2. FrontType
  <2>1. <<>> \in Seq(AllBuffers)
    OBVIOUS
  <2> QED
    <3>1. calls \in [Threads -> 0 .. MaxCalls] /\ offset \in [Threads -> Nat]
      BY CommandProcessorAssumption DEF Init
    <3>2. stopped \in BOOLEAN
      BY DEF Init
    <3>3. pc \in [Threads -> Stages] /\ todo \in [Threads -> Seq(AllBuffers)] /\ start \in [Threads -> RegFile]
      BY <1>1, <2>1 DEF Init, Stages
    <3> QED
      BY <1>1, <3>1, <3>2, <3>3 DEF Init, FrontType
<1>3. MutexHeld /\ HasBuffer
  BY CommandProcessorAssumption DEF Init, MutexHeld, HasBuffer, Critical
<1>4. Stage = "free" /\ Held = 0
  BY DEF Init, Stage, Held
<1>5. RenderTypes
  BY RendererAssumption DEF Init, RendererInit, RenderTypes
<1>6. FenceInv
  BY <1>4 DEF Init, RendererInit, FenceInv
<1>7. ImagesInv
  BY <1>4, RendererAssumption DEF Init, RendererInit, ImagesInv
<1> QED
  BY <1>2, <1>3, <1>5, <1>6, <1>7 DEF FrontInv, RenderInv

\* Every step keeps both invariants.
LEMMA NextKeeps ==
    ASSUME FrontInv, RenderInv, [Next]_vars
    PROVE  FrontInv' /\ RenderInv'
<1>1. ASSUME NEW t \in Threads,
             \/ \E s \in Submissions[t] : Submit(t, s)
             \/ BeginBuffer(t) \/ submit_done(t) \/ Runs(t) \/ PresentPanics(t)
      PROVE  FrontInv' /\ RenderInv'
  BY <1>1, SubmissionSteps, PresentSteps, SubmitDoneSteps DEF Runs
<1>2. CASE Outside(Execute) \/ Outside(Show) \/ Outside(Resize)
  BY <1>2, OutsideSteps
<1>3. CASE UNCHANGED vars
  <2>1. FrontInv'
    BY <1>3 DEF vars, FrontInv, FrontType, MutexHeld, HasBuffer
  <2>2. Stage' = Stage
    BY <1>3 DEF vars, Stage
  <2>3. UNCHANGED rendererVars
    BY <1>3 DEF vars
  <2> QED
    BY <2>1, <2>2, <2>3, RendererAside
<1> QED
  BY <1>1, <1>2, <1>3 DEF Next

\* The invariants give the types the runs check.
LEMMA TypesHold ==
    ASSUME FrontInv, RenderInv
    PROVE  TypeOK
<1>1. \A r \in Registers : regs[r] \in Seq(Word) /\ Len(regs[r]) = Takes[r]
  BY DEF FrontInv, FrontType, RegFile
<1>2. \A t \in Threads : todo[t] \in Seq(Seq(Word))
  <2>1. SUFFICES ASSUME NEW t \in Threads PROVE todo[t] \in Seq(Seq(Word))
    OBVIOUS
  <2>2. todo[t] \in Seq(AllBuffers) /\ AllBuffers \subseteq Seq(Word)
    BY DEF FrontInv, FrontType, AllBuffers
  <2>3. Len(todo[t]) \in Nat /\ todo[t] \in [1 .. Len(todo[t]) -> Seq(Word)]
    BY <2>2
  <2> QED
    BY <2>3
<1>3. RendererType
  <2>1. free \in 0 .. ImageCount
    <3>1. Held \in Nat
      BY DEF Held
    <3> QED
      BY <3>1, RendererAssumption DEF RenderInv, RenderTypes, ImagesInv
  <2> QED
    BY <2>1 DEF RenderInv, RenderTypes, RendererType
<1> QED
  BY <1>1, <1>2, <1>3 DEF FrontInv, FrontType, Stages, TypeOK

\* A thread that is about to acquire finds the semaphore unused.
LEMMA SemaphoreFree ==
    ASSUME FrontInv, RenderInv
    PROVE  AcquireSemaphoreFree
<1>1. SUFFICES ASSUME NEW t \in Threads, pc[t] = "acquire"
               PROVE  ~image_available /\ submitted = 0
  BY DEF AcquireSemaphoreFree
<1>2. Stage = "acquire"
  BY <1>1, StageOf DEF Critical
<1> QED
  BY <1>2 DEF RenderInv, FenceInv

\* The state of the front end and of the renderer always has its type: no thread is
\* past the number of submissions, a decoded register has the words it takes, and no
\* more images are free than the swapchain has.
THEOREM TypesAlwaysHold == Spec => []TypeOK
<1>1. Init => FrontInv /\ RenderInv
  BY InitHolds
<1>2. FrontInv /\ RenderInv /\ [Next]_vars => FrontInv' /\ RenderInv'
  BY NextKeeps
<1>3. FrontInv /\ RenderInv => TypeOK
  BY TypesHold
<1> QED
  BY <1>1, <1>2, <1>3, PTL DEF Spec

\* acquire_next_image never passes a semaphore that is signaled or still waited for,
\* whoever presented the frames before, dropped or not.
THEOREM AcquireSemaphoreAlwaysFree == Spec => []AcquireSemaphoreFree
<1>1. Init => FrontInv /\ RenderInv
  BY InitHolds
<1>2. FrontInv /\ RenderInv /\ [Next]_vars => FrontInv' /\ RenderInv'
  BY NextKeeps
<1>3. FrontInv /\ RenderInv => AcquireSemaphoreFree
  BY SemaphoreFree
<1> QED
  BY <1>1, <1>2, <1>3, PTL DEF Spec

-----------------------------------------------------------------------------
(* The packet loop, for buffers without Type 0 packets. *)

\* No packet of a buffer is of Type 0: the loop steps over its header only, and takes
\* the words it has for headers (README.md, "Divergences").
NoType0 ==
    \A dcb \in AllBuffers : \A p \in PacketStarts(dcb) : dcb[p + 1].type # 0

\* In the loop, the offset is that of a packet or the end, and each register has the
\* value of the last packet before it that sets it.
BufferInv ==
    \A t \in Threads : pc[t] = "packets" =>
        /\ offset[t] \in PacketStarts(Head(todo[t])) \cup {Len(Head(todo[t]))}
        /\ \A r \in Registers :
              HasValue(Head(todo[t]), r, offset[t], start[t][r], regs[r])

\* The buffer of a thread in the loop.
LEMMA Current ==
    ASSUME FrontInv, NEW t \in Threads, pc[t] = "packets"
    PROVE  /\ Head(todo[t]) \in AllBuffers /\ Head(todo[t]) \in Seq(Word)
           /\ Len(Head(todo[t])) > 0
BY TodoFacts DEF FrontInv, FrontType, HasBuffer

\* A step that enters no loop, and changes nothing a thread in the loop sees.
LEMMA LoopUntouched ==
    ASSUME BufferInv,
           \A t \in Threads : pc'[t] = "packets" =>
                /\ pc[t] = "packets"
                /\ todo'[t] = todo[t] /\ offset'[t] = offset[t] /\ start'[t] = start[t]
                /\ regs' = regs
    PROVE  BufferInv'
BY DEF BufferInv

\* A buffer begins at its first packet, with the registers as they are.
LEMMA BeginBufferFramed ==
    ASSUME FrontInv, FrontInv', BufferInv, NEW t \in Threads, BeginBuffer(t)
    PROVE  BufferInv'
<1>1. /\ pc[t] = "submit" /\ pc' = [pc EXCEPT ![t] = "packets"]
      /\ offset' = [offset EXCEPT ![t] = 0]
      /\ start' = [start EXCEPT ![t] = regs]
      /\ UNCHANGED <<regs, todo>>
  BY DEF BeginBuffer, Goes
<1>2. \A u \in Threads \ {t} : pc'[u] = pc[u] /\ offset'[u] = offset[u] /\ start'[u] = start[u]
  BY <1>1 DEF FrontInv, FrontType
<1>3. pc'[t] = "packets" /\ offset'[t] = 0 /\ start'[t] = regs
  BY <1>1 DEF FrontInv, FrontType
<1> DEFINE dcb == Head(todo[t])
<1>4. dcb \in Seq(Word) /\ Len(dcb) > 0
  <2>1. /\ Head(todo'[t]) \in Seq(Word) /\ Len(Head(todo'[t])) > 0
    BY <1>3, TodoFacts DEF FrontInv, FrontType, HasBuffer
  <2> QED
    BY <1>1, <2>1
<1> HIDE DEF dcb
<1>5. 0 \in PacketStarts(dcb) /\ PacketStarts(dcb) \subseteq 0 .. Len(dcb) - 1
  BY <1>4, StartsLeast DEF HasStarts
<1>6. ASSUME NEW r \in Registers
      PROVE  HasValue(dcb, r, 0, regs[r], regs[r])
  <2>1. SettersBefore(dcb, r, 0) = {}
    <3>1. \A p \in 0 .. Len(dcb) - 1 : ~(p < 0)
      OBVIOUS
    <3> QED
      BY <1>5, <3>1 DEF SettersBefore, SettersOf
  <2> QED
    BY <2>1 DEF HasValue
<1>7. ASSUME NEW u \in Threads, pc'[u] = "packets"
      PROVE  /\ offset'[u] \in PacketStarts(Head(todo'[u])) \cup {Len(Head(todo'[u]))}
             /\ \A r \in Registers : HasValue(Head(todo'[u]), r, offset'[u], start'[u][r], regs'[r])
  <2>1. CASE u = t
    BY <1>1, <1>3, <1>5, <1>6, <2>1 DEF dcb
  <2>2. CASE u # t
    BY <1>1, <1>2, <1>7, <2>2 DEF BufferInv
  <2> QED
    BY <2>1, <2>2
<1> QED
  BY <1>7 DEF BufferInv

\* A turn of the loop moves to the next packet and sets what its packet sets.
LEMMA PacketFramed ==
    ASSUME NoType0, FrontInv, BufferInv, NEW t \in Threads, Packet(t)
    PROVE  BufferInv'
<1> DEFINE dcb == Head(todo[t])
           off == offset[t]
           header == dcb[off + 1]
<1>1. /\ pc[t] = "packets" /\ pc' = [pc EXCEPT ![t] = "packets"]
      /\ off < Len(dcb)
      /\ offset' = [offset EXCEPT ![t] = PacketEnd(dcb, off)]
      /\ UNCHANGED <<todo, start, GPU_CONTEXT>>
      /\ IF Pm4Type(header) = "Type3"
         THEN regs' = process_type3_packet(header.op, Body(dcb, off), regs)
         ELSE regs' = regs
  BY DEF Packet, Goes
<1>2. dcb \in AllBuffers /\ dcb \in Seq(Word) /\ Len(dcb) > 0
  BY <1>1, Current
<1>3. /\ off \in PacketStarts(dcb) \cup {Len(dcb)}
      /\ \A r \in Registers : HasValue(dcb, r, off, start[t][r], regs[r])
  BY <1>1 DEF BufferInv
<1> HIDE DEF dcb
<1>4. off \in PacketStarts(dcb)
  BY <1>1, <1>2, <1>3
<1>5. header.type # 0
  BY <1>2, <1>4 DEF NoType0
<1>6. ASSUME NEW r \in Registers
      PROVE  HasValue(dcb, r, PacketEnd(dcb, off), start[t][r], regs'[r])
  <2>1. regs'[r] = IF Pm4Type(header) = "Type3" /\ header.op = SetBy[r]
                       /\ Len(Body(dcb, off)) >= Takes[r]
                   THEN SubSeq(Body(dcb, off), 1, Takes[r]) ELSE regs[r]
    BY <1>1 DEF process_type3_packet
  <2> QED
    BY <1>2, <1>3, <1>4, <1>5, <2>1, PacketSets
<1>7. PacketEnd(dcb, off) \in PacketStarts(dcb) \cup {Len(dcb)}
  BY <1>2, <1>4, <1>5, PacketEndFramed
<1>8. ASSUME NEW u \in Threads, pc'[u] = "packets"
      PROVE  /\ u = t
             /\ offset'[u] = PacketEnd(dcb, off)
  <2>1. u = t
    <3>1. GPU_CONTEXT = t
      BY <1>1 DEF FrontInv, MutexHeld, Critical
    <3>2. u # t => pc[u] = "packets"
      BY <1>1, <1>8 DEF FrontInv, FrontType
    <3>3. u # t => GPU_CONTEXT = u
      BY <3>2 DEF FrontInv, MutexHeld, Critical
    <3> QED
      BY <3>1, <3>3
  <2> QED
    BY <1>1, <2>1 DEF FrontInv, FrontType
<1>9. todo' = todo /\ start' = start
  BY <1>1
<1> QED
  BY <1>6, <1>7, <1>8, <1>9 DEF BufferInv, dcb

\* The other steps change nothing a thread in the loop sees.
LEMMA OthersFramed ==
    ASSUME FrontInv, BufferInv, NEW t \in Threads,
           \/ \E s \in Submissions[t] : Submit(t, s)
           \/ SkipBuffer(t) \/ EndBuffer(t) \/ Pace(t) \/ submit_done(t)
           \/ present_blank_frame(t) \/ EndSubmitDone(t) \/ PresentPanics(t)
    PROVE  BufferInv'
<1> DEFINE Moves(m) == m # "packets" /\ pc' = [pc EXCEPT ![t] = m]
                       /\ regs' = regs /\ offset' = offset /\ start' = start
                       /\ \A u \in Threads \ {t} : todo'[u] = todo[u]
<1>1. ASSUME NEW m, Moves(m)
      PROVE  BufferInv'
  <2>1. pc'[t] # "packets" /\ \A u \in Threads \ {t} : pc'[u] = pc[u]
    BY <1>1 DEF FrontInv, FrontType
  <2> QED
    BY <1>1, <2>1, LoopUntouched
<1>2. CASE PresentPanics(t)
  BY <1>2, LoopUntouched DEF PresentPanics
<1>3. CASE \E s \in Submissions[t] : Submit(t, s)
  <2>1. Moves("submit")
    BY <1>3 DEF Submit, Goes, FrontInv, FrontType
  <2> QED
    BY <1>1, <2>1
<1>4. CASE SkipBuffer(t) \/ EndBuffer(t)
  <2>1. Moves("submit")
    BY <1>4 DEF SkipBuffer, EndBuffer, Goes, FrontInv, FrontType
  <2> QED
    BY <1>1, <2>1
<1>5. CASE Pace(t) \/ EndSubmitDone(t)
  <2>1. Moves("guest")
    BY <1>5 DEF Pace, EndSubmitDone, Goes
  <2> QED
    BY <1>1, <2>1
<1>6. CASE submit_done(t)
  <2>1. Moves(IF renderer THEN "wait" ELSE "done")
    BY <1>6 DEF submit_done, Goes
  <2> QED
    BY <1>1, <2>1
<1>7. CASE present_blank_frame(t)
  <2>1. \E m \in {"acquire", "queue", "present", "done"} : Moves(m)
    BY <1>7 DEF present_blank_frame, Goes
  <2> QED
    BY <1>1, <2>1
<1> QED
  BY <1>2, <1>3, <1>4, <1>5, <1>6, <1>7

\* Every step keeps the loop on its packets.
LEMMA NextFramed ==
    ASSUME NoType0, FrontInv, FrontInv', BufferInv, [Next]_vars
    PROVE  BufferInv'
<1>1. ASSUME NEW t \in Threads,
             \/ \E s \in Submissions[t] : Submit(t, s)
             \/ BeginBuffer(t) \/ submit_done(t) \/ Runs(t) \/ PresentPanics(t)
      PROVE  BufferInv'
  BY <1>1, BeginBufferFramed, PacketFramed, OthersFramed DEF Runs
<1>2. CASE Outside(Execute) \/ Outside(Show) \/ Outside(Resize)
  BY <1>2, LoopUntouched DEF Outside
<1>3. CASE UNCHANGED vars
  BY <1>3, LoopUntouched DEF vars
<1> QED
  BY <1>1, <1>2, <1>3 DEF Next

\* Nothing is in the loop at first.
LEMMA InitFramed ==
    ASSUME Init
    PROVE  BufferInv
BY DEF Init, BufferInv

\* process_command_buffer takes a word for a header only where a packet begins and
\* stops at the end of the buffer exactly, for every buffer without Type 0 packets.
THEOREM AlwaysFramed ==
    ASSUME NoType0
    PROVE  Spec => []Framed
<1>1. Init => FrontInv /\ RenderInv /\ BufferInv
  BY InitHolds, InitFramed
<1>2. FrontInv /\ RenderInv /\ BufferInv /\ [Next]_vars => FrontInv' /\ RenderInv' /\ BufferInv'
  BY NextKeeps, NextFramed
<1>3. FrontInv /\ RenderInv /\ BufferInv => Framed
  BY TypesHold DEF Framed, BufferInv
<1> QED
  BY <1>1, <1>2, <1>3, PTL DEF Spec

\* A buffer that has been processed has left in each register what its last complete
\* packet for it sets, whatever other threads submit and present meanwhile, for every
\* buffer without Type 0 packets.
THEOREM BufferAlwaysTakesEffect ==
    ASSUME NoType0
    PROVE  Spec => []BufferTakesEffect
<1>1. Init => FrontInv /\ RenderInv /\ BufferInv
  BY InitHolds, InitFramed
<1>2. FrontInv /\ RenderInv /\ BufferInv /\ [Next]_vars => FrontInv' /\ RenderInv' /\ BufferInv'
  BY NextKeeps, NextFramed
<1>3. FrontInv /\ BufferInv => BufferTakesEffect
  <2>1. SUFFICES ASSUME FrontInv, BufferInv, NEW t \in Threads, pc[t] = "packets",
                        offset[t] = Len(Head(todo[t])), NEW r \in Registers
                 PROVE  regs[r] = FinalValue(Head(todo[t]), r, start[t][r])
    BY DEF BufferTakesEffect
  <2>2. HasValue(Head(todo[t]), r, Len(Head(todo[t])), start[t][r], regs[r])
    BY <2>1 DEF BufferInv
  <2>3. Head(todo[t]) \in Seq(Word) /\ Len(Head(todo[t])) > 0
    BY <2>1, Current
  <2> QED
    BY <2>2, <2>3, ValueIsFinal
<1> QED
  BY <1>1, <1>2, <1>3, PTL DEF Spec

=============================================================================
