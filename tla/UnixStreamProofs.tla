-------------------------- MODULE UnixStreamProofs --------------------------
(***************************************************************************)
(* A connection of transport_unix.c never loses step and is a queue of     *)
(* whole frames, for every payload size, every socket buffer and every     *)
(* number of frames, with short writes or without.                         *)
(***************************************************************************)
EXTENDS UnixStream, SequenceTheorems, TLAPS

FrameSize == HeaderSize + PayloadSize

Byte == (1 .. MaxFrames) \X (1 .. HeaderSize + PayloadSize)

(***************************************************************************)
(* The invariant.  A stream is a run: from any byte on, the bytes count up *)
(* to the end of its frame, and then comes the first of the next frame.    *)
(***************************************************************************)
Run(s) ==
    \A i, j \in DOMAIN s :
      LET b == s[i][2] + (j - i)
      IN  i <= j /\ b <= FrameSize + 1 =>
            s[j] = IF b <= FrameSize THEN <<s[i][1], b>> ELSE <<s[i][1] + 1, 1>>

\* The byte that e expects from the other end.
Expected(e) ==
    <<Len(delivered[e]) + 1, IF left[e] = 0 THEN 1 ELSE FrameSize - left[e] + 1>>

\* The last byte that e has written whole, and the one it writes next.
LastOut(e) == IF writing[e] THEN <<written[e] + 1, HeaderSize>> ELSE <<written[e], FrameSize>>
NextOut(e) == <<written[e] + 1, IF writing[e] THEN HeaderSize + 1 ELSE 1>>

\* A frame is complete on the stream only when its send has returned 0.
Whole(e) ==
    \A i \in DOMAIN stream[e] :
      \/ stream[e][i][1] <= written[e]
      \/ stream[e][i][1] = written[e] + 1 /\ stream[e][i][2] < FrameSize

(* While both ends are open, the writer goes on where the stream ends, and *)
(* the reader where it begins; a closed reader leaves nothing behind.      *)
InStep(e) ==
    LET r == Other[e]
    IN  /\ stream[e] # <<>> /\ open[r] => stream[e][1] = Expected(r)
        /\ stream[e] # <<>> /\ open[r] /\ open[e] => stream[e][Len(stream[e])] = LastOut(e)
        /\ stream[e] = <<>> /\ open[r] /\ open[e] => Expected(r) = NextOut(e)
        /\ ~open[r] => stream[e] = <<>>

Local(e) ==
    /\ ~open[e] => ~writing[e] /\ left[e] = 0
    /\ writing[e] => written[e] < MaxFrames

Direction(e) == Run(stream[e]) /\ Whole(e) /\ InStep(e) /\ Local(e)

StreamInv == TypeOK /\ \A e \in End : Direction(e)

(***************************************************************************)
(* Sequences: cut at the front, and continued at the back.                 *)
(***************************************************************************)
\* Where the elements of s are once its first k are gone.
LEMMA Cut ==
    ASSUME NEW S, NEW s \in Seq(S), NEW k \in 0 .. Len(s)
    PROVE  /\ SubSeq(s, k + 1, Len(s)) \in Seq(S)
           /\ Len(SubSeq(s, k + 1, Len(s))) = Len(s) - k
           /\ \A i \in 1 .. Len(s) - k : SubSeq(s, k + 1, Len(s))[i] = s[k + i]
OBVIOUS

\* The first k elements of s.
LEMMA Prefix ==
    ASSUME NEW S, NEW s \in Seq(S), NEW k \in 0 .. Len(s)
    PROVE  /\ SubSeq(s, 1, k) \in Seq(S)
           /\ Len(SubSeq(s, 1, k)) = k
           /\ \A i \in 1 .. k : SubSeq(s, 1, k)[i] = s[i]
OBVIOUS

\* Where the elements of s and t are in s \o t.
LEMMA Concat ==
    ASSUME NEW S, NEW s \in Seq(S), NEW t \in Seq(S)
    PROVE  /\ s \o t \in Seq(S)
           /\ Len(s \o t) = Len(s) + Len(t)
           /\ \A i \in 1 .. Len(s) : (s \o t)[i] = s[i]
           /\ \A i \in 1 .. Len(t) : (s \o t)[Len(s) + i] = t[i]
OBVIOUS

\* A sequence of bytes, element by element.
LEMMA Bytes ==
    ASSUME NEW s \in Seq(Byte)
    PROVE  /\ Len(s) \in Nat
           /\ DOMAIN s = 1 .. Len(s)
           /\ s = <<>> <=> Len(s) = 0
           /\ \A i \in 1 .. Len(s) : /\ s[i][1] \in 1 .. MaxFrames
                                     /\ s[i][2] \in 1 .. FrameSize
                                     /\ s[i] = <<s[i][1], s[i][2]>>
<1>1. Len(s) \in Nat /\ DOMAIN s = 1 .. Len(s) /\ (s = <<>> <=> Len(s) = 0)
  BY EmptySeq, LenProperties
<1>2. \A i \in 1 .. Len(s) : s[i] \in Byte
  BY ElementOfSeq
<1> QED BY <1>1, <1>2 DEF Byte, FrameSize

(***************************************************************************)
(* Runs: read at the front, and written at the back.                       *)
(***************************************************************************)
\* The byte at place j is in the frame of the one at place i, or the first of the next.
Reaches(t, i, j) == t[i][2] + (j - i) <= FrameSize + 1

\* What is left of a run when its first k bytes have been read is a run.
LEMMA RunSuffix ==
    ASSUME NEW s \in Seq(Byte), Run(s), NEW k \in 0 .. Len(s)
    PROVE  Run(SubSeq(s, k + 1, Len(s)))
<1> DEFINE t == SubSeq(s, k + 1, Len(s))
<1>1. /\ t \in Seq(Byte)
      /\ Len(t) = Len(s) - k
      /\ \A i \in 1 .. Len(s) - k : t[i] = s[k + i]
  BY Cut
<1>2. Len(s) \in Nat /\ DOMAIN s = 1 .. Len(s)
  BY Bytes
<1> HIDE DEF t
<1>3. DOMAIN t = 1 .. Len(s) - k
  BY <1>1, Bytes
<1>4. ASSUME NEW i \in 1 .. Len(s) - k, NEW j \in 1 .. Len(s) - k, i <= j
      PROVE  /\ k + i \in 1 .. Len(s) /\ k + j \in 1 .. Len(s)
             /\ k + i <= k + j /\ (k + j) - (k + i) = j - i
  BY <1>2, <1>4
<1> SUFFICES ASSUME NEW i \in 1 .. Len(s) - k, NEW j \in 1 .. Len(s) - k,
                    i <= j, Reaches(t, i, j)
             PROVE  t[j] = IF t[i][2] + (j - i) <= FrameSize
                             THEN <<t[i][1], t[i][2] + (j - i)>>
                             ELSE <<t[i][1] + 1, 1>>
  BY <1>3 DEF Run, Reaches, t
<1>5. t[i] = s[k + i] /\ t[j] = s[k + j]
  BY <1>1
<1>6. /\ k + i \in DOMAIN s /\ k + j \in DOMAIN s
      /\ k + i <= k + j /\ (k + j) - (k + i) = j - i
  BY <1>2, <1>4
<1>7. s[k + i][2] + ((k + j) - (k + i)) <= FrameSize + 1
  <2>1. t[i][2] + (j - i) <= FrameSize + 1
    BY Zenon DEF Reaches
  <2>2. s[k + i][2] + (j - i) <= FrameSize + 1
    BY <1>5, <2>1, Zenon
  <2>3. j - i = (k + j) - (k + i)
    BY <1>6, Zenon
  <2> QED BY <2>2, <2>3, Zenon
<1>8. s[k + j] = IF s[k + i][2] + ((k + j) - (k + i)) <= FrameSize
                   THEN <<s[k + i][1], s[k + i][2] + ((k + j) - (k + i))>>
                   ELSE <<s[k + i][1] + 1, 1>>
  BY <1>6, <1>7, Zenon DEF Run
<1> QED BY <1>5, <1>6, <1>8, Zenon

(* A run is continued by n bytes of frame k, after its first b: those      *)
(* before them are the end of the run, if it has any bytes.                *)
LEMMA RunContinued ==
    ASSUME NEW s \in Seq(Byte), Run(s),
           NEW ext \in Seq(Byte), NEW k \in Nat, NEW b \in Nat, b + Len(ext) <= FrameSize,
           \A i \in 1 .. Len(ext) : ext[i] = <<k, b + i>>,
           s # <<>> => s[Len(s)] = IF b = 0 THEN <<k - 1, FrameSize>> ELSE <<k, b>>
    PROVE  Run(s \o ext)
<1> DEFINE t == s \o ext
           L == Len(s)
           N == Len(ext)
<1>1. /\ t \in Seq(Byte)
      /\ Len(t) = L + N
      /\ \A i \in 1 .. L : t[i] = s[i]
      /\ \A i \in 1 .. N : t[L + i] = ext[i]
      /\ \A i \in 1 .. N : t[L + i] = <<k, b + i>>
  <2>1. /\ t \in Seq(Byte)
        /\ Len(t) = L + N
        /\ \A i \in 1 .. L : t[i] = s[i]
        /\ \A i \in 1 .. N : t[L + i] = ext[i]
    BY Concat
  <2>2. \A i \in 1 .. N : ext[i] = <<k, b + i>>
    OBVIOUS
  <2> QED BY <2>1, <2>2, Zenon
<1>2. L \in Nat /\ DOMAIN s = 1 .. L /\ (s = <<>> <=> L = 0) /\ N \in Nat /\ b + N <= FrameSize
  BY Bytes
<1>3. FrameSize \in Nat
  BY StreamAssumption DEF FrameSize, HeaderSize
<1>4. \A i \in 1 .. L : s[i][1] \in Nat /\ s[i][2] \in Nat
  BY Bytes
<1> HIDE DEF t, L, N
<1>5. DOMAIN t = 1 .. L + N
  BY <1>1, Bytes
<1> SUFFICES ASSUME NEW i \in 1 .. L + N, NEW j \in 1 .. L + N,
                    i <= j, Reaches(t, i, j)
             PROVE  t[j] = IF t[i][2] + (j - i) <= FrameSize
                             THEN <<t[i][1], t[i][2] + (j - i)>>
                             ELSE <<t[i][1] + 1, 1>>
  BY <1>5 DEF Run, Reaches, t
<1>6. CASE j <= L
  <2>1. i \in 1 .. L /\ j \in 1 .. L
    BY <1>2, <1>6
  <2> QED BY <1>1, <1>2, <2>1 DEF Run, Reaches
<1>7. CASE i > L
  <2>1. PICK d \in 1 .. N : i = L + d
    <3>1. i - L \in 1 .. N /\ i = L + (i - L)
      BY <1>2, <1>7
    <3> QED BY <3>1
  <2>2. PICK m \in 1 .. N : j = L + m
    <3>1. j - L \in 1 .. N /\ j = L + (j - L)
      BY <1>2, <1>7
    <3> QED BY <3>1
  <2>3. t[i] = <<k, b + d>> /\ t[j] = <<k, b + m>>
    BY <1>1, <2>1, <2>2
  <2>4. (b + d) + (j - i) = b + m /\ b + m <= FrameSize
    BY <1>2, <1>3, <2>1, <2>2
  <2> QED BY <2>3, <2>4
<1>8. CASE i <= L /\ j > L
  <2>1. PICK m \in 1 .. N : j = L + m
    <3>1. j - L \in 1 .. N /\ j = L + (j - L)
      BY <1>2, <1>8
    <3> QED BY <3>1
  <2>2. /\ i \in 1 .. L /\ L \in 1 .. L /\ s # <<>>
        /\ t[i] = s[i] /\ t[j] = <<k, b + m>>
    <3>1. i \in 1 .. L /\ L \in 1 .. L /\ L # 0
      BY <1>2, <1>8
    <3>2. s # <<>>
      BY <1>2, <3>1
    <3> QED BY <1>1, <2>1, <3>1, <3>2
  <2>3. PICK q \in Nat, p \in Nat : q = s[i][1] /\ p = s[i][2] /\ p + (j - i) <= FrameSize + 1
    <3>1. s[i][2] + (j - i) <= FrameSize + 1
      BY <2>2, Zenon DEF Reaches
    <3> QED BY <1>4, <2>2, <3>1, Zenon
  <2>4. /\ i \in Nat /\ L \in Nat /\ m \in Nat /\ i <= L /\ m >= 1
        /\ (j - i) = (L - i) + m
    BY <1>2, <1>8, <2>1
  <2>5. p + (L - i) <= FrameSize /\ p + (j - i) = p + (L - i) + m
    <3>1. p \in Nat /\ p + ((L - i) + m) <= FrameSize + 1
      BY <2>3, <2>4
    <3> QED BY <1>3, <2>4, <3>1
  <2>6. s[L] = <<q, p + (L - i)>>
    <3>1. i \in DOMAIN s /\ L \in DOMAIN s
      BY <1>2, <2>2
    <3>2. p + (L - i) <= FrameSize + 1
      BY <1>2, <1>3, <2>4, <2>5
    <3>3. Run(s)
      OBVIOUS
    <3> QED BY <2>3, <2>4, <2>5, <3>1, <3>2, <3>3, Zenon DEF Run
  <2>7. s[L] = IF b = 0 THEN <<k - 1, FrameSize>> ELSE <<k, b>>
    BY <2>2 DEF L
  <2>8. CASE b = 0
    <3>1. q = k - 1 /\ p + (L - i) = FrameSize
      BY <2>6, <2>7, <2>8
    <3>2. q + 1 = k
      BY <3>1
    <3>3. m = 1 /\ p + (j - i) = FrameSize + 1 /\ ~(p + (j - i) <= FrameSize)
      BY <1>3, <2>3, <2>4, <2>5, <3>1
    <3> QED BY <2>2, <2>3, <2>8, <3>2, <3>3
  <2>9. CASE b # 0
    <3>1. q = k /\ p + (L - i) = b
      BY <2>6, <2>7, <2>9
    <3>2. b + m <= FrameSize
      BY <1>2, <1>3, <2>1
    <3>3. p + (j - i) = b + m /\ p + (j - i) <= FrameSize
      BY <2>5, <3>1, <3>2
    <3> QED BY <2>2, <2>3, <3>1, <3>3
  <2> QED BY <2>8, <2>9
<1> QED BY <1>2, <1>6, <1>7, <1>8

(***************************************************************************)
(* The ends.                                                               *)
(***************************************************************************)
\* The two ends of a connection are each other's other end.
LEMMA Ends ==
    ASSUME NEW e \in End
    PROVE  /\ Other[e] \in End /\ Other[e] # e /\ Other[Other[e]] = e
           /\ \A x \in End : x # Other[e] => Other[x] # e
BY StreamAssumption

\* The sizes.
LEMMA Sizes ==
    /\ HeaderSize = 2 /\ PayloadSize \in Nat \ {0}
    /\ FrameSize \in Nat /\ FrameSize = HeaderSize + PayloadSize /\ FrameSize >= 3
    /\ SockBuf \in Nat /\ MaxFrames \in Nat
BY StreamAssumption DEF HeaderSize, FrameSize

\* What TypeOK says of one end.
LEMMA EndTypes ==
    ASSUME TypeOK, NEW e \in End
    PROVE  /\ stream[e] \in Seq(Byte) /\ Len(stream[e]) <= SockBuf
           /\ open[e] \in BOOLEAN /\ alive[e] \in BOOLEAN /\ writing[e] \in BOOLEAN
           /\ left[e] \in 0 .. PayloadSize
           /\ written[e] \in 0 .. MaxFrames
           /\ delivered[e] \in Seq(1 .. MaxFrames) /\ Len(delivered[e]) \in Nat
<1>1. delivered[e] \in Seq(1 .. MaxFrames)
  BY DEF TypeOK
<1>2. Len(delivered[e]) \in Nat
  BY <1>1, LenProperties
<1> QED BY <1>1, <1>2 DEF TypeOK, Byte

\* The direction from an end that a step does not touch.
LEMMA Untouched ==
    ASSUME NEW x \in End, Direction(x),
           stream'[x] = stream[x], open'[x] = open[x], writing'[x] = writing[x],
           left'[x] = left[x], written'[x] = written[x],
           open'[Other[x]] = open[Other[x]], left'[Other[x]] = left[Other[x]],
           delivered'[Other[x]] = delivered[Other[x]]
    PROVE  Direction(x)'
<1>1. Run(stream[x])' /\ Whole(x)' /\ Local(x)'
  BY DEF Direction, Run, Whole, Local
<1>2. Expected(Other[x])' = Expected(Other[x]) /\ LastOut(x)' = LastOut(x) /\ NextOut(x)' = NextOut(x)
  BY DEF Expected, LastOut, NextOut
<1>3. InStep(x)'
  BY <1>2 DEF Direction, InStep
<1> QED BY <1>1, <1>3 DEF Direction

\* A direction on which nothing is left and nothing is to come.
LEMMA Emptied ==
    ASSUME NEW x \in End, stream'[x] = <<>>, ~open'[Other[x]], Local(x)'
    PROVE  Direction(x)'
<1>1. DOMAIN stream'[x] = {}
  OBVIOUS
<1> QED BY <1>1 DEF Direction, Run, Whole, InStep

(* The effect of closing an end: nothing is on the way to it, and what it  *)
(* wrote is as it was.                                                     *)
LEMMA ShutStep ==
    ASSUME StreamInv, NEW e \in End, open[e], Shut(e),
           alive' \in [End -> BOOLEAN],
           stream' = [stream EXCEPT ![Other[e]] = <<>>],
           UNCHANGED <<written, delivered>>
    PROVE  StreamInv'
<1> DEFINE r == Other[e]
<1>1. r \in End /\ r # e /\ Other[r] = e /\ \A x \in End : x # r => Other[x] # e
  BY Ends
<1>2. TypeOK /\ \A x \in End : Direction(x)
  BY DEF StreamInv
<1>3. /\ open'[e] = FALSE /\ writing'[e] = FALSE /\ left'[e] = 0 /\ stream'[r] = <<>>
      /\ \A x \in End : /\ x # e => open'[x] = open[x] /\ writing'[x] = writing[x] /\ left'[x] = left[x]
                        /\ x # r => stream'[x] = stream[x]
  BY <1>1, <1>2 DEF Shut, TypeOK
<1>4. TypeOK'
  <2>1. <<>> \in Seq((1 .. MaxFrames) \X (1 .. HeaderSize + PayloadSize)) /\ Len(<<>>) <= SockBuf
    BY Sizes, EmptySeq
  <2>2. /\ stream' \in [End -> Seq((1 .. MaxFrames) \X (1 .. HeaderSize + PayloadSize))]
        /\ \A x \in End : Len(stream'[x]) <= SockBuf
    BY <1>1, <1>2, <1>3, <2>1 DEF TypeOK
  <2>3. 0 \in 0 .. PayloadSize
    BY Sizes
  <2> QED BY <1>2, <2>2, <2>3 DEF TypeOK, Shut
<1>5. Direction(e)'
  <2>1. Run(stream[e])' /\ Whole(e)' /\ Local(e)'
    BY <1>1, <1>2, <1>3 DEF Direction, Run, Whole, Local
  <2>2. Expected(r)' = Expected(r)
    BY <1>1, <1>3 DEF Expected
  <2>3. InStep(e)'
    BY <1>1, <1>2, <1>3, <2>2 DEF Direction, InStep
  <2> QED BY <2>1, <2>3 DEF Direction
<1>6. Direction(r)'
  <2>1. Local(r)'
    BY <1>1, <1>2, <1>3 DEF Direction, Local
  <2> QED BY <1>1, <1>3, <2>1, Emptied
<1>7. ASSUME NEW x \in End, x # e, x # r PROVE Direction(x)'
  <2>1. Other[x] # e /\ Other[x] \in End
    BY <1>1, <1>7, Ends
  <2> QED BY <1>2, <1>3, <1>7, <2>1, Untouched
<1> QED BY <1>4, <1>5, <1>6, <1>7 DEF StreamInv

(***************************************************************************)
(* Writes.                                                                 *)
(***************************************************************************)
\* A write() takes no more than it is given, nor than the buffer has room for.
LEMMA TakenBounds ==
    ASSUME TypeOK, NEW e \in End, NEW n \in Nat
    PROVE  /\ Taken(e, n) \in 0 .. n
           /\ Len(stream[e]) + Taken(e, n) <= SockBuf
           /\ WholeWrite(e, n) <=> Taken(e, n) = n
<1>1. Len(stream[e]) \in Nat /\ Len(stream[e]) <= SockBuf /\ SockBuf \in Nat
  BY EndTypes, Bytes, Sizes
<1> DEFINE free == SockBuf - Len(stream[e])
<1>2. Taken(e, n) = IF free >= n THEN n ELSE IF ShortWrites THEN free ELSE 0
  BY Zenon DEF Taken
<1>3. free \in Nat /\ Len(stream[e]) + free = SockBuf
  BY <1>1
<1> HIDE DEF free
<1>4. Taken(e, n) \in 0 .. n /\ Taken(e, n) <= free
  <2>1. CASE free >= n
    BY <1>2, <1>3, <2>1
  <2>2. CASE ~(free >= n) /\ ShortWrites
    BY <1>2, <1>3, <2>2
  <2>3. CASE ~(free >= n) /\ ~ShortWrites
    BY <1>2, <1>3, <2>3
  <2> QED BY <2>1, <2>2, <2>3
<1>5. WholeWrite(e, n) <=> Taken(e, n) = n
  BY Zenon DEF WholeWrite
<1> QED BY <1>1, <1>3, <1>4, <1>5

(* The stream after a write() of some bytes of the frame that is being     *)
(* sent: a run still, which begins where it began or where the reader      *)
(* waits, and ends with the last byte taken.                               *)
Extended(e, ext, b, out) ==
    /\ out \in Seq(Byte) /\ Len(out) = Len(stream[e]) + Len(ext) /\ Run(out)
    /\ out # <<>> => out[1] = Expected(Other[e])
    /\ ext # <<>> => out # <<>> /\ out[Len(out)] = <<written[e] + 1, b + Len(ext)>>
    /\ \A i \in DOMAIN out :
         \/ out[i][1] <= written[e]
         \/ out[i][1] = written[e] + 1 /\ out[i][2] < FrameSize
         \/ out[i][1] = written[e] + 1 /\ out[i][2] <= b + Len(ext)

LEMMA Written ==
    ASSUME StreamInv, NEW e \in End, open[e], open[Other[e]],
           NEW ext \in Seq(Byte), NEW b \in Nat, b + Len(ext) <= FrameSize,
           b = IF writing[e] THEN HeaderSize ELSE 0,
           \A i \in 1 .. Len(ext) : ext[i] = <<written[e] + 1, b + i>>
    PROVE  Extended(e, ext, b, stream[e] \o ext)
<1> DEFINE s == stream[e]
           out == s \o ext
           L == Len(s)
           N == Len(ext)
           k == written[e] + 1
<1>1. /\ TypeOK /\ Run(s) /\ Whole(e) /\ InStep(e)
      /\ s \in Seq(Byte) /\ written[e] \in Nat /\ k \in Nat /\ writing[e] \in BOOLEAN
  BY EndTypes DEF StreamInv, Direction
<1>2. /\ L \in Nat /\ DOMAIN s = 1 .. L /\ (s = <<>> <=> L = 0)
      /\ N \in Nat /\ (ext = <<>> <=> N = 0)
  BY <1>1, Bytes
<1>3. /\ out \in Seq(Byte)
      /\ Len(out) = L + N
      /\ \A i \in 1 .. L : out[i] = s[i]
      /\ \A i \in 1 .. N : out[L + i] = ext[i]
      /\ \A i \in 1 .. N : out[L + i] = <<k, b + i>>
  BY <1>1, Concat
<1>4. DOMAIN out = 1 .. L + N /\ (out = <<>> <=> L + N = 0)
  BY <1>3, Bytes
<1>5. s # <<>> => s[L] = IF b = 0 THEN <<k - 1, FrameSize>> ELSE <<k, b>>
  <2>1. s # <<>> => s[L] = LastOut(e)
    BY <1>1 DEF InStep
  <2>2. LastOut(e) = IF b = 0 THEN <<k - 1, FrameSize>> ELSE <<k, b>>
    <3>1. CASE writing[e]
      BY <3>1, Sizes DEF LastOut
    <3>2. CASE ~writing[e]
      <4>1. k - 1 = written[e] /\ b = 0
        BY <1>1, <3>2
      <4> QED BY <3>2, <4>1 DEF LastOut
    <3> QED BY <3>1, <3>2
  <2> QED BY <2>1, <2>2
<1>6. Run(out)
  BY <1>1, <1>5, RunContinued
<1>7. out # <<>> => out[1] = Expected(Other[e])
  <2>1. CASE L > 0
    <3>1. s # <<>> /\ out[1] = s[1]
      BY <1>2, <1>3, <2>1
    <3> QED BY <1>1, <3>1 DEF InStep
  <2>2. CASE L = 0
    <3>1. s = <<>> /\ Expected(Other[e]) = NextOut(e)
      BY <1>1, <1>2, <2>2 DEF InStep
    <3>2. NextOut(e) = <<k, b + 1>>
      BY <1>1, Sizes DEF NextOut
    <3>3. out # <<>> => out[1] = <<k, b + 1>>
      <4>1. out # <<>> => 1 \in 1 .. N /\ L + 1 = 1
        BY <1>2, <1>4, <2>2
      <4> QED BY <1>3, <4>1
    <3> QED BY <3>1, <3>2, <3>3
  <2> QED BY <1>2, <2>1, <2>2
<1>8. ext # <<>> => out # <<>> /\ out[Len(out)] = <<k, b + N>>
  <2>1. ext # <<>> => N \in 1 .. N /\ L + N # 0
    BY <1>2
  <2> QED BY <1>3, <1>4, <2>1
<1>9. ASSUME NEW i \in DOMAIN out
      PROVE  \/ out[i][1] <= written[e]
             \/ out[i][1] = written[e] + 1 /\ out[i][2] < FrameSize
             \/ out[i][1] = written[e] + 1 /\ out[i][2] <= b + Len(ext)
  <2>1. CASE i <= L
    <3>1. i \in DOMAIN s /\ out[i] = s[i]
      BY <1>2, <1>3, <1>4, <2>1
    <3> QED BY <1>1, <3>1 DEF Whole
  <2>2. CASE i > L
    <3>1. PICK d \in 1 .. N : i = L + d
      <4>1. i - L \in 1 .. N /\ i = L + (i - L)
        BY <1>2, <1>4, <2>2
      <4> QED BY <4>1
    <3>2. out[i] = <<k, b + d>> /\ b + d <= b + N
      BY <1>2, <1>3, <3>1
    <3> QED BY <3>2
  <2> QED BY <1>2, <1>4, <2>1, <2>2
<1> QED BY <1>3, <1>6, <1>7, <1>8, <1>9 DEF Extended

(* What is given to one write(): the rest of the header, or of the frame,  *)
(* of which b bytes are out.                                               *)
Given(e, bytes, b) ==
    /\ bytes # <<>>
    /\ b = IF writing[e] THEN HeaderSize ELSE 0
    /\ b + Len(bytes) = IF writing[e] THEN FrameSize ELSE HeaderSize
    /\ \A i \in 1 .. Len(bytes) : bytes[i] = <<written[e] + 1, b + i>>
    /\ written[e] < MaxFrames

\* The frame is sent with the last byte of its payload.
Counted(e, bytes) ==
    /\ written' = [written EXCEPT
                     ![e] = IF writing[e] /\ WholeWrite(e, Len(bytes)) THEN @ + 1 ELSE @]
    /\ UNCHANGED <<alive, delivered>>

\* The part of what is given that is taken.
LEMMA TakenPart ==
    ASSUME TypeOK, NEW e \in End,
           NEW bytes \in Seq(Byte), NEW b \in Nat, Given(e, bytes, b)
    PROVE  LET T == Taken(e, Len(bytes))
               ext == SubSeq(bytes, 1, T)
           IN  /\ T \in Nat /\ Len(stream[e]) + T <= SockBuf
               /\ WholeWrite(e, Len(bytes)) <=> T = Len(bytes)
               /\ ext \in Seq(Byte) /\ Len(ext) = T
               /\ \A i \in 1 .. T : ext[i] = <<written[e] + 1, b + i>>
               /\ b + T <= FrameSize
               /\ T = Len(bytes) => ext # <<>>
               /\ T = Len(bytes) => b + T = IF writing[e] THEN FrameSize ELSE HeaderSize
               /\ T # Len(bytes) => b + T < FrameSize
<1> DEFINE n == Len(bytes)
           T == Taken(e, n)
           ext == SubSeq(bytes, 1, T)
<1>1. n \in Nat /\ n # 0
  BY Bytes DEF Given
<1>2. T \in 0 .. n /\ Len(stream[e]) + T <= SockBuf /\ (WholeWrite(e, n) <=> T = n)
  BY <1>1, TakenBounds
<1>3. ext \in Seq(Byte) /\ Len(ext) = T /\ \A i \in 1 .. T : ext[i] = bytes[i]
  BY <1>2, Prefix
<1>4. \A i \in 1 .. n : bytes[i] = <<written[e] + 1, b + i>>
  BY DEF Given
<1>5. b + n = IF writing[e] THEN FrameSize ELSE HeaderSize
  BY DEF Given
<1>6. b + n <= FrameSize
  BY <1>5, Sizes
<1>7. T = n => ext # <<>>
  BY <1>1, <1>3, Bytes
<1> HIDE DEF n, T, ext
<1>8. T \in Nat /\ b + T <= FrameSize /\ (T # n => b + T < FrameSize)
  BY <1>1, <1>2, <1>6, Sizes
<1>9. \A i \in 1 .. T : i \in 1 .. n
  BY <1>1, <1>2
<1>10. \A i \in 1 .. T : ext[i] = <<written[e] + 1, b + i>>
  BY <1>3, <1>4, <1>9
<1>11. T = n => b + T = IF writing[e] THEN FrameSize ELSE HeaderSize
  BY <1>5, Zenon
<1> QED BY <1>2, <1>3, <1>7, <1>8, <1>10, <1>11 DEF n, T, ext

(* One write() of bytes of the frame that is being sent, whole or short.   *)
LEMMA WriteStep ==
    ASSUME StreamInv, NEW e \in End,
           NEW bytes \in Seq(Byte), NEW b \in Nat, Given(e, bytes, b),
           Write(e, bytes), Counted(e, bytes)
    PROVE  StreamInv'
<1> DEFINE r == Other[e]
           n == Len(bytes)
           T == Taken(e, n)
           ext == SubSeq(bytes, 1, T)
           out == stream[e] \o ext
<1>1. r \in End /\ r # e /\ Other[r] = e /\ \A x \in End : x # r => Other[x] # e
  BY Ends
<1>2. /\ TypeOK /\ \A x \in End : Direction(x)
      /\ written[e] \in Nat /\ writing[e] \in BOOLEAN /\ Expected(r) = Expected(r)
  BY EndTypes DEF StreamInv
<1>3. n \in Nat
  BY Bytes
<1>4. /\ T \in Nat /\ Len(stream[e]) + T <= SockBuf
      /\ WholeWrite(e, n) <=> T = n
      /\ ext \in Seq(Byte) /\ Len(ext) = T
      /\ \A i \in 1 .. T : ext[i] = <<written[e] + 1, b + i>>
      /\ b + T <= FrameSize
      /\ T = n => ext # <<>>
      /\ T = n => b + T = IF writing[e] THEN FrameSize ELSE HeaderSize
      /\ T # n => b + T < FrameSize
  BY <1>2, TakenPart
<1>5. /\ written[e] < MaxFrames /\ b = IF writing[e] THEN HeaderSize ELSE 0
      /\ written' = [written EXCEPT ![e] = IF writing[e] /\ WholeWrite(e, n) THEN @ + 1 ELSE @]
      /\ alive' = alive /\ delivered' = delivered
  BY DEF Given, Counted
<1>6. open[e] /\ open[r]
  BY DEF Write
<1> HIDE DEF T, ext
<1>8. /\ out \in Seq(Byte) /\ Len(out) = Len(stream[e]) + T /\ Run(out)
      /\ out # <<>> => out[1] = Expected(r)
      /\ ext # <<>> => out # <<>> /\ out[Len(out)] = <<written[e] + 1, b + T>>
      /\ \A i \in DOMAIN out :
           \/ out[i][1] <= written[e]
           \/ out[i][1] = written[e] + 1 /\ out[i][2] < FrameSize
           \/ out[i][1] = written[e] + 1 /\ out[i][2] <= b + T
  <2>1. ext \in Seq(Byte) /\ Len(ext) = T /\ b + Len(ext) <= FrameSize
    BY <1>4
  <2>2. b = IF writing[e] THEN HeaderSize ELSE 0
    BY <1>5
  <2>3. \A i \in 1 .. Len(ext) : ext[i] = <<written[e] + 1, b + i>>
    BY <1>4, <2>1
  <2>4. Extended(e, ext, b, out)
    BY <1>6, <2>1, <2>2, <2>3, Written, Zenon
  <2> QED BY <2>1, <2>4, Zenon DEF Extended
<1>9. \A i \in DOMAIN out : out[i][1] \in Nat /\ out[i][2] \in Nat
  <2>1. out \in Seq(Byte)
    BY <1>8
  <2> HIDE DEF out
  <2> QED BY <2>1, Bytes, Sizes
<1> HIDE DEF out
<1>10. CASE WholeWrite(e, n)
  <2>1. /\ stream' = [stream EXCEPT ![e] = out]
        /\ writing' = [writing EXCEPT ![e] = ~@]
        /\ open' = open /\ left' = left
    BY <1>10 DEF Write, out, ext, T
  <2>2. /\ stream'[e] = out /\ writing'[e] = ~writing[e]
        /\ written'[e] = IF writing[e] THEN written[e] + 1 ELSE written[e]
        /\ \A x \in End : x # e => /\ stream'[x] = stream[x] /\ writing'[x] = writing[x]
                                   /\ written'[x] = written[x]
    BY <1>2, <1>5, <1>10, <2>1 DEF TypeOK
  <2>3. T = n
    BY <1>4, <1>10
  <2>4. TypeOK'
    <3>1. /\ stream' \in [End -> Seq((1 .. MaxFrames) \X (1 .. HeaderSize + PayloadSize))]
          /\ \A x \in End : Len(stream'[x]) <= SockBuf
      BY <1>2, <1>4, <1>8, <2>1, <2>2 DEF TypeOK, Byte
    <3>2. written' \in [End -> 0 .. MaxFrames] /\ writing' \in [End -> BOOLEAN]
      BY <1>2, <1>5, <2>1, <2>2, Sizes DEF TypeOK
    <3> QED BY <1>2, <1>5, <2>1, <3>1, <3>2 DEF TypeOK
  <2>5. Whole(e)'
    <3>1. SUFFICES ASSUME NEW i \in DOMAIN out
                   PROVE  \/ out[i][1] <= written'[e]
                          \/ out[i][1] = written'[e] + 1 /\ out[i][2] < FrameSize
      BY <2>2 DEF Whole
    <3>2. CASE writing[e]
      <4>1. out[i][1] \in Nat /\ (out[i][1] <= written[e] \/ out[i][1] = written[e] + 1)
        BY <1>8, <1>9
      <4>2. written'[e] = written[e] + 1 /\ written[e] \in Nat
        BY <1>2, <2>2, <3>2
      <4> QED BY <4>1, <4>2
    <3>3. CASE ~writing[e]
      BY <1>2, <1>4, <1>8, <1>9, <2>2, <2>3, <3>3, Sizes
    <3> QED BY <3>2, <3>3
  <2>6. InStep(e)'
    <3>1. Expected(r)' = Expected(r)
      BY <1>5, <2>1 DEF Expected
    <3>2. out # <<>> /\ out[Len(out)] = <<written[e] + 1, b + T>>
      <4>1. ext # <<>>
        BY <1>4, <2>3
      <4> QED BY <1>8, <2>3, <4>1
    <3>3. LastOut(e)' = <<written[e] + 1, b + T>>
      BY <1>2, <1>4, <2>2, <2>3, Sizes DEF LastOut
    <3> QED BY <1>6, <1>8, <2>1, <2>2, <3>1, <3>2, <3>3 DEF InStep
  <2>7. Local(e)'
    BY <1>5, <1>6, <2>1, <2>2 DEF Local
  <2>8. Direction(e)'
    <3>1. Run(stream[e])'
      BY <1>8, <2>2 DEF Run
    <3> QED BY <2>5, <2>6, <2>7, <3>1 DEF Direction
  <2>9. ASSUME NEW x \in End, x # e PROVE Direction(x)'
    BY <1>2, <1>5, <2>1, <2>2, <2>9, Untouched
  <2> QED BY <2>4, <2>8, <2>9 DEF StreamInv
<1>11. CASE ~WholeWrite(e, n)
  <2>1. /\ stream' = [stream EXCEPT ![e] = out, ![r] = <<>>]
        /\ Shut(e) /\ written' = written
    <3>1. written' = written
      BY <1>2, <1>5, <1>11 DEF TypeOK
    <3> QED BY <1>11, <3>1 DEF Write, out, ext, T
  <2>2. /\ open'[e] = FALSE /\ writing'[e] = FALSE /\ left'[e] = 0
        /\ stream'[e] = out /\ stream'[r] = <<>>
        /\ \A x \in End : /\ x # e => open'[x] = open[x] /\ writing'[x] = writing[x] /\ left'[x] = left[x]
                          /\ x # e /\ x # r => stream'[x] = stream[x]
    BY <1>1, <1>2, <2>1 DEF Shut, TypeOK
  <2>3. b + T < FrameSize
    BY <1>4, <1>11
  <2>4. TypeOK'
    <3>1. <<>> \in Seq(Byte) /\ Len(<<>>) <= SockBuf
      BY Sizes, EmptySeq
    <3>2. \A x \in End : stream'[x] \in Seq(Byte) /\ Len(stream'[x]) <= SockBuf
      BY <1>2, <1>4, <1>8, <2>2, <3>1, EndTypes
    <3>3. stream' \in [End -> Seq(Byte)]
      BY <1>2, <2>1, <3>2 DEF TypeOK
    <3>4. 0 \in 0 .. PayloadSize
      BY Sizes
    <3> QED BY <1>2, <1>5, <2>1, <3>2, <3>3, <3>4 DEF TypeOK, Shut, Byte
  <2>5. Direction(e)'
    <3>1. Run(stream[e])' /\ Local(e)'
      BY <1>8, <2>2 DEF Run, Local
    <3>2. Whole(e)'
      <4>1. SUFFICES ASSUME NEW i \in DOMAIN out
                     PROVE  \/ out[i][1] <= written[e]
                            \/ out[i][1] = written[e] + 1 /\ out[i][2] < FrameSize
        BY <2>1, <2>2 DEF Whole
      <4>2. \/ out[i][1] <= written[e]
            \/ out[i][1] = written[e] + 1 /\ out[i][2] < FrameSize
            \/ out[i][1] = written[e] + 1 /\ out[i][2] <= b + T
        BY <1>8
      <4>3. out[i][2] <= b + T => out[i][2] < FrameSize
        <5>1. out[i][2] \in Nat /\ b + T \in Nat /\ FrameSize \in Nat
          BY <1>4, <1>9, Sizes
        <5> QED BY <2>3, <5>1
      <4> QED BY <4>2, <4>3
    <3>3. InStep(e)'
      <4>1. Expected(r)' = Expected(r) /\ open'[r] = open[r]
        BY <1>1, <1>5, <2>1, <2>2 DEF Expected
      <4> QED BY <1>6, <1>8, <2>2, <4>1 DEF InStep
    <3> QED BY <3>1, <3>2, <3>3 DEF Direction
  <2>6. Direction(r)'
    <3>1. Local(r)'
      BY <1>1, <1>2, <1>5, <2>1, <2>2 DEF Direction, Local
    <3> QED BY <1>1, <2>2, <3>1, Emptied
  <2>7. ASSUME NEW x \in End, x # e, x # r PROVE Direction(x)'
    <3>1. Other[x] # e /\ Other[x] \in End
      BY <1>1, <2>7, Ends
    <3> QED BY <1>2, <1>5, <2>1, <2>2, <2>7, <3>1, Untouched
  <2> QED BY <2>4, <2>5, <2>6, <2>7 DEF StreamInv
<1> QED BY <1>10, <1>11

\* What WriteHeader gives to write(): the length of the next frame.
LEMMA HeaderGiven ==
    ASSUME StreamInv, NEW e \in End, WriteHeader(e)
    PROVE  LET bytes == Header(written[e] + 1)
           IN  bytes \in Seq(Byte) /\ Given(e, bytes, 0) /\ Write(e, bytes) /\ Counted(e, bytes)
<1> DEFINE k == written[e] + 1
<1>1. TypeOK /\ written[e] \in 0 .. MaxFrames /\ written[e] < MaxFrames /\ ~writing[e]
  BY EndTypes DEF StreamInv, WriteHeader
<1>2. k \in 1 .. MaxFrames
  BY <1>1, Sizes
<1>3. <<k, 1>> \in Byte /\ <<k, 2>> \in Byte
  BY <1>2, Sizes DEF Byte
<1>4. /\ Header(k) \in Seq(Byte) /\ Len(Header(k)) = 2 /\ Header(k) # <<>>
      /\ \A i \in 1 .. 2 : Header(k)[i] = <<k, 0 + i>>
  BY <1>3 DEF Header
<1>5. Given(e, Header(k), 0)
  BY <1>1, <1>4, Sizes DEF Given
<1>6. Write(e, Header(k)) /\ Counted(e, Header(k))
  BY <1>1 DEF WriteHeader, Counted, TypeOK
<1> QED BY <1>4, <1>5, <1>6

LEMMA WriteHeaderStep ==
    ASSUME StreamInv, NEW e \in End, WriteHeader(e)
    PROVE  StreamInv'
BY HeaderGiven, WriteStep

\* What WritePayload gives: the rest of the frame.
LEMMA PayloadGiven ==
    ASSUME StreamInv, NEW e \in End, WritePayload(e)
    PROVE  LET bytes == Payload(written[e] + 1)
           IN  /\ bytes \in Seq(Byte) /\ Given(e, bytes, HeaderSize)
               /\ Write(e, bytes) /\ Counted(e, bytes)
<1> DEFINE k == written[e] + 1
<1>1. TypeOK /\ written[e] \in 0 .. MaxFrames /\ written[e] < MaxFrames /\ writing[e]
  BY EndTypes DEF StreamInv, WritePayload, Direction, Local
<1>2. k \in 1 .. MaxFrames
  BY <1>1, Sizes
<1>3. \A i \in 1 .. PayloadSize : <<k, HeaderSize + i>> \in Byte
  BY <1>2, Sizes DEF Byte
<1>4. /\ Payload(k) \in Seq(Byte) /\ Len(Payload(k)) = PayloadSize
      /\ \A i \in 1 .. PayloadSize : Payload(k)[i] = <<k, HeaderSize + i>>
  BY <1>3, Sizes DEF Payload
<1>5. Payload(k) # <<>>
  BY <1>4, Sizes, Bytes
<1>6. Given(e, Payload(k), HeaderSize)
  BY <1>1, <1>4, <1>5, Sizes DEF Given
<1>7. Write(e, Payload(k)) /\ Counted(e, Payload(k))
  BY <1>1, <1>4 DEF WritePayload, Counted
<1> QED BY <1>4, <1>6, <1>7

LEMMA WritePayloadStep ==
    ASSUME StreamInv, NEW e \in End, WritePayload(e)
    PROVE  StreamInv'
<1>1. HeaderSize \in Nat
  BY Sizes
<1> QED BY <1>1, PayloadGiven, WriteStep

(***************************************************************************)
(* Reads.                                                                  *)
(***************************************************************************)
\* The byte that follows a byte on a run.
After(byte) ==
    IF byte[2] < FrameSize THEN <<byte[1], byte[2] + 1>> ELSE <<byte[1] + 1, 1>>

\* What follows the last byte of an open writer is the next that it writes.
LEMMA AfterLastOut ==
    ASSUME TypeOK, NEW e \in End
    PROVE  After(LastOut(e)) = NextOut(e)
<1>1. written[e] \in Nat /\ writing[e] \in BOOLEAN
  BY EndTypes
<1>2. CASE writing[e]
  BY <1>1, <1>2, Sizes DEF After, LastOut, NextOut
<1>3. CASE ~writing[e]
  BY <1>1, <1>3, Sizes DEF After, LastOut, NextOut
<1> QED BY <1>2, <1>3

(* A read of g bytes, after which the reader expects the byte that follows *)
(* the last of them.                                                       *)
Reads(e, g) ==
    /\ open[e] /\ ~writing[e]
    /\ g \in 1 .. Len(stream[Other[e]])
    /\ stream' = [stream EXCEPT
                    ![Other[e]] = SubSeq(stream[Other[e]], g + 1, Len(stream[Other[e]]))]
    /\ left' \in [End -> 0 .. PayloadSize]
    /\ delivered' \in [End -> Seq(1 .. MaxFrames)]
    /\ \A x \in End \ {e} : left'[x] = left[x] /\ delivered'[x] = delivered[x]
    /\ Expected(e)' = After(stream[Other[e]][g])
    /\ UNCHANGED <<open, alive, writing, written>>

\* Such a read keeps both directions in step.
LEMMA ReadStep ==
    ASSUME StreamInv, NEW e \in End, NEW g \in Nat, Reads(e, g)
    PROVE  StreamInv'
<1> DEFINE r == Other[e]
           in == stream[r]
           rest == SubSeq(in, g + 1, Len(in))
<1>1. r \in End /\ r # e /\ Other[r] = e /\ \A x \in End : x # r => Other[x] # e
  BY Ends
<1>2. /\ TypeOK /\ \A x \in End : Direction(x)
      /\ in \in Seq(Byte) /\ Len(in) <= SockBuf /\ Run(in)
  BY <1>1, EndTypes DEF StreamInv, Direction
<1>3. /\ Len(in) \in Nat /\ DOMAIN in = 1 .. Len(in) /\ in # <<>>
      /\ g >= 1 /\ g <= Len(in) /\ g \in DOMAIN in
  <2>1. Len(in) \in Nat /\ DOMAIN in = 1 .. Len(in) /\ (in = <<>> <=> Len(in) = 0)
    BY <1>2, Bytes
  <2>2. g \in 1 .. Len(in)
    BY DEF Reads
  <2> HIDE DEF in
  <2> QED BY <2>1, <2>2
<1>16. /\ in[g][1] \in Nat /\ in[g][2] \in 1 .. FrameSize
       /\ in[g] = <<in[g][1], in[g][2]>>
  BY <1>2, <1>3, Bytes
<1>17. Len(in) \in Nat /\ g \in Nat /\ g >= 1 /\ g <= Len(in)
  BY <1>3
<1>4. /\ rest \in Seq(Byte) /\ Len(rest) = Len(in) - g
      /\ \A i \in 1 .. Len(in) - g : rest[i] = in[g + i]
  BY <1>2, <1>3, Cut
<1>5. /\ DOMAIN rest = 1 .. Len(in) - g
      /\ rest = <<>> <=> Len(in) = g
      /\ Len(rest) <= SockBuf
  <2>1. /\ DOMAIN rest = 1 .. Len(in) - g
        /\ rest = <<>> <=> Len(in) - g = 0
    BY <1>4, Bytes
  <2>2. Len(in) <= SockBuf /\ SockBuf \in Nat
    BY <1>2, Sizes
  <2> HIDE DEF in, rest
  <2> QED BY <1>4, <1>17, <2>1, <2>2
<1>6. Run(rest)
  BY <1>2, <1>3, RunSuffix
<1>7. stream'[r] = rest /\ \A x \in End : x # r => stream'[x] = stream[x]
  BY <1>1, <1>2 DEF TypeOK, Reads
<1>14. /\ open' = open /\ alive' = alive /\ writing' = writing /\ written' = written
       /\ open[e] /\ ~writing[e]
       /\ left' \in [End -> 0 .. PayloadSize] /\ delivered' \in [End -> Seq(1 .. MaxFrames)]
       /\ \A x \in End : x # e => left'[x] = left[x] /\ delivered'[x] = delivered[x]
       /\ Expected(e)' = After(in[g])
  BY DEF Reads
<1>15. DOMAIN stream' = End /\ stream' = [x \in End |-> stream'[x]]
  BY <1>2 DEF TypeOK, Reads
<1>8. TypeOK'
  <2>1. \A x \in End : stream'[x] \in Seq(Byte) /\ Len(stream'[x]) <= SockBuf
    BY <1>2, <1>4, <1>5, <1>7, EndTypes
  <2>2. stream' \in [End -> Seq(Byte)]
    BY <1>15, <2>1
  <2> QED BY <1>2, <1>14, <2>1, <2>2 DEF TypeOK, Byte
<1> HIDE DEF in, rest
<1>9. Whole(r)'
  <2>1. SUFFICES ASSUME NEW i \in 1 .. Len(in) - g
                 PROVE  \/ rest[i][1] <= written[r]
                        \/ rest[i][1] = written[r] + 1 /\ rest[i][2] < FrameSize
    BY <1>5, <1>7, <1>14 DEF Whole
  <2>2. g + i \in DOMAIN in /\ rest[i] = in[g + i]
    BY <1>3, <1>4
  <2>3. Whole(r)
    BY <1>1, <1>2 DEF Direction
  <2> QED BY <2>2, <2>3 DEF Whole, in
<1>10. InStep(r)'
  <2>1. /\ InStep(r) /\ open'[e] = open[e] /\ open'[r] = open[r]
        /\ LastOut(r)' = LastOut(r) /\ NextOut(r)' = NextOut(r)
    BY <1>1, <1>2, <1>14 DEF Direction, LastOut, NextOut
  <2>2. rest # <<>> => rest[1] = Expected(e)'
    <3>1. SUFFICES ASSUME rest # <<>> PROVE rest[1] = After(in[g])
      BY <1>14
    <3>2. /\ 1 \in 1 .. Len(in) - g /\ rest[1] = in[g + 1]
          /\ g + 1 \in DOMAIN in /\ g <= g + 1 /\ (g + 1) - g = 1
      <4>1. Len(in) # g
        BY <1>5, <3>1
      <4>2. 1 \in 1 .. Len(in) - g /\ g + 1 \in 1 .. Len(in) /\ g <= g + 1 /\ (g + 1) - g = 1
        BY <1>17, <4>1
      <4> QED BY <1>3, <1>4, <4>2
    <3>3. in[g][2] + 1 <= FrameSize + 1
      BY <1>16, Sizes
    <3>4. in[g + 1] = IF in[g][2] + 1 <= FrameSize THEN <<in[g][1], in[g][2] + 1>> ELSE <<in[g][1] + 1, 1>>
      BY <1>2, <1>3, <3>2, <3>3, Zenon DEF Run
    <3>5. in[g][2] + 1 <= FrameSize <=> in[g][2] < FrameSize
      BY <1>16, Sizes
    <3> QED BY <3>2, <3>4, <3>5 DEF After
  <2>3. rest # <<>> /\ open[r] => rest[Len(rest)] = LastOut(r)
    <3>1. SUFFICES ASSUME rest # <<>>, open[r] PROVE rest[Len(rest)] = LastOut(r)
      OBVIOUS
    <3>2. Len(rest) \in 1 .. Len(in) - g /\ g + Len(rest) = Len(in)
      <4>1. Len(in) # g /\ Len(rest) = Len(in) - g
        BY <1>4, <1>5, <3>1
      <4> QED BY <1>17, <4>1
    <3>3. in[Len(in)] = LastOut(r)
      BY <1>1, <1>3, <2>1, <3>1 DEF InStep, in
    <3> QED BY <1>4, <3>2, <3>3
  <2>4. rest = <<>> /\ open[r] => Expected(e)' = NextOut(r)
    <3>1. SUFFICES ASSUME rest = <<>>, open[r] PROVE After(in[g]) = NextOut(r)
      BY <1>14
    <3>2. in[g] = LastOut(r)
      BY <1>1, <1>3, <1>5, <2>1, <3>1 DEF InStep, in
    <3> QED BY <1>1, <1>2, <3>2, AfterLastOut
  <2> QED BY <1>1, <1>7, <1>14, <2>1, <2>2, <2>3, <2>4 DEF InStep
<1>11. Direction(r)'
  <2>1. Run(stream[r])'
    BY <1>6, <1>7 DEF Run
  <2>2. Local(r)'
    BY <1>1, <1>2, <1>14 DEF Direction, Local
  <2> QED BY <1>9, <1>10, <2>1, <2>2 DEF Direction
<1>12. Direction(e)'
  <2>1. Run(stream[e])' /\ Whole(e)' /\ Local(e)'
    <3>1. /\ stream'[e] = stream[e] /\ open'[e] = open[e] /\ writing'[e] = writing[e]
          /\ written'[e] = written[e] /\ open[e] /\ ~writing[e]
      BY <1>1, <1>7, <1>14
    <3>2. Run(stream[e]) /\ Whole(e)
      BY <1>2 DEF Direction
    <3> QED BY <3>1, <3>2 DEF Run, Whole, Local
  <2>2. Expected(r)' = Expected(r) /\ LastOut(e)' = LastOut(e) /\ NextOut(e)' = NextOut(e)
    BY <1>1, <1>14 DEF Expected, LastOut, NextOut
  <2>3. InStep(e)'
    <3>1. InStep(e) /\ stream'[e] = stream[e] /\ open'[e] = open[e] /\ open'[r] = open[r]
      BY <1>1, <1>2, <1>7, <1>14 DEF Direction
    <3> QED BY <2>2, <3>1 DEF InStep
  <2> QED BY <2>1, <2>3 DEF Direction
<1>13. ASSUME NEW x \in End, x # e, x # r PROVE Direction(x)'
  <2>1. Other[x] # e /\ Other[x] \in End
    BY <1>1, <1>13, Ends
  <2> QED BY <1>2, <1>7, <1>13, <1>14, <2>1, Untouched
<1> QED BY <1>8, <1>11, <1>12, <1>13 DEF StreamInv

\* The first byte that an open end can read, and those that follow it in its frame.
LEMMA FirstBytes ==
    ASSUME StreamInv, NEW e \in End, open[e], stream[Other[e]] # <<>>,
           NEW i \in 1 .. Len(stream[Other[e]]), NEW b \in Nat,
           b = (IF left[e] = 0 THEN 1 ELSE FrameSize - left[e] + 1) + (i - 1),
           b <= FrameSize
    PROVE  stream[Other[e]][i] = <<Len(delivered[e]) + 1, b>>
<1> DEFINE r == Other[e]
           in == stream[r]
           f == IF left[e] = 0 THEN 1 ELSE FrameSize - left[e] + 1
<1>1. /\ TypeOK /\ r \in End /\ Other[r] = e /\ in \in Seq(Byte) /\ Run(in) /\ InStep(r)
  BY Ends, EndTypes DEF StreamInv, Direction
<1>2. Len(in) \in Nat /\ DOMAIN in = 1 .. Len(in) /\ i \in DOMAIN in
  BY <1>1, Bytes
<1>3. in[1] = <<Len(delivered[e]) + 1, f>>
  BY <1>1 DEF InStep, Expected
<1>4. b = f + (i - 1)
  OBVIOUS
<1> HIDE DEF f, in, r
<1>5. 1 \in DOMAIN in /\ 1 <= i
  BY <1>2
<1>6. FrameSize \in Nat /\ b <= FrameSize + 1
  BY Sizes
<1>7. in[1][1] = Len(delivered[e]) + 1 /\ in[1][2] + (i - 1) = b
  BY <1>3, <1>4
<1>8. in[i] = <<Len(delivered[e]) + 1, b>>
  BY <1>1, <1>2, <1>5, <1>6, <1>7, Zenon DEF Run
<1> QED BY <1>8 DEF in, r

\* A whole header is read, and the payload is expected.
LEMMA HeaderReads ==
    ASSUME StreamInv, NEW e \in End, ReadHeader(e), Len(stream[Other[e]]) >= HeaderSize
    PROVE  Reads(e, 2)
<1> DEFINE r == Other[e]
           in == stream[r]
           d == Len(delivered[e])
<1>1. /\ r \in End /\ r # e /\ Other[r] = e /\ \A x \in End : x # r => Other[x] # e
      /\ TypeOK /\ \A x \in End : Direction(x)
      /\ in \in Seq(Byte) /\ d \in Nat /\ written[r] \in Nat
  BY Ends, EndTypes DEF StreamInv
<1>2. /\ open[e] /\ ~writing[e] /\ left[e] = 0 /\ in # <<>>
      /\ UNCHANGED <<open, alive, writing, written, delivered>>
  BY DEF ReadHeader, CanRead
<1>3. Len(in) \in Nat /\ Len(in) # 0
  BY <1>1, <1>2, Bytes
<1>4. /\ stream' = [stream EXCEPT ![r] = SubSeq(in, 3, Len(in))]
      /\ left' = [left EXCEPT ![e] = PayloadSize]
  BY DEF ReadHeader
<1>5. 2 \in 1 .. Len(in)
  BY <1>3, Sizes
<1>6. in[2] = <<d + 1, 2>>
  <2>1. 2 = (IF left[e] = 0 THEN 1 ELSE FrameSize - left[e] + 1) + (2 - 1) /\ 2 <= FrameSize
    BY <1>2, Sizes
  <2> QED BY <1>2, <1>5, <2>1, FirstBytes
<1>7. Expected(e)' = After(in[2])
  <2>1. left'[e] = PayloadSize /\ delivered' = delivered
    BY <1>1, <1>2, <1>4 DEF TypeOK
  <2>2. Expected(e)' = <<d + 1, FrameSize - PayloadSize + 1>>
    BY <2>1, Sizes DEF Expected
  <2>3. After(in[2]) = <<d + 1, 3>>
    BY <1>6, Sizes DEF After
  <2>4. FrameSize - PayloadSize + 1 = 3
    BY Sizes
  <2> QED BY <2>2, <2>3, <2>4
<1>8. left' \in [End -> 0 .. PayloadSize] /\ \A x \in End \ {e} : left'[x] = left[x]
  <2>1. left \in [End -> 0 .. PayloadSize] /\ PayloadSize \in 0 .. PayloadSize
    BY <1>1, Sizes DEF TypeOK
  <2> QED BY <1>4, <2>1
<1>9. 2 + 1 = 3
  OBVIOUS
<1>10. Reads(e, 2)
  BY <1>1, <1>2, <1>4, <1>5, <1>7, <1>8, <1>9 DEF Reads, TypeOK
<1> QED BY <1>10

\* Half a header: the only byte there is.
LEMMA HalfHeader ==
    ASSUME StreamInv, NEW e \in End, ReadHeader(e), ~(Len(stream[Other[e]]) >= HeaderSize)
    PROVE  /\ Len(stream[Other[e]]) = 1
           /\ stream[Other[e]][1] = <<Len(delivered[e]) + 1, 1>>
           /\ stream' = [stream EXCEPT ![Other[e]] = <<>>]
           /\ left' = left
<1> DEFINE r == Other[e]
           in == stream[r]
           d == Len(delivered[e])
<1>1. /\ r \in End /\ r # e /\ Other[r] = e /\ \A x \in End : x # r => Other[x] # e
      /\ TypeOK /\ \A x \in End : Direction(x)
      /\ in \in Seq(Byte) /\ d \in Nat /\ written[r] \in Nat
  BY Ends, EndTypes DEF StreamInv
<1>2. /\ open[e] /\ ~writing[e] /\ left[e] = 0 /\ in # <<>>
      /\ UNCHANGED <<open, alive, writing, written, delivered>>
  BY DEF ReadHeader, CanRead
<1>3. Len(in) \in Nat /\ Len(in) # 0
  BY <1>1, <1>2, Bytes
<1>4. Len(in) = 1 /\ 1 \in 1 .. Len(in)
  <2>1. ~(Len(in) >= 2)
    BY DEF HeaderSize
  <2>2. Len(in) = 1
    <3>1. \A n \in Nat : n # 0 /\ ~(n >= 2) => n = 1
      OBVIOUS
    <3> QED BY <1>3, <2>1, <3>1, Zenon
  <2> QED BY <2>2
<1>5. in[1] = <<d + 1, 1>>
  <2>1. 1 = (IF left[e] = 0 THEN 1 ELSE FrameSize - left[e] + 1) + (1 - 1) /\ 1 <= FrameSize
    BY <1>2, Sizes
  <2> QED BY <1>2, <1>4, <2>1, FirstBytes
<1>6. stream' = [stream EXCEPT ![r] = <<>>] /\ left' = left
  BY DEF ReadHeader
<1> QED BY <1>4, <1>5, <1>6

\* The read() of a header, whole or of a single byte.
LEMMA ReadHeaderStep ==
    ASSUME StreamInv, NEW e \in End, ReadHeader(e)
    PROVE  StreamInv'
<1> DEFINE r == Other[e]
           in == stream[r]
           d == Len(delivered[e])
<1>1. /\ r \in End /\ r # e /\ Other[r] = e /\ \A x \in End : x # r => Other[x] # e
      /\ TypeOK /\ \A x \in End : Direction(x)
      /\ in \in Seq(Byte) /\ d \in Nat /\ written[r] \in Nat
  BY Ends, EndTypes DEF StreamInv
<1>2. /\ open[e] /\ ~writing[e] /\ left[e] = 0 /\ in # <<>>
      /\ UNCHANGED <<open, alive, writing, written, delivered>>
  BY DEF ReadHeader, CanRead
<1>3. Len(in) \in Nat /\ Len(in) # 0
  BY <1>1, <1>2, Bytes
<1>4. CASE Len(in) >= HeaderSize
  BY <1>4, HeaderReads, ReadStep
<1>5. CASE ~(Len(in) >= HeaderSize)
  <2>1. stream' = [stream EXCEPT ![r] = <<>>] /\ left' = left
    BY <1>5 DEF ReadHeader
  <2>2. stream'[r] = <<>> /\ \A x \in End : x # r => stream'[x] = stream[x]
    BY <1>1, <2>1 DEF TypeOK
  <2>3. ~open[r]
    <3>1. Len(in) = 1 /\ 1 \in 1 .. Len(in)
      BY <1>5, HalfHeader
    <3>2. in[1] = <<d + 1, 1>>
      BY <1>5, HalfHeader
    <3>3. ASSUME open[r] PROVE in[1] = LastOut(r)
      BY <1>1, <1>2, <3>1, <3>3 DEF Direction, InStep
    <3> QED BY <3>2, <3>3, Sizes DEF LastOut
  <2>4. TypeOK'
    <3>1. <<>> \in Seq((1 .. MaxFrames) \X (1 .. HeaderSize + PayloadSize)) /\ Len(<<>>) <= SockBuf
      BY Sizes, EmptySeq
    <3>2. /\ stream' \in [End -> Seq((1 .. MaxFrames) \X (1 .. HeaderSize + PayloadSize))]
          /\ \A x \in End : Len(stream'[x]) <= SockBuf
      BY <1>1, <2>1, <2>2, <3>1 DEF TypeOK
    <3> QED BY <1>1, <1>2, <2>1, <3>2 DEF TypeOK
  <2>5. Direction(r)'
    <3>1. ~open'[r] /\ open'[e] /\ Local(r)'
      BY <1>1, <1>2, <2>1, <2>3 DEF Direction, Local
    <3>2. DOMAIN stream'[r] = {}
      BY <2>2
    <3> QED BY <1>1, <2>2, <3>1, <3>2 DEF Direction, Run, Whole, InStep
  <2>6. ASSUME NEW x \in End, x # r PROVE Direction(x)'
    BY <1>1, <1>2, <2>1, <2>2, <2>6, Ends, Untouched
  <2> QED BY <2>4, <2>5, <2>6 DEF StreamInv
<1> QED BY <1>4, <1>5

(* What a read of payload returns: bytes of the frame that is being read,  *)
(* the last of them when nothing is left, and then a frame that was sent.  *)
LEMMA PayloadBytes ==
    ASSUME StreamInv, NEW e \in End, ReadPayload(e)
    PROVE  LET g == Got(e)
               in == stream[Other[e]]
           IN  /\ g \in Nat /\ 1 <= g /\ g <= left[e] /\ g \in 1 .. Len(in)
               /\ in[g] = <<Len(delivered[e]) + 1, FrameSize - left[e] + g>>
               /\ Len(delivered[e]) + 1 \in 1 .. MaxFrames
               /\ g = left[e] => Len(delivered[e]) < written[Other[e]]
<1> DEFINE r == Other[e]
           in == stream[r]
           d == Len(delivered[e])
           g == Got(e)
<1>1. /\ r \in End /\ TypeOK /\ Whole(r) /\ in \in Seq(Byte)
  BY Ends, EndTypes DEF StreamInv, Direction
<1>2. d \in Nat /\ written[r] \in Nat /\ left[e] \in 0 .. PayloadSize
  BY <1>1, EndTypes
<1>3. open[e] /\ left[e] > 0 /\ in # <<>>
  BY DEF ReadPayload, CanRead
<1>4. Len(in) \in Nat /\ Len(in) # 0 /\ DOMAIN in = 1 .. Len(in)
  BY <1>1, <1>3, Bytes
<1>5. g = IF left[e] < Len(in) THEN left[e] ELSE Len(in)
  BY DEF Got, MinOf
<1> HIDE DEF g, in, d
<1>6. g \in Nat /\ 1 <= g /\ g <= left[e] /\ g \in 1 .. Len(in)
  BY <1>2, <1>3, <1>4, <1>5
<1>7. in[g] = <<d + 1, FrameSize - left[e] + g>>
  <2>1. /\ FrameSize - left[e] + g \in Nat /\ FrameSize - left[e] + g <= FrameSize
        /\ FrameSize - left[e] + g = (IF left[e] = 0 THEN 1 ELSE FrameSize - left[e] + 1) + (g - 1)
    BY <1>2, <1>3, <1>6, Sizes
  <2> QED BY <1>3, <1>6, <2>1, FirstBytes DEF in, d
<1>8. d + 1 \in 1 .. MaxFrames
  BY <1>1, <1>6, <1>7, Bytes
<1>9. g = left[e] => d < written[r]
  <2>1. SUFFICES ASSUME g = left[e] PROVE d < written[r]
    OBVIOUS
  <2>2. in[g][1] = d + 1 /\ in[g][2] = FrameSize
    BY <1>2, <1>7, <2>1, Sizes
  <2>3. in[g][1] <= written[r] \/ in[g][2] < FrameSize
    BY <1>1, <1>4, <1>6 DEF Whole, in
  <2> QED BY <1>2, <2>2, <2>3, Sizes
<1> QED BY <1>6, <1>7, <1>8, <1>9 DEF g, in, d

\* A read of the payload leaves the reader expecting the byte behind it.
LEMMA PayloadReads ==
    ASSUME StreamInv, NEW e \in End, ReadPayload(e)
    PROVE  Got(e) \in Nat /\ Reads(e, Got(e))
<1> DEFINE r == Other[e]
           in == stream[r]
           d == Len(delivered[e])
           g == Got(e)
<1>1. /\ TypeOK /\ d \in Nat /\ left[e] \in 0 .. PayloadSize
      /\ delivered[e] \in Seq(1 .. MaxFrames)
  BY EndTypes DEF StreamInv
<1>2. /\ open[e] /\ ~writing[e]
      /\ stream' = [stream EXCEPT ![r] = SubSeq(in, g + 1, Len(in))]
      /\ left' = [left EXCEPT ![e] = @ - g]
      /\ UNCHANGED <<open, alive, writing, written>>
      /\ delivered' = IF g = left[e] THEN [delivered EXCEPT ![e] = Append(@, in[g][1])] ELSE delivered
  BY DEF ReadPayload, CanRead
<1>3. /\ g \in Nat /\ 1 <= g /\ g <= left[e] /\ g \in 1 .. Len(in)
      /\ in[g] = <<d + 1, FrameSize - left[e] + g>>
      /\ d + 1 \in 1 .. MaxFrames
  BY PayloadBytes
<1> HIDE DEF g
<1>4. left[e] - g \in 0 .. PayloadSize
  <2>1. left[e] \in 0 .. PayloadSize /\ g \in Nat /\ g <= left[e]
    BY <1>1, <1>3
  <2> QED BY <2>1, Sizes
<1>5. /\ left' \in [End -> 0 .. PayloadSize] /\ left'[e] = left[e] - g
      /\ \A x \in End \ {e} : left'[x] = left[x]
  BY <1>1, <1>2, <1>4 DEF TypeOK
<1>6. /\ Append(delivered[e], d + 1) \in Seq(1 .. MaxFrames)
      /\ Len(Append(delivered[e], d + 1)) = d + 1
  BY <1>1, <1>3, AppendProperties
<1>7. delivered'[e] = IF g = left[e] THEN Append(delivered[e], d + 1) ELSE delivered[e]
  BY <1>1, <1>2, <1>3 DEF TypeOK
<1>8. /\ delivered' \in [End -> Seq(1 .. MaxFrames)]
      /\ \A x \in End \ {e} : delivered'[x] = delivered[x]
  <2>1. delivered \in [End -> Seq(1 .. MaxFrames)]
    BY <1>1 DEF TypeOK
  <2>2. \/ delivered' = [delivered EXCEPT ![e] = Append(@, d + 1)]
        \/ delivered' = delivered
    BY <1>2, <1>3
  <2> QED BY <1>6, <2>1, <2>2
<1>9. Expected(e)' = After(in[g])
  <2>1. CASE g = left[e]
    <3>1. left'[e] = 0 /\ Len(delivered'[e]) = d + 1
      BY <1>1, <1>3, <1>5, <1>6, <1>7, <2>1
    <3>2. in[g] = <<d + 1, FrameSize>>
      BY <1>1, <1>3, <2>1, Sizes
    <3>3. After(in[g]) = <<d + 1 + 1, 1>>
      BY <3>2, Sizes DEF After
    <3> QED BY <3>1, <3>3 DEF Expected
  <2>2. CASE g # left[e]
    <3>1. left'[e] # 0 /\ left'[e] = left[e] - g /\ Len(delivered'[e]) = d
      BY <1>1, <1>3, <1>5, <1>7, <2>2
    <3>2. Expected(e)' = <<d + 1, FrameSize - (left[e] - g) + 1>>
      BY <3>1 DEF Expected
    <3>3. /\ FrameSize - left[e] + g < FrameSize
          /\ FrameSize - (left[e] - g) + 1 = FrameSize - left[e] + g + 1
      BY <1>1, <1>3, <2>2, Sizes
    <3>4. After(in[g]) = <<d + 1, FrameSize - left[e] + g + 1>>
      <4>1. in[g][1] = d + 1 /\ in[g][2] = FrameSize - left[e] + g
        BY <1>3
      <4> QED BY <3>3, <4>1, Zenon DEF After
    <3> QED BY <3>2, <3>3, <3>4
  <2> QED BY <2>1, <2>2
<1>10. Reads(e, g)
  BY <1>2, <1>3, <1>5, <1>8, <1>9 DEF Reads
<1> QED BY <1>3, <1>10 DEF g

\* The read()s of the payload.
LEMMA ReadPayloadStep ==
    ASSUME StreamInv, NEW e \in End, ReadPayload(e)
    PROVE  StreamInv'
BY PayloadReads, ReadStep

(***************************************************************************)
(* The ends that close.                                                    *)
(***************************************************************************)
\* The actions that close an end: a broken pipe, end-of-file, EAGAIN, an exit.
Closing(e) == WriteBroken(e) \/ ReadEof(e) \/ ReadNothing(e) \/ Stop(e)

\* What they have in common.
LEMMA ClosingShuts ==
    ASSUME TypeOK, NEW e \in End, Closing(e)
    PROVE  /\ open[e] /\ Shut(e)
           /\ alive' \in [End -> BOOLEAN]
           /\ stream' = [stream EXCEPT ![Other[e]] = <<>>]
           /\ UNCHANGED <<written, delivered>>
<1>1. Other[e] \in End
  BY Ends
<1>2. CASE WriteBroken(e)
  BY <1>2 DEF WriteBroken, TypeOK
<1>3. CASE Stop(e)
  BY <1>3 DEF Stop, TypeOK
<1>4. ASSUME stream[Other[e]] = <<>>, stream' = stream
      PROVE  stream' = [stream EXCEPT ![Other[e]] = <<>>]
  BY <1>1, <1>4 DEF TypeOK
<1>5. CASE ReadEof(e)
  BY <1>4, <1>5 DEF ReadEof, Drained, CanRead, TypeOK
<1>6. CASE ReadNothing(e)
  BY <1>4, <1>6 DEF ReadNothing, Drained, CanRead, TypeOK
<1> QED BY <1>2, <1>3, <1>5, <1>6 DEF Closing

\* They keep the invariant.
LEMMA ClosingStep ==
    ASSUME StreamInv, NEW e \in End, Closing(e)
    PROVE  StreamInv'
<1>1. TypeOK
  BY DEF StreamInv
<1> QED BY <1>1, ClosingShuts, ShutStep

(***************************************************************************)
(* What a writer leaves when it closes: its last bytes are the end of the  *)
(* frame it wrote last, or a part of one it could not write; when they are *)
(* read, so is every frame that was written.                               *)
(***************************************************************************)
LastLeft(e) ==
    LET s == stream[e]
    IN  IF s = <<>> THEN Len(delivered[Other[e]]) = written[e]
        ELSE s[Len(s)][1] = written[e] + 1 \/ s[Len(s)] = <<written[e], FrameSize>>

\* As long as the other end may read it.
Kept(e) == open[Other[e]] => LastLeft(e)

KeptInv == \A e \in End : ~open[e] => Kept(e)

\* An open writer leaves nothing else, for it is in step.
LEMMA OpenKept ==
    ASSUME StreamInv, NEW e \in End, open[e]
    PROVE  Kept(e)
<1> SUFFICES ASSUME open[Other[e]] PROVE LastLeft(e)
  BY DEF Kept
<1> DEFINE r == Other[e]
           s == stream[e]
<1>1. r \in End /\ TypeOK /\ InStep(e) /\ written[e] \in Nat /\ s \in Seq(Byte)
  BY Ends, EndTypes DEF StreamInv, Direction
<1>2. Len(delivered[r]) \in Nat
  BY <1>1, EndTypes
<1>3. CASE s = <<>>
  <2>1. Expected(r) = NextOut(e)
    BY <1>1, <1>3 DEF InStep
  <2>2. Len(delivered[r]) + 1 = written[e] + 1
    BY <2>1 DEF Expected, NextOut
  <2>3. Len(delivered[r]) = written[e]
    BY <1>1, <1>2, <2>2
  <2> QED BY <1>3, <2>3 DEF LastLeft
<1>4. CASE s # <<>>
  <2>1. s[Len(s)] = LastOut(e)
    BY <1>1, <1>4 DEF InStep
  <2>2. LastOut(e)[1] = written[e] + 1 \/ LastOut(e) = <<written[e], FrameSize>>
    BY DEF LastOut
  <2> QED BY <1>4, <2>1, <2>2 DEF LastLeft
<1> QED BY <1>3, <1>4

LEMMA AllKept ==
    ASSUME StreamInv, KeptInv, NEW e \in End
    PROVE  Kept(e)
BY OpenKept DEF KeptInv

\* A direction that is not touched.
LEMMA KeptUntouched ==
    ASSUME NEW x \in End, LastLeft(x),
           stream'[x] = stream[x], written'[x] = written[x],
           delivered'[Other[x]] = delivered[Other[x]]
    PROVE  LastLeft(x)'
BY DEF LastLeft

\* A write leaves what it can, also when it is cut short and closes its end.
LEMMA WriteKept ==
    ASSUME StreamInv, KeptInv, NEW e \in End,
           NEW bytes \in Seq(Byte), NEW b \in Nat, Given(e, bytes, b),
           Write(e, bytes), Counted(e, bytes),
           NEW x \in End, ~open'[x], open'[Other[x]]
    PROVE  LastLeft(x)'
<1> DEFINE n == Len(bytes)
           T == Taken(e, n)
           ext == SubSeq(bytes, 1, T)
           out == stream[e] \o ext
<1>1. /\ Other[e] \in End /\ Other[e] # e /\ Other[Other[e]] = e
      /\ Other[x] \in End /\ Other[x] # x /\ Other[Other[x]] = x
  BY Ends
<1>2. /\ TypeOK /\ Kept(e) /\ Kept(x) /\ open[e] /\ open[Other[e]]
      /\ delivered' = delivered
      /\ written' = [written EXCEPT ![e] = IF writing[e] /\ WholeWrite(e, n) THEN @ + 1 ELSE @]
  BY AllKept DEF StreamInv, Write, Counted
<1>3. /\ T \in Nat /\ ext \in Seq(Byte) /\ Len(ext) = T
      /\ \A i \in 1 .. T : ext[i] = <<written[e] + 1, b + i>>
  BY <1>2, TakenPart
<1> HIDE DEF T, ext
<1>4. CASE WholeWrite(e, n)
  <2>1. open' = open /\ stream' = [stream EXCEPT ![e] = out]
    BY <1>4 DEF Write, out, ext, T
  <2>2. x # e /\ open[Other[x]]
    BY <1>2, <2>1
  <2>3. stream'[x] = stream[x] /\ written'[x] = written[x]
    BY <1>2, <2>1, <2>2 DEF TypeOK
  <2> QED BY <1>2, <2>2, <2>3, KeptUntouched DEF Kept
<1>5. CASE ~WholeWrite(e, n)
  <2>1. /\ stream' = [stream EXCEPT ![e] = out, ![Other[e]] = <<>>]
        /\ Shut(e) /\ written' = written
    <3>1. written' = written
      BY <1>2, <1>5 DEF TypeOK
    <3> QED BY <1>5, <3>1 DEF Write, out, ext, T
  <2>2. Other[x] # e /\ open[Other[x]]
    BY <1>1, <1>2, <2>1 DEF Shut, TypeOK
  <2>3. LastLeft(x)
    BY <1>2, <2>2 DEF Kept
  <2>4. CASE x # e
    <3>1. x # Other[e]
      BY <1>1, <2>2
    <3>2. stream'[x] = stream[x]
      BY <1>2, <2>1, <2>4, <3>1 DEF TypeOK
    <3> QED BY <1>2, <2>1, <2>3, <3>2, KeptUntouched
  <2>5. CASE x = e
    <3>1. stream'[e] = out
      BY <1>1, <1>2, <2>1 DEF TypeOK
    <3>2. stream[e] \in Seq(Byte)
      BY <1>2, EndTypes
    <3>3. CASE T = 0
      <4>1. ext = <<>>
        BY <1>3, <3>3, Bytes
      <4>2. out = stream[e]
        BY <3>2, <4>1
      <4> QED BY <1>2, <2>1, <2>3, <2>5, <3>1, <4>2, KeptUntouched
    <3>4. CASE T # 0
      <4>1. /\ out \in Seq(Byte)
            /\ Len(out) = Len(stream[e]) + T
            /\ \A i \in 1 .. T : out[Len(stream[e]) + i] = ext[i]
        <5>1. /\ out \in Seq(Byte)
              /\ Len(out) = Len(stream[e]) + Len(ext)
              /\ \A i \in 1 .. Len(ext) : out[Len(stream[e]) + i] = ext[i]
          <6>1. ext \in Seq(Byte)
            BY <1>3
          <6> QED BY <3>2, <6>1, Concat
        <5> QED BY <1>3, <5>1
      <4>2. Len(stream[e]) \in Nat /\ (out = <<>> <=> Len(out) = 0)
        BY <3>2, <4>1, Bytes
      <4> HIDE DEF out
      <4>3. out # <<>> /\ T \in 1 .. T
        BY <1>3, <3>4, <4>1, <4>2
      <4>4. out[Len(out)] = <<written[e] + 1, b + T>>
        BY <1>3, <4>1, <4>3
      <4> QED BY <2>1, <2>5, <3>1, <4>3, <4>4 DEF LastLeft
    <3> QED BY <3>3, <3>4
  <2> QED BY <2>4, <2>5
<1> QED BY <1>4, <1>5

\* A read of g bytes leaves the last one, or has read every frame.
LEMMA ReadKept ==
    ASSUME StreamInv, NEW e \in End, NEW g \in Nat, Reads(e, g), LastLeft(Other[e])
    PROVE  LastLeft(Other[e])'
<1> DEFINE r == Other[e]
           in == stream[r]
           rest == SubSeq(in, g + 1, Len(in))
<1>1. /\ r \in End /\ Other[r] = e /\ TypeOK /\ in \in Seq(Byte)
      /\ written[r] \in Nat
  BY Ends, EndTypes DEF StreamInv
<1>2. /\ Len(in) \in Nat /\ DOMAIN in = 1 .. Len(in) /\ (in = <<>> <=> Len(in) = 0)
      /\ g \in 1 .. Len(in)
  BY <1>1, Bytes DEF Reads
<1>3. /\ rest \in Seq(Byte) /\ Len(rest) = Len(in) - g
      /\ \A i \in 1 .. Len(in) - g : rest[i] = in[g + i]
      /\ rest = <<>> <=> Len(rest) = 0
  <2>1. g \in 0 .. Len(in)
    BY <1>2
  <2> QED BY <1>1, <2>1, Cut, Bytes
<1>4. stream'[r] = rest /\ written' = written /\ Expected(e)' = After(in[g])
  BY <1>1 DEF Reads, TypeOK
<1>5. delivered' \in [End -> Seq(1 .. MaxFrames)] /\ Len(delivered'[e]) \in Nat
  <2>1. delivered' \in [End -> Seq(1 .. MaxFrames)]
    BY DEF Reads
  <2> QED BY <2>1, LenProperties
<1>6. in[Len(in)][1] = written[r] + 1 \/ in[Len(in)] = <<written[r], FrameSize>>
  BY <1>2 DEF LastLeft
<1>7. in[g] = <<in[g][1], in[g][2]>> /\ in[g][2] \in 1 .. FrameSize /\ in[g][1] \in Nat
  BY <1>1, <1>2, Bytes
<1> HIDE DEF in, rest
<1>8. Len(in) \in Nat /\ g \in Nat /\ 1 <= g /\ g <= Len(in)
  BY <1>2
<1>9. Len(rest) = Len(in) - g /\ (rest = <<>> <=> Len(rest) = 0)
  BY <1>3
<1>10. CASE rest = <<>>
  <2>1. Len(in) = g
    BY <1>8, <1>9, <1>10
  <2>2. After(in[g])[1] = Len(delivered'[e]) + 1
    <3>1. Expected(e)'[1] = Len(delivered'[e]) + 1
      BY DEF Expected
    <3> QED BY <1>4, <3>1
  <2>3. \/ in[g][1] <= written[r]
        \/ in[g][1] = written[r] + 1 /\ in[g][2] < FrameSize
    <3>1. Whole(r)
      BY <1>1 DEF StreamInv, Direction
    <3> QED BY <1>2, <3>1 DEF Whole, in
  <2>4. in[g][1] = written[r] + 1 \/ in[g] = <<written[r], FrameSize>>
    BY <1>6, <2>1
  <2>5. After(in[g])[1] = written[r] + 1
    <3>1. CASE in[g][1] = written[r] + 1
      <4>1. in[g][2] < FrameSize
        BY <1>1, <2>3, <3>1
      <4> QED BY <3>1, <4>1 DEF After
    <3>2. CASE in[g] = <<written[r], FrameSize>>
      <4>1. in[g][1] = written[r] /\ ~(in[g][2] < FrameSize)
        BY <3>2, Sizes
      <4> QED BY <4>1 DEF After
    <3> QED BY <2>4, <3>1, <3>2
  <2>6. Len(delivered'[e]) = written[r]
    BY <1>1, <1>5, <2>2, <2>5
  <2> QED BY <1>1, <1>4, <1>10, <2>6 DEF LastLeft
<1>11. CASE rest # <<>>
  <2>1. Len(rest) \in 1 .. Len(in) - g /\ g + Len(rest) = Len(in)
    <3>1. Len(rest) # 0 /\ Len(rest) = Len(in) - g
      BY <1>9, <1>11
    <3> QED BY <1>8, <3>1
  <2>2. rest[Len(rest)] = in[Len(in)]
    BY <1>3, <2>1
  <2> QED BY <1>4, <1>6, <1>11, <2>2 DEF LastLeft
<1> QED BY <1>10, <1>11

\* Half a header is of a frame that was not written.
LEMMA HalfKept ==
    ASSUME StreamInv, NEW e \in End, ReadHeader(e), ~(Len(stream[Other[e]]) >= HeaderSize),
           LastLeft(Other[e])
    PROVE  LastLeft(Other[e])'
<1> DEFINE r == Other[e]
           d == Len(delivered[e])
<1>1. r \in End /\ Other[r] = e /\ TypeOK /\ written[r] \in Nat /\ d \in Nat
  BY Ends, EndTypes DEF StreamInv
<1>2. /\ Len(stream[r]) = 1 /\ stream[r][1] = <<d + 1, 1>>
      /\ stream' = [stream EXCEPT ![r] = <<>>]
  BY HalfHeader
<1>3. written' = written /\ delivered' = delivered /\ stream[r] # <<>>
  BY DEF ReadHeader
<1>4. d = written[r]
  <2>1. <<d + 1, 1>>[1] = written[r] + 1 \/ <<d + 1, 1>> = <<written[r], FrameSize>>
    BY <1>2, <1>3 DEF LastLeft
  <2>2. FrameSize # 1
    BY Sizes
  <2> QED BY <1>1, <2>1, <2>2
<1>5. stream'[r] = <<>>
  BY <1>1, <1>2 DEF TypeOK
<1> QED BY <1>1, <1>3, <1>4, <1>5 DEF LastLeft

\* Every system call leaves what can still be read.
LEMMA KeptStep == StreamInv /\ KeptInv /\ [Next]_vars => KeptInv'
<1> SUFFICES ASSUME StreamInv, KeptInv, [Next]_vars,
                    NEW x \in End, ~open'[x], open'[Other[x]]
             PROVE  LastLeft(x)'
  BY DEF KeptInv, Kept
<1>1. /\ Other[x] \in End /\ Other[x] # x /\ Other[Other[x]] = x /\ TypeOK /\ Kept(x)
      /\ open[x] => Kept(x)
  BY Ends, AllKept DEF StreamInv
<1>2. ASSUME NEW e \in End, WriteHeader(e) PROVE LastLeft(x)'
  BY <1>2, HeaderGiven, WriteKept
<1>3. ASSUME NEW e \in End, WritePayload(e) PROVE LastLeft(x)'
  BY <1>3, PayloadGiven, WriteKept, Sizes
<1>4. ASSUME NEW e \in End, ReadHeader(e) PROVE LastLeft(x)'
  <2>1. /\ open' = open /\ written' = written /\ delivered' = delivered
        /\ \A y \in End : y # Other[e] => stream'[y] = stream[y]
    BY <1>1, <1>4 DEF ReadHeader, TypeOK
  <2>2. LastLeft(x)
    BY <1>1, <2>1 DEF Kept
  <2>3. CASE x = Other[e] /\ Len(stream[Other[e]]) >= HeaderSize
    BY <1>4, <2>2, <2>3, HeaderReads, ReadKept
  <2>4. CASE x = Other[e] /\ ~(Len(stream[Other[e]]) >= HeaderSize)
    BY <1>4, <2>2, <2>4, HalfKept
  <2>5. CASE x # Other[e]
    BY <2>1, <2>2, <2>5, KeptUntouched
  <2> QED BY <2>3, <2>4, <2>5
<1>5. ASSUME NEW e \in End, ReadPayload(e) PROVE LastLeft(x)'
  <2>1. /\ open' = open /\ written' = written /\ Got(e) \in Nat /\ Reads(e, Got(e))
        /\ \A y \in End : y # Other[e] => stream'[y] = stream[y]
        /\ \A y \in End : y # e => delivered'[y] = delivered[y]
    <3>1. Got(e) \in Nat /\ Reads(e, Got(e))
      BY <1>5, PayloadReads
    <3> QED BY <1>1, <3>1 DEF Reads, TypeOK
  <2>2. LastLeft(x)
    BY <1>1, <2>1 DEF Kept
  <2>3. CASE x = Other[e]
    BY <2>1, <2>2, <2>3, ReadKept
  <2>4. CASE x # Other[e]
    <3>1. Other[x] # e
      BY <1>1, <2>4
    <3> QED BY <1>1, <2>1, <2>2, <2>4, <3>1, KeptUntouched
  <2> QED BY <2>3, <2>4
<1>6. ASSUME NEW e \in End, Closing(e) PROVE LastLeft(x)'
  <2>1. /\ open[e] /\ Shut(e) /\ UNCHANGED <<written, delivered>>
        /\ stream' = [stream EXCEPT ![Other[e]] = <<>>]
    BY <1>1, <1>6, ClosingShuts
  <2>2. open'[e] = FALSE /\ \A y \in End : y # e => open'[y] = open[y]
    BY <1>1, <2>1 DEF Shut, TypeOK
  <2>3. Other[x] # e /\ open[Other[x]] /\ x # Other[e]
    BY <1>1, <2>2, Ends
  <2>4. LastLeft(x) /\ stream'[x] = stream[x]
    BY <1>1, <2>1, <2>3 DEF Kept, TypeOK
  <2> QED BY <2>1, <2>4, KeptUntouched
<1>7. CASE UNCHANGED vars
  <2>1. LastLeft(x)
    BY <1>1, <1>7 DEF Kept, vars
  <2> QED BY <1>7, <2>1, KeptUntouched DEF vars
<1> QED BY <1>2, <1>3, <1>4, <1>5, <1>6, <1>7 DEF Next, Read, Closing

(***************************************************************************)
(* The theorems.                                                           *)
(***************************************************************************)
\* A new connection: nothing is written and the reader is at a first byte.
LEMMA StreamInit == Init => StreamInv
<1> SUFFICES ASSUME Init PROVE StreamInv
  OBVIOUS
<1>1. TypeOK
  <2>1. /\ <<>> \in Seq((1 .. MaxFrames) \X (1 .. HeaderSize + PayloadSize)) /\ Len(<<>>) <= SockBuf
        /\ <<>> \in Seq(1 .. MaxFrames)
        /\ 0 \in 0 .. PayloadSize /\ 0 \in 0 .. MaxFrames
    BY Sizes, EmptySeq
  <2> QED BY <2>1 DEF Init, TypeOK
<1>2. ASSUME NEW e \in End PROVE Direction(e)
  <2>1. /\ Other[e] \in End /\ stream[e] = <<>> /\ open[e] /\ ~writing[e] /\ left[e] = 0
        /\ written[e] = 0
    BY <1>2, Ends DEF Init
  <2>2. open[Other[e]] /\ left[Other[e]] = 0 /\ delivered[Other[e]] = <<>>
    BY <2>1 DEF Init
  <2>3. Expected(Other[e]) = NextOut(e)
    BY <2>1, <2>2, EmptySeq DEF Expected, NextOut
  <2> QED BY <2>1, <2>2, <2>3 DEF Direction, Run, Whole, InStep, Local
<1> QED BY <1>1, <1>2 DEF StreamInv

\* The invariant is kept by every system call of either process.
LEMMA StreamStep == StreamInv /\ [Next]_vars => StreamInv'
<1> SUFFICES ASSUME StreamInv, [Next]_vars PROVE StreamInv'
  OBVIOUS
<1>1. ASSUME NEW e \in End, WriteHeader(e) PROVE StreamInv'
  BY <1>1, WriteHeaderStep
<1>2. ASSUME NEW e \in End, WritePayload(e) PROVE StreamInv'
  BY <1>2, WritePayloadStep
<1>3. ASSUME NEW e \in End, ReadHeader(e) PROVE StreamInv'
  BY <1>3, ReadHeaderStep
<1>4. ASSUME NEW e \in End, ReadPayload(e) PROVE StreamInv'
  BY <1>4, ReadPayloadStep
<1>5. ASSUME NEW e \in End, Closing(e) PROVE StreamInv'
  BY <1>5, ClosingStep
<1>6. CASE UNCHANGED vars
  BY <1>6 DEF vars, StreamInv, TypeOK, Direction, Run, Whole, InStep, Local,
              Expected, LastOut, NextOut
<1> QED BY <1>1, <1>2, <1>3, <1>4, <1>5, <1>6 DEF Next, Read, Closing

\* The invariant of transport_unix.c's connections.
THEOREM StreamInvariant == Spec => []StreamInv
<1> QED BY StreamInit, StreamStep, PTL DEF Spec

(* The state of a connection keeps its types: the kernel's buffer is not   *)
(* overrun, the payload that is left never goes below zero, and no frame   *)
(* is read that was not among those written.                               *)
THEOREM StreamTypes == Spec => []TypeOK
<1>1. StreamInv => TypeOK
  BY DEF StreamInv
<1> QED BY <1>1, StreamInvariant, PTL

(* Neither short writes, reads of a part, nor an end that closes make a    *)
(* reader of transport_unix.c take a byte of payload for a length.         *)
THEOREM AlignedTheorem == Spec => []Aligned
<1>1. StreamInv => Aligned
  <2> SUFFICES ASSUME StreamInv, NEW e \in End, open[e], stream[Other[e]] # <<>>
               PROVE  Head(stream[Other[e]]) =
                        << Len(delivered[e]) + 1,
                           IF left[e] = 0 THEN 1 ELSE HeaderSize + PayloadSize - left[e] + 1 >>
    BY DEF Aligned
  <2>1. /\ Other[e] \in End /\ Other[Other[e]] = e /\ TypeOK /\ InStep(Other[e])
    BY Ends DEF StreamInv, Direction
  <2>2. stream[Other[e]][1] = Expected(e)
    BY <2>1 DEF InStep
  <2>3. Head(stream[Other[e]]) = stream[Other[e]][1]
    BY <2>1, EndTypes, HeadTailProperties
  <2>4. Expected(e) = << Len(delivered[e]) + 1,
                         IF left[e] = 0 THEN 1 ELSE HeaderSize + PayloadSize - left[e] + 1 >>
    <3>1. CASE left[e] = 0
      BY <3>1 DEF Expected
    <3>2. CASE left[e] # 0
      <4>1. left[e] \in 0 .. PayloadSize
        BY <2>1, EndTypes
      <4>2. FrameSize - left[e] + 1 = HeaderSize + PayloadSize - left[e] + 1
        BY <4>1, Sizes
      <4> QED BY <3>2, <4>2 DEF Expected
    <3> QED BY <3>1, <3>2
  <2> QED BY <2>2, <2>3, <2>4
<1> QED BY <1>1, StreamInvariant, PTL

\* Every system call is a step of the queue of frames, or leaves it alone.
LEMMA ChannelStep ==
    StreamInv /\ KeptInv /\ [Next]_vars => [Channel!ChannelNext]_(Channel!channelVars)
<1> SUFFICES ASSUME StreamInv, KeptInv, [Next]_vars
             PROVE  Channel!ChannelNext \/ UNCHANGED Channel!channelVars
  OBVIOUS
<1> USE DEF Channel!channelVars
<1>1. ASSUME NEW e \in End, Shut(e), open[e], UNCHANGED <<written, delivered, alive>>,
             open[Other[e]] \/ Len(delivered[e]) = written[Other[e]]
      PROVE  Channel!ChannelNext
  BY <1>1 DEF Shut, Channel!ChannelNext, Channel!Close
<1>2. ASSUME NEW e \in End, WriteHeader(e)
      PROVE  Channel!ChannelNext \/ UNCHANGED Channel!channelVars
  BY <1>1, <1>2 DEF WriteHeader, Write
<1>3. ASSUME NEW e \in End, WritePayload(e)
      PROVE  Channel!ChannelNext \/ UNCHANGED Channel!channelVars
  <2>1. TypeOK /\ Len(Payload(written[e] + 1)) = PayloadSize
    BY Sizes DEF StreamInv, Payload
  <2>2. CASE WholeWrite(e, PayloadSize)
    <3>1. /\ open[e] /\ open[Other[e]] /\ UNCHANGED <<open, delivered, alive>>
          /\ written' = [written EXCEPT ![e] = @ + 1]
      BY <1>3, <2>1, <2>2 DEF WritePayload, Write
    <3> QED BY <3>1 DEF Channel!ChannelNext, Channel!WriteFrame
  <2>3. CASE ~WholeWrite(e, PayloadSize)
    <3>1. /\ open[e] /\ open[Other[e]] /\ Shut(e)
          /\ UNCHANGED <<delivered, written, alive>>
      BY <1>3, <2>1, <2>3 DEF WritePayload, Write, TypeOK
    <3> QED BY <1>1, <3>1
  <2> QED BY <2>2, <2>3
<1>4. ASSUME NEW e \in End, ReadHeader(e) PROVE UNCHANGED Channel!channelVars
  BY <1>4 DEF ReadHeader
<1>5. ASSUME NEW e \in End, ReadPayload(e)
      PROVE  Channel!ChannelNext \/ UNCHANGED Channel!channelVars
  <2>1. /\ TypeOK /\ open[e] /\ UNCHANGED <<open, written, alive>>
        /\ delivered' = IF Got(e) = left[e]
                          THEN [delivered EXCEPT ![e] = Append(@, stream[Other[e]][Got(e)][1])]
                          ELSE delivered
    BY <1>5 DEF StreamInv, ReadPayload, CanRead
  <2>2. CASE Got(e) = left[e]
    <3>1. /\ stream[Other[e]][Got(e)][1] = Len(delivered[e]) + 1
          /\ Len(delivered[e]) < written[Other[e]]
      <4>1. /\ stream[Other[e]][Got(e)] = <<Len(delivered[e]) + 1, FrameSize - left[e] + Got(e)>>
            /\ Len(delivered[e]) < written[Other[e]]
        BY <1>5, <2>2, PayloadBytes
      <4> QED BY <4>1
    <3>2. delivered' = [delivered EXCEPT ![e] = Append(@, Len(@) + 1)]
      BY <2>1, <2>2, <3>1
    <3> QED BY <2>1, <3>1, <3>2 DEF Channel!ChannelNext, Channel!ReadFrame
  <2> QED BY <2>1, <2>2
<1>6. ASSUME NEW e \in End, ReadEof(e) \/ ReadNothing(e) PROVE Channel!ChannelNext
  <2>1. /\ open[e] /\ Shut(e) /\ UNCHANGED <<written, delivered, alive>>
        /\ stream[Other[e]] = <<>>
    BY <1>6 DEF ReadEof, ReadNothing, CanRead, Drained
  <2>2. Other[e] \in End /\ Other[Other[e]] = e
    BY Ends
  <2>3. Len(delivered[e]) = written[Other[e]]
    <3>1. Kept(Other[e])
      BY <2>2, AllKept
    <3> QED BY <2>1, <2>2, <3>1 DEF Kept, LastLeft
  <2> QED BY <1>1, <2>1, <2>3
<1>8. ASSUME NEW e \in End, WriteBroken(e) \/ Stop(e) PROVE Channel!ChannelNext
  BY <1>8 DEF WriteBroken, Stop, Shut, Channel!ChannelNext, Channel!EndProcess
<1>7. CASE UNCHANGED vars
  BY <1>7 DEF vars
<1> QED BY <1>2, <1>3, <1>4, <1>5, <1>6, <1>7, <1>8 DEF Next, Read

(* A connection of transport_unix.c implements what mesh.c relies on: in   *)
(* each direction a queue of whole frames, in order, each once.  It is cut *)
(* off only by the end that closes first or by a process that ends: who    *)
(* closes because the other end is gone has read every frame.              *)
THEOREM ChannelTheorem == Spec => ImplementsFrameChannel
<1>1. Init => Channel!ChannelInit /\ KeptInv
  BY Ends DEF Init, Channel!ChannelInit, KeptInv
<1>2. Spec => []KeptInv
  BY <1>1, StreamInvariant, KeptStep, PTL DEF Spec
<1> QED BY <1>1, <1>2, StreamInvariant, ChannelStep, PTL
        DEF Spec, ImplementsFrameChannel, Channel!ChannelSpec

=============================================================================
