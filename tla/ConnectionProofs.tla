-------------------------- MODULE ConnectionProofs --------------------------
(***************************************************************************)
(* Proofs about one direction of a connection, for any sizes of frames,    *)
(* buffers, pieces and sockets, plaintext or TLS, whatever the peer does:  *)
(* the frames that are processed are the frames that were sent, in order,  *)
(* and nothing is held back that a buffer of its own has brought.          *)
(*                                                                         *)
(* A byte <<k, j>> knows its frame and its place there, so that the order  *)
(* of the stream can be stated of two bytes and the distance between them, *)
(* without adding up the sizes of the frames before.                       *)
(***************************************************************************)
EXTENDS Connection, TLAPS

-----------------------------------------------------------------------------

\* The order of the stream.

Byte  == (Nat \ {0}) \X (Nat \ {0})
Entry == [buffer : Nat, offset : Nat]
Frame == [size : BodySize, outcome : {"handled", "throws"}]

Size(frames, k) == LenSize + frames[k].size

\* A byte of a frame that was sent.
IsByte(frames, a) == a[1] \in DOMAIN frames /\ a[2] \in 1..Size(frames, a[1])

\* b is d places behind a in the stream, if that is no further than the first byte of
\* the next frame.
After(frames, a, d, b) ==
    /\ a[2] + d <= Size(frames, a[1]) => b = <<a[1], a[2] + d>>
    /\ a[2] + d = Size(frames, a[1]) + 1 => b = <<a[1] + 1, 1>>

\* s is a stretch of the stream, and b the byte behind it.
Upto(frames, s, b) ==
    \A i \in 1..Len(s) :
        /\ IsByte(frames, s[i])
        /\ \A n \in (i + 1)..Len(s) : After(frames, s[i], n - i, s[n])
        /\ After(frames, s[i], Len(s) + 1 - i, b)

\* The first byte of s, or of what is behind it.
First(s, b) == IF s # <<>> THEN s[1] ELSE b

\* A frame has a header, so that it has a first byte.
LEMMA SizeTyped ==
    ASSUME NEW frames \in Seq(Frame), NEW k \in DOMAIN frames
    PROVE  /\ k \in 1..Len(frames) /\ frames[k] \in Frame
           /\ frames[k].size \in BodySize /\ frames[k].size \in Nat
           /\ Size(frames, k) \in Nat /\ LenSize <= Size(frames, k) /\ LenSize >= 1
<1>1. k \in 1..Len(frames) /\ frames[k] \in Frame
  OBVIOUS
<1>2. frames[k].size \in BodySize /\ frames[k].size \in Nat /\ LenSize \in Nat \ {0}
  BY <1>1, ConnectionAssumption DEF Frame
<1> QED BY <1>1, <1>2 DEF Size

\* Distances add up.
LEMMA AfterTrans ==
    ASSUME NEW frames \in Seq(Frame), NEW a \in Byte, IsByte(frames, a), NEW b \in Byte,
               IsByte(frames, b), NEW c,
           NEW d \in Nat \ {0}, NEW e \in Nat \ {0}, After(frames, a, d, b), After(frames, b, e, c)
    PROVE  After(frames, a, d + e, c)
<1>1. a[1] \in Nat /\ a[2] \in Nat
  BY DEF Byte
<1>2. Size(frames, a[1]) \in Nat
  BY SizeTyped DEF IsByte
<1>3. ASSUME a[2] + d <= Size(frames, a[1]) PROVE b[1] = a[1] /\ b[2] = a[2] + d
  BY <1>3 DEF After
<1> QED BY SMTT(30), <1>1, <1>2, <1>3 DEF After

\* Two stretches, the second where the first ends.
LEMMA UptoConcat ==
    ASSUME NEW frames \in Seq(Frame), NEW s \in Seq(Byte), NEW t \in Seq(Byte), NEW b,
           Upto(frames, s, First(t, b)), Upto(frames, t, b)
    PROVE  Upto(frames, s \o t, b) /\ First(s \o t, b) = First(s, First(t, b))
<1>1. CASE t = <<>>
  BY <1>1 DEF First
<1>2. CASE t # <<>>
  <2> DEFINE u == s \o t
  <2>1. /\ Len(u) = Len(s) + Len(t) /\ Len(s) \in Nat /\ Len(t) \in Nat \ {0}
        /\ \A i \in 1..Len(s) : u[i] = s[i] /\ s[i] \in Byte
        /\ \A i \in (Len(s) + 1)..Len(u) : u[i] = t[i - Len(s)]
        /\ \A i \in 1..Len(t) : t[i] \in Byte
    BY <1>2
  <2>2. ASSUME NEW i \in 1..Len(s) 
        PROVE  /\ IsByte(frames, u[i])
               /\ \A n \in (i + 1)..Len(u) : After(frames, u[i], n - i, u[n])
               /\ After(frames, u[i], Len(u) + 1 - i, b)
    <3>1. IsByte(frames, s[i]) /\ After(frames, s[i], Len(s) + 1 - i, t[1])
      BY <1>2 DEF Upto, First
    <3>2. s[i] \in Byte /\ t[1] \in Byte /\ Len(s) + 1 - i \in Nat \ {0}
      BY <2>1
    <3>3. ASSUME NEW n \in (Len(s) + 1)..Len(u) PROVE After(frames, s[i], n - i, u[n])
      <4>1. CASE n = Len(s) + 1
        BY <2>1, <3>1, <4>1
      <4>2. CASE n # Len(s) + 1
        <5> DEFINE p == n - Len(s)
                   y == Len(u)
        <5>a. u[n] = t[p]
          BY <2>1
        <5>b. /\ n \in (Len(s) + 1)..y /\ n # Len(s) + 1 /\ y = Len(s) + Len(t)
              /\ Len(s) \in Nat /\ Len(t) \in Nat
          BY <2>1, <4>2
        <5> DEFINE l == Len(s)
                   r == Len(t)
        <5>c. n \in (l + 1)..y /\ n # l + 1 /\ y = l + r /\ l \in Nat /\ r \in Nat
          BY <5>b
        <5> HIDE DEF u, y, l, r
        <5>d. n - l \in 2..r /\ n - l - 1 \in Nat \ {0}
          BY ONLY <5>c
        <5>1. p \in 2..Len(t) /\ p - 1 \in Nat \ {0} /\ u[n] = t[p]
          BY ONLY <5>a, <5>d DEF l, r
        <5>2. IsByte(frames, t[1]) /\ After(frames, t[1], p - 1, t[p])
          <6>1. 1 \in 1..Len(t) /\ p \in (1 + 1)..Len(t)
            BY <5>1, <5>b
          <6> HIDE DEF p
          <6> QED BY <6>1 DEF Upto
        <5>3. (Len(s) + 1 - i) + (p - 1) = n - i
          BY <5>b
        <5> HIDE DEF p
        <5> QED BY ZenonT(40), <3>1, <3>2, <5>1, <5>2, <5>3, AfterTrans
      <4> QED BY <4>1, <4>2
    <3>4. After(frames, s[i], Len(u) + 1 - i, b)
      <4>1. IsByte(frames, t[1]) /\ After(frames, t[1], Len(t), b)
        BY <2>1 DEF Upto
      <4>2. (Len(s) + 1 - i) + Len(t) = Len(u) + 1 - i /\ Len(t) \in Nat \ {0}
        BY <2>1
      <4> HIDE DEF u
      <4> QED BY <3>1, <3>2, <4>1, <4>2, AfterTrans
    <3>5. ASSUME NEW n \in (i + 1)..Len(s) PROVE After(frames, u[i], n - i, u[n])
      <4>1. u[i] = s[i] /\ u[n] = s[n]
        BY <2>1
      <4> HIDE DEF u
      <4> QED BY <4>1 DEF Upto
    <3>6. u[i] = s[i]
      BY <2>1
    <3>7. (i + 1)..Len(u) \subseteq ((i + 1)..Len(s)) \cup ((Len(s) + 1)..Len(u))
      BY <2>1
    <3> HIDE DEF u
    <3>8. \A n \in (i + 1)..Len(s) : After(frames, u[i], n - i, u[n])
      BY <3>5
    <3>9. \A n \in (Len(s) + 1)..Len(u) : After(frames, u[i], n - i, u[n])
      BY <3>3, <3>6
    <3> QED BY ONLY <3>1, <3>4, <3>6, <3>7, <3>8, <3>9
  <2>3. ASSUME NEW i \in (Len(s) + 1)..Len(u)
        PROVE  /\ IsByte(frames, u[i])
               /\ \A n \in (i + 1)..Len(u) : After(frames, u[i], n - i, u[n])
               /\ After(frames, u[i], Len(u) + 1 - i, b)
    <3> DEFINE p == i - Len(s)
    <3>1. p \in 1..Len(t) /\ u[i] = t[p] /\ Len(u) + 1 - i = Len(t) + 1 - p
      BY <2>1
    <3>2. IsByte(frames, t[p]) /\ After(frames, t[p], Len(t) + 1 - p, b)
      BY <3>1 DEF Upto
    <3>3. ASSUME NEW n \in (i + 1)..Len(u) PROVE After(frames, u[i], n - i, u[n])
      <4>1. n - Len(s) \in (p + 1)..Len(t) /\ u[n] = t[n - Len(s)] /\ (n - Len(s)) - p = n - i
        BY <2>1
      <4>2. After(frames, t[p], (n - Len(s)) - p, t[n - Len(s)])
        BY <3>1, <4>1 DEF Upto
      <4> QED BY <3>1, <4>1, <4>2
    <3> QED BY <3>1, <3>2, <3>3
  <2>4. Upto(frames, u, b)
    <3>1. 1..Len(u) = (1..Len(s)) \cup ((Len(s) + 1)..Len(u))
      BY <2>1
    <3> HIDE DEF u
    <3> QED BY <2>2, <2>3, <3>1 DEF Upto
  <2>5. First(u, b) = First(s, First(t, b))
    BY <1>2, <2>1 DEF First
  <2> QED BY <2>4, <2>5
<1> QED BY <1>1, <1>2

\* The two parts of a stretch.
LEMMA UptoParts ==
    ASSUME NEW frames \in Seq(Frame), NEW s \in Seq(Byte), NEW b, Upto(frames, s, b),
               NEW n \in 0..Len(s)
    PROVE  LET front == SubSeq(s, 1, n)
               back  == SubSeq(s, n + 1, Len(s))
           IN  /\ front \in Seq(Byte) /\ back \in Seq(Byte)
               /\ Len(front) = n /\ Len(back) = Len(s) - n
               /\ \A i \in 1..n : front[i] = s[i]
               /\ \A i \in 1..(Len(s) - n) : back[i] = s[n + i]
               /\ Upto(frames, front, First(back, b)) /\ Upto(frames, back, b)
               /\ First(front, First(back, b)) = First(s, b)
<1> DEFINE front == SubSeq(s, 1, n)
           back  == SubSeq(s, n + 1, Len(s))
           next  == First(back, b)
<1>1. /\ front \in Seq(Byte) /\ back \in Seq(Byte)
      /\ Len(front) = n /\ Len(back) = Len(s) - n
      /\ \A i \in 1..n : front[i] = s[i]
      /\ \A i \in 1..(Len(s) - n) : back[i] = s[n + i]
  OBVIOUS
<1> HIDE DEF front, back
<1>2. next = IF n < Len(s) THEN s[n + 1] ELSE b
  <2>1. CASE n < Len(s)
    <3>1. back # <<>> /\ back[1] = s[n + 1]
      BY SMTT(30), <1>1, <2>1
    <3> QED BY <2>1, <3>1 DEF First
  <2>2. CASE ~(n < Len(s))
    <3>1. Len(back) = 0 /\ back = <<>>
      BY <1>1, <2>2
    <3> QED BY <2>2, <3>1 DEF First
  <2> QED BY <2>1, <2>2
<1> HIDE DEF next
<1>3. Upto(frames, back, b)
  <2> SUFFICES ASSUME NEW i \in 1..Len(back)
               PROVE  /\ IsByte(frames, back[i])
                      /\ \A m \in (i + 1)..Len(back) : After(frames, back[i], m - i, back[m])
                      /\ After(frames, back[i], Len(back) + 1 - i, b)
    BY DEF Upto
  <2>1. n + i \in 1..Len(s) /\ Len(s) + 1 - (n + i) = Len(back) + 1 - i /\ back[i] = s[n + i]
    BY <1>1
  <2>2. IsByte(frames, s[n + i]) /\ After(frames, s[n + i], Len(s) + 1 - (n + i), b)
    BY <2>1 DEF Upto
  <2>3. ASSUME NEW m \in (i + 1)..Len(back) PROVE After(frames, back[i], m - i, back[m])
    <3>1. n + m \in (n + i + 1)..Len(s) /\ back[m] = s[n + m] /\ (n + m) - (n + i) = m - i
      BY SMTT(30), <1>1
    <3>2. After(frames, s[n + i], (n + m) - (n + i), s[n + m])
      BY <2>1, <3>1 DEF Upto
    <3> QED BY <2>1, <3>1, <3>2
  <2> QED BY <2>1, <2>2, <2>3
<1>4. Upto(frames, front, next)
  <2> SUFFICES ASSUME NEW i \in 1..n
               PROVE  /\ IsByte(frames, s[i])
                      /\ \A m \in (i + 1)..n : After(frames, s[i], m - i, s[m])
                      /\ After(frames, s[i], n + 1 - i, next)
    BY <1>1 DEF Upto
  <2>1. /\ IsByte(frames, s[i])
        /\ \A m \in (i + 1)..Len(s) : After(frames, s[i], m - i, s[m])
        /\ After(frames, s[i], Len(s) + 1 - i, b)
    BY DEF Upto
  <2>2. CASE n < Len(s)
    BY <1>2, <2>1, <2>2
  <2>3. CASE ~(n < Len(s))
    <3>1. n = Len(s)
      BY <2>3
    <3> QED BY <1>2, <2>1, <3>1
  <2> QED BY <2>2, <2>3
<1>5. First(front, next) = First(s, b)
  BY <1>1, <1>2 DEF First
<1> QED BY <1>1, <1>3, <1>4, <1>5 DEF front, back, next

\* The bytes at the front of a stretch that starts within a frame.
LEMMA FrontOfFrame ==
    ASSUME NEW frames \in Seq(Frame), NEW s \in Seq(Byte), NEW b, Upto(frames, s, b),
           NEW m \in DOMAIN frames, NEW j \in 1..Size(frames, m), First(s, b) = <<m, j>>,
           NEW n \in 0..Len(s), j + n <= Size(frames, m) + 1
    PROVE  LET back == SubSeq(s, n + 1, Len(s))
           IN  /\ \A i \in 1..n : s[i] = <<m, j + i - 1>>
               /\ SubSeq(s, 1, n) = Reader!Bytes(m, j, j + n - 1)
               /\ j + n <= Size(frames, m) => First(back, b) = <<m, j + n>>
               /\ j + n = Size(frames, m) + 1 => First(back, b) = <<m + 1, 1>>
<1> DEFINE back == SubSeq(s, n + 1, Len(s))
<1>1. Size(frames, m) \in Nat /\ m \in Nat /\ j \in Nat \ {0} /\ n \in Nat
  BY SizeTyped
<1>4. /\ back \in Seq(Byte) /\ Len(back) = Len(s) - n
      /\ \A i \in 1..(Len(s) - n) : back[i] = s[n + i]
  OBVIOUS
<1> HIDE DEF back
<1>2. CASE n = 0
  <2>1. back = s /\ SubSeq(s, 1, n) = <<>>
    BY <1>2 DEF back
  <2>2. Reader!Bytes(m, j, j + n - 1) = <<>>
    BY <1>1, <1>2 DEF Reader!Bytes
  <2>3. j + n # Size(frames, m) + 1 /\ j + n = j
    BY <1>1, <1>2
  <2>4. \A i \in 1..n : s[i] = <<m, j + i - 1>>
    BY <1>2
  <2> QED BY <2>1, <2>2, <2>3, <2>4 DEF back
<1>3. CASE n # 0
  <2>1. s # <<>> /\ s[1] = <<m, j>> /\ 1 \in 1..Len(s)
    BY <1>3 DEF First
  <2>2. /\ \A i \in 2..Len(s) : After(frames, <<m, j>>, i - 1, s[i])
        /\ After(frames, <<m, j>>, Len(s), b)
    BY <2>1 DEF Upto
  <2>3. ASSUME NEW i \in 1..n PROVE s[i] = <<m, j + i - 1>>
    <3>1. CASE i = 1
      BY <1>1, <2>1, <3>1
    <3>2. CASE i # 1
      <4>1. i \in 2..Len(s) /\ j + (i - 1) <= Size(frames, m)
        BY <1>1, <3>2
      <4>2. s[i] = <<m, j + (i - 1)>>
        BY <2>2, <4>1 DEF After
      <4> QED BY <1>1, <4>2
    <3> QED BY <3>1, <3>2
  <2>4. SubSeq(s, 1, n) = Reader!Bytes(m, j, j + n - 1)
    <3>1. SubSeq(s, 1, n) = [i \in 1..n |-> s[i]]
      OBVIOUS
    <3>2. Reader!Bytes(m, j, j + n - 1) = [i \in 1..n |-> <<m, j + i - 1>>]
      BY <1>1 DEF Reader!Bytes
    <3> QED BY <2>3, <3>1, <3>2
  <2>5. After(frames, <<m, j>>, n, First(back, b))
    <3>1. CASE n < Len(s)
      <4>1. Len(back) = Len(s) - n /\ back[1] = s[n + 1] /\ n + 1 \in 2..Len(s)
        BY <1>1, <1>3, <1>4, <3>1
      <4>2. back # <<>>
        BY <3>1, <4>1
      <4>3. After(frames, <<m, j>>, (n + 1) - 1, s[n + 1])
        BY <2>2, <4>1
      <4>4. (n + 1) - 1 = n
        BY <1>1
      <4> QED BY <4>1, <4>2, <4>3, <4>4 DEF First
    <3>2. CASE ~(n < Len(s))
      <4>1. n = Len(s) /\ back = <<>>
        BY <1>4, <3>2
      <4> QED BY <2>2, <4>1 DEF First
    <3> QED BY <3>1, <3>2
  <2> QED BY <2>3, <2>4, <2>5 DEF After, back
<1> QED BY <1>2, <1>3

\* Its first conjunct alone, for those who ask for no more.
LEMMA FrontBytes ==
    ASSUME NEW frames \in Seq(Frame), NEW s \in Seq(Byte), NEW b, Upto(frames, s, b),
           NEW m \in DOMAIN frames, NEW j \in 1..Size(frames, m), First(s, b) = <<m, j>>,
           NEW n \in 0..Len(s), j + n <= Size(frames, m) + 1
    PROVE  \A i \in 1..n : s[i] = <<m, j + i - 1>>
BY FrontOfFrame

\* All that is left of the frame.
LEMMA FrontToEnd ==
    ASSUME NEW frames \in Seq(Frame), NEW s \in Seq(Byte), NEW b, Upto(frames, s, b),
           NEW m \in DOMAIN frames, NEW j \in 1..Size(frames, m), First(s, b) = <<m, j>>,
           NEW n \in 0..Len(s), j + n = Size(frames, m) + 1
    PROVE  /\ SubSeq(s, 1, n) = Reader!Bytes(m, j, j + n - 1)
           /\ First(SubSeq(s, n + 1, Len(s)), b) = <<m + 1, 1>>
<1>1. j + n <= Size(frames, m) + 1
  BY SizeTyped
<1> QED BY <1>1, FrontOfFrame

-----------------------------------------------------------------------------

\* The invariant.

\* The first byte that was not written yet, not read, and not received.
ToWrite ==
    IF write_queue = <<>> THEN <<Len(sent) + 1, 1>>
    ELSE <<write_queue[1].buffer, write_queue[1].offset + 1>>
ToRead    == First(socket, ToWrite)
ToReceive == IF bufs = <<>> THEN ToRead ELSE bufs[1][1]

\* The byte behind the n-th buffer of the batch.
Behind(n) == IF n < Len(bufs) THEN bufs[n + 1][1] ELSE ToRead

Lengths == {Reader!NoLen} \cup BodySize \cup Garbled

\* The variables that hold the stream.
StreamTyped ==
    /\ sent \in Seq(Frame) /\ Len(sent) <= MaxFrames
    /\ write_queue \in Seq(Entry)
    /\ socket \in Seq(Byte) /\ bufs \in Seq(Seq(Byte)) /\ fbuf \in Seq(Byte)
    /\ len \in Lengths /\ processed \in Seq(Seq(Byte))
    /\ running \in BOOLEAN /\ lost \in BOOLEAN /\ crowded \in BOOLEAN /\ delivering \in BOOLEAN
    /\ secure \in BOOLEAN

\* The queue holds the last of the frames that were sent; only the first may have been
\* written in part.
QueueInv ==
    /\ Len(write_queue) <= Len(sent)
    /\ \A n \in 1..Len(write_queue) :
        /\ write_queue[n].buffer = Len(sent) - Len(write_queue) + n
        /\ write_queue[n].offset < Size(sent, write_queue[n].buffer)
        /\ n > 1 => write_queue[n].offset = 0

\* The socket and each buffer of the batch are stretches of the stream, one behind the
\* other, up to what was not written.
WireInv ==
    /\ Upto(sent, socket, ToWrite)
    /\ \A n \in 1..Len(bufs) : bufs[n] # <<>> /\ Upto(sent, bufs[n], Behind(n))
    /\ delivering => bufs # <<>>

\* As long as no exception has dropped a buffer, the frame reader holds what comes before
\* them, from the frame on that is processed next, or from its body on.
ReaderInv ==
    ~lost =>
        /\ running
        /\ Upto(sent, fbuf, ToReceive)
        /\ First(fbuf, ToReceive) =
                <<Len(processed) + 1, IF len = Reader!NoLen THEN 1 ELSE LenSize + 1>>
        /\ len # Reader!NoLen =>
                /\ Len(processed) < Len(sent)
                /\ len = sent[Len(processed) + 1].size
                /\ Len(fbuf) < len
        /\ Len(processed) <= Len(sent)
        /\ \A k \in 1..Len(processed) : processed[k] = Reader!Body(k)

StreamInv == StreamTyped /\ QueueInv /\ WireInv /\ ReaderInv

\* At the start there is nothing.
LEMMA StreamInit == Init => StreamInv
<1> SUFFICES ASSUME Init PROVE StreamInv
  OBVIOUS
<1>1. /\ sent = <<>> /\ write_queue = <<>> /\ socket = <<>> /\ bufs = <<>> /\ fbuf = <<>>
      /\ processed = <<>> /\ len = Reader!NoLen /\ running = TRUE /\ lost = FALSE
      /\ crowded = FALSE /\ delivering = FALSE /\ secure \in BOOLEAN
  BY DEF Init, Handler!HandlerInit, Handler!Init, Reader!Init
<1>2. StreamTyped
  <2>1. /\ sent \in Seq(Frame) /\ write_queue \in Seq(Entry)
        /\ socket \in Seq(Byte) /\ bufs \in Seq(Seq(Byte)) /\ fbuf \in Seq(Byte)
        /\ processed \in Seq(Seq(Byte)) /\ Len(sent) = 0
    BY <1>1
  <2>2. Len(sent) <= MaxFrames
    BY <2>1, ConnectionAssumption
  <2> QED BY <1>1, <2>1, <2>2, Zenon DEF StreamTyped, Lengths
<1>3. QueueInv /\ WireInv
  BY <1>1 DEF QueueInv, WireInv, Upto
<1>4. ReaderInv
  BY <1>1 DEF ReaderInv, Upto, First, ToReceive, ToRead, ToWrite
<1> QED BY <1>2, <1>3, <1>4 DEF StreamInv

\* The steps that have nothing to do with the stream of bytes.
LEMMA StreamKept ==
    ASSUME StreamInv, UNCHANGED <<sent, write_queue, socket, receiverVars, secure>>
    PROVE  StreamInv'
BY DEF StreamInv, StreamTyped, QueueInv, WireInv, ReaderInv, ToWrite, ToRead, ToReceive, Behind,
       receiverVars, Reader!Body

-----------------------------------------------------------------------------

\* The sender.

\* A frame that was sent changes nothing of those before it.
LEMMA UptoAppend ==
    ASSUME NEW frames \in Seq(Frame), NEW frame \in Frame, NEW s \in Seq(Byte), NEW b,
           Upto(frames, s, b)
    PROVE  Upto(Append(frames, frame), s, b)
<1> DEFINE more == Append(frames, frame)
<1>1. /\ DOMAIN frames \subseteq DOMAIN more
      /\ \A k \in DOMAIN frames : more[k] = frames[k]
  OBVIOUS
<1> HIDE DEF more
<1>2. ASSUME NEW a, IsByte(frames, a)
      PROVE  IsByte(more, a) /\ Size(more, a[1]) = Size(frames, a[1])
  BY <1>1, <1>2 DEF IsByte, Size
<1>3. ASSUME NEW a, IsByte(frames, a), NEW d, NEW c, After(frames, a, d, c)
      PROVE  After(more, a, d, c)
  BY <1>2, <1>3 DEF After
<1>4. Upto(more, s, b)
  BY <1>2, <1>3 DEF Upto
<1> QED BY <1>4 DEF more

\* A frame is sent: the queue is as long as it was, or one longer, at its end.
LEMMA SendKeeps ==
    ASSUME StreamInv, NEW size \in BodySize, NEW outcome \in {"handled", "throws"},
           Send(size, outcome)
    PROVE  StreamInv'
<1> DEFINE frame == [size |-> size, outcome |-> outcome]
           entry == [buffer |-> Len(sent) + 1, offset |-> 0]
<1>1. /\ Len(sent) < MaxFrames /\ sent' = Append(sent, frame)
      /\ write_queue' = Append(write_queue, [buffer |-> Len(Sizes) + 1, offset |-> 0])
      /\ UNCHANGED <<secure, socket, receiverVars>>
  BY DEF Send, Handler!Enqueue, Handler!streamVars
<1>2. /\ sent \in Seq(Frame) /\ sent' \in Seq(Frame) /\ frame \in Frame
      /\ Len(sent') = Len(sent) + 1 /\ Len(sent) \in Nat
      /\ \A k \in 1..Len(sent) : sent'[k] = sent[k]
      /\ sent'[Len(sent) + 1] = frame
  BY <1>1 DEF StreamInv, StreamTyped, Frame
<1>3. write_queue' = Append(write_queue, entry) /\ entry \in Entry
  <2>1. Len(Sizes) = Len(sent)
    BY <1>2 DEF Sizes
  <2> QED BY <1>1, <1>2, <2>1 DEF Entry
<1>4. /\ write_queue \in Seq(Entry)
      /\ write_queue' \in Seq(Entry)
      /\ Len(write_queue') = Len(write_queue) + 1 /\ Len(write_queue) \in Nat
      /\ \A n \in 1..Len(write_queue) : write_queue'[n] = write_queue[n]
      /\ write_queue'[Len(write_queue) + 1] = entry
  BY <1>3 DEF StreamInv, StreamTyped
<1> HIDE DEF frame, entry
<1>5. StreamTyped'
  BY <1>1, <1>2, <1>4, ConnectionAssumption DEF StreamInv, StreamTyped, receiverVars
<1>6. QueueInv'
  <2> SUFFICES ASSUME NEW n \in 1..Len(write_queue')
               PROVE  /\ write_queue'[n].buffer = Len(sent') - Len(write_queue') + n
                      /\ write_queue'[n].offset < Size(sent', write_queue'[n].buffer)
                      /\ n > 1 => write_queue'[n].offset = 0
    <3>1. Len(write_queue') <= Len(sent')
      BY <1>2, <1>4 DEF QueueInv, StreamInv
    <3> QED BY <3>1 DEF QueueInv
  <2>1. CASE n = Len(write_queue) + 1
    <3>1. /\ write_queue'[n].buffer = Len(sent) + 1 /\ write_queue'[n].offset = 0
      BY <1>4, <2>1 DEF entry
    <3>2. Size(sent', Len(sent) + 1) \in Nat /\ Size(sent', Len(sent) + 1) >= 1
      <4>1. Len(sent) + 1 \in DOMAIN sent'
        BY <1>2
      <4> QED BY <1>2, <4>1, SizeTyped, ConnectionAssumption
    <3> QED BY <1>2, <1>4, <2>1, <3>1, <3>2
  <2>2. CASE n \in 1..Len(write_queue)
    <3>1. /\ write_queue[n].buffer = Len(sent) - Len(write_queue) + n
          /\ write_queue[n].offset < Size(sent, write_queue[n].buffer)
          /\ n > 1 => write_queue[n].offset = 0
          /\ Len(write_queue) <= Len(sent)
      BY <2>2 DEF StreamInv, QueueInv
    <3>2. write_queue[n].buffer \in 1..Len(sent)
      BY <1>2, <1>4, <2>2, <3>1
    <3>3. Size(sent', write_queue[n].buffer) = Size(sent, write_queue[n].buffer)
      BY <1>2, <3>2 DEF Size
    <3>4. write_queue'[n] = write_queue[n]
      BY <1>4, <2>2
    <3>5. Len(sent') - Len(write_queue') + n = Len(sent) - Len(write_queue) + n
      BY <1>2, <1>4, <2>2
    <3> QED BY <3>1, <3>3, <3>4, <3>5
  <2> QED BY <1>4, <2>1, <2>2
<1>7. ToWrite' = ToWrite
  <2>1. CASE write_queue = <<>>
    <3>1. write_queue' # <<>> /\ write_queue'[1] = entry
      BY <1>4, <2>1
    <3> QED BY <2>1, <3>1 DEF ToWrite, entry
  <2>2. CASE write_queue # <<>>
    <3>1. write_queue' # <<>> /\ write_queue'[1] = write_queue[1]
      BY <1>4, <2>2
    <3> QED BY <2>2, <3>1 DEF ToWrite
  <2> QED BY <2>1, <2>2
<1>8. ToRead' = ToRead /\ ToReceive' = ToReceive /\ \A n \in 1..Len(bufs) : Behind(n)' = Behind(n)
  BY <1>1, <1>7 DEF ToRead, ToReceive, Behind, receiverVars
<1>9. WireInv'
  <2>1. Upto(sent', socket, ToWrite)
    BY <1>1, <1>2, UptoAppend DEF StreamInv, StreamTyped, WireInv
  <2>2. ASSUME NEW n \in 1..Len(bufs) PROVE bufs[n] # <<>> /\ Upto(sent', bufs[n], Behind(n))
    BY <1>1, <1>2, UptoAppend DEF StreamInv, StreamTyped, WireInv
  <2> QED BY <1>1, <1>7, <1>8, <2>1, <2>2 DEF StreamInv, WireInv, receiverVars
<1>10. ReaderInv'
  <2> SUFFICES ASSUME ~lost' PROVE ReaderInv'
    BY DEF ReaderInv
  <2>1. /\ ~lost /\ lost' = lost /\ running' = running /\ fbuf' = fbuf /\ len' = len
        /\ processed' = processed
    BY <1>1 DEF receiverVars
  <2>2. /\ running
        /\ Upto(sent, fbuf, ToReceive)
        /\ First(fbuf, ToReceive) =
                <<Len(processed) + 1, IF len = Reader!NoLen THEN 1 ELSE LenSize + 1>>
        /\ len # Reader!NoLen =>
                /\ Len(processed) < Len(sent)
                /\ len = sent[Len(processed) + 1].size
                /\ Len(fbuf) < len
        /\ Len(processed) <= Len(sent)
        /\ \A k \in 1..Len(processed) : processed[k] = Reader!Body(k)
    BY <2>1 DEF StreamInv, ReaderInv
  <2>3. Upto(sent', fbuf, ToReceive)
    BY <1>1, <1>2, <2>2, UptoAppend DEF StreamInv, StreamTyped
  <2>4. Len(processed) \in Nat
    BY DEF StreamInv, StreamTyped
  <2>5. len # Reader!NoLen => len = sent'[Len(processed) + 1].size
    BY <1>2, <2>2, <2>4
  <2>6. \A k \in 1..Len(processed) : processed[k] = Reader!Body(k)'
    BY <1>2, <2>2, <2>4 DEF Reader!Body
  <2> QED BY <1>2, <1>8, <2>1, <2>2, <2>3, <2>4, <2>5, <2>6 DEF ReaderInv
<1> QED BY <1>5, <1>6, <1>9, <1>10 DEF StreamInv

\* What the reader holds stays as it is when the sender moves bytes to the socket.
LEMMA ReaderLeft ==
    ASSUME StreamInv, StreamTyped', QueueInv', Upto(sent', socket', ToWrite'), ToRead' = ToRead,
           UNCHANGED <<sent, receiverVars>>
    PROVE  StreamInv'
<1>1. ToReceive' = ToReceive /\ \A n \in 1..Len(bufs) : Behind(n)' = Behind(n)
  BY DEF ToReceive, Behind, receiverVars
<1>2. WireInv'
  BY <1>1 DEF StreamInv, WireInv, receiverVars
<1>3. ReaderInv'
  BY <1>1 DEF StreamInv, ReaderInv, receiverVars, Reader!Body
<1> QED BY <1>2, <1>3 DEF StreamInv

\* The offset of an entry of the queue is set.
LEMMA EntryMoved ==
    ASSUME NEW e \in Entry, NEW x \in Nat
    PROVE  /\ [e EXCEPT !.offset = x] = [buffer |-> e.buffer, offset |-> x]
           /\ [e EXCEPT !.offset = x] \in Entry
BY DEF Entry

\* A piece of the frame at the front of the queue is written, and the offset advanced by
\* its length, or the frame taken from the queue.
LEMMA WriteKeeps ==
    ASSUME StreamInv, NEW n \in 1..Capacity, Sending(Handler!WriteSome(n))
    PROVE  StreamInv'
<1> DEFINE front == write_queue[1]
           k     == front.buffer
           o     == front.offset
           piece == [i \in 1..n |-> <<k, o + i>>]
           rest  == Tail(write_queue)
<1>1. /\ sent \in Seq(Frame) /\ write_queue \in Seq(Entry)
      /\ socket \in Seq(Byte) /\ n \in Nat \ {0}
  BY ConnectionAssumption DEF StreamInv, StreamTyped
<1>2. write_queue # <<>> /\ Head(write_queue) = front /\ 1 \in 1..Len(write_queue)
      /\ front \in Entry /\ k \in Nat /\ o \in Nat
  <2>1. write_queue # <<>>
    BY DEF Sending, Handler!WriteSome, Handler!InLoop
  <2>2. Head(write_queue) = write_queue[1] /\ 1 \in 1..Len(write_queue)
        /\ write_queue[1] \in Entry
    <3> HIDE DEF front, k, o
    <3>1. Len(write_queue) \in Nat \ {0}
      BY <1>1, <2>1
    <3>2. 1 \in 1..Len(write_queue)
      BY <3>1
    <3>3. write_queue[1] \in Entry
      BY <1>1, <3>2
    <3>4. Head(write_queue) = write_queue[1]
      OBVIOUS
    <3> QED BY <3>2, <3>3, <3>4
  <2> QED BY <2>1, <2>2 DEF Entry
<1>3. /\ k = Len(sent) - Len(write_queue) + 1 /\ k \in DOMAIN sent
      /\ o < Size(sent, k)
  BY <1>1, <1>2 DEF StreamInv, QueueInv
<1>4. Sizes[k] = Size(sent, k) /\ Size(sent, k) \in Nat
  BY <1>1, <1>3, SizeTyped DEF Sizes, Size
<1>4a. k \in Nat /\ o \in Nat /\ n \in Nat \ {0} /\ Size(sent, k) \in Nat
  BY <1>1, <1>2, <1>4
<1>5. o + n <= Size(sent, k)
  <2>1. n <= Handler!Left
    BY DEF Sending, Handler!WriteSome, Handler!WriteBytes, Handler!Takes
  <2>2. Handler!Left <= Sizes[k] - o
    BY <1>2, <1>4, ConnectionAssumption DEF Handler!Left
  <2>3. Handler!Left \in Int
    BY <1>2, <1>4, ConnectionAssumption DEF Handler!Left
  <2> QED BY <1>1, <1>2, <1>4, <2>1, <2>2, <2>3
<1>6. /\ socket' = socket \o piece
      /\ write_queue' = IF o + n = Size(sent, k) THEN rest
                        ELSE <<[front EXCEPT !.offset = o + n]>> \o rest
      /\ UNCHANGED <<sent, receiverVars, secure>>
  <2>1. Handler!Bytes(k, o + 1, o + n) = piece
    BY SMTT(30), <1>1, <1>2 DEF Handler!Bytes
  <2>2. socket' = socket \o Handler!Bytes(k, o + 1, o + n)
    BY <1>2 DEF Sending, Handler!WriteSome, Handler!WriteBytes
  <2>3. write_queue' = IF o + n = Size(sent, k) THEN rest
                       ELSE <<[front EXCEPT !.offset = o + n]>> \o rest
    BY <1>2, <1>4 DEF Sending, Handler!WriteSome, Handler!Advance
  <2>4. UNCHANGED <<sent, receiverVars, secure>>
    BY DEF Sending, Handler!WriteSome, Handler!WriteBytes, Handler!peerVars
  <2> QED BY <2>1, <2>2, <2>3, <2>4
<1>7. /\ rest \in Seq(Entry) /\ Len(rest) = Len(write_queue) - 1
      /\ \A i \in 1..Len(rest) : rest[i] = write_queue[i + 1]
  BY <1>1, <1>2
<1> HIDE DEF rest
<1>8. /\ write_queue' \in Seq(Entry)
      /\ \/ /\ o + n = Size(sent, k) /\ write_queue' = rest
         \/ /\ o + n < Size(sent, k)
            /\ Len(write_queue') = Len(write_queue)
            /\ write_queue'[1] = [buffer |-> k, offset |-> o + n]
            /\ \A i \in 2..Len(write_queue) : write_queue'[i] = write_queue[i]
  <2>1. CASE o + n = Size(sent, k)
    BY <1>6, <1>7, <2>1
  <2>2. CASE o + n # Size(sent, k)
    <3> DEFINE entry == [buffer |-> k, offset |-> o + n]
    <3>1. entry \in Entry /\ [front EXCEPT !.offset = o + n] = entry
      BY <1>2, <1>4a, EntryMoved
    <3>2. write_queue' = <<entry>> \o rest
      BY <1>6, <2>2, <3>1
    <3>5. o + n < Size(sent, k)
      BY <1>5, <1>4a, <2>2
    <3> HIDE DEF entry, front, o
    <3>3. /\ write_queue' \in Seq(Entry)
          /\ Len(write_queue') = 1 + Len(rest)
          /\ write_queue'[1] = entry
          /\ \A i \in 2..(1 + Len(rest)) : write_queue'[i] = rest[i - 1]
      BY <1>7, <3>1, <3>2
    <3>4. \A i \in 2..(1 + Len(rest)) : rest[i - 1] = write_queue[i]
      BY <1>7
    <3> QED BY <1>1, <1>7, <3>3, <3>4, <3>5 DEF entry
  <2> QED BY <2>1, <2>2
<1>9. QueueInv'
  <2>1. /\ Len(write_queue) <= Len(sent)
        /\ \A i \in 1..Len(write_queue) :
            /\ write_queue[i].buffer = Len(sent) - Len(write_queue) + i
            /\ write_queue[i].offset < Size(sent, write_queue[i].buffer)
            /\ i > 1 => write_queue[i].offset = 0
    BY DEF StreamInv, QueueInv
  <2>2. sent' = sent
    BY <1>6
  <2>3. CASE o + n = Size(sent, k) /\ write_queue' = rest
    <3>1. Len(rest) <= Len(sent)
      BY <1>1, <1>7, <2>1
    <3>2. ASSUME NEW i \in 1..Len(rest)
          PROVE  /\ rest[i].buffer = Len(sent) - Len(rest) + i
                 /\ rest[i].offset < Size(sent, rest[i].buffer)
                 /\ i > 1 => rest[i].offset = 0
      <4>1. i + 1 \in 1..Len(write_queue) /\ rest[i] = write_queue[i + 1]
            /\ Len(sent) - Len(write_queue) + (i + 1) = Len(sent) - Len(rest) + i
            /\ i + 1 > 1
        BY <1>1, <1>7
      <4> QED BY <2>1, <4>1
    <3> QED BY <2>2, <2>3, <3>1, <3>2 DEF QueueInv
  <2>4. CASE /\ o + n < Size(sent, k)
             /\ Len(write_queue') = Len(write_queue)
             /\ write_queue'[1] = [buffer |-> k, offset |-> o + n]
             /\ \A i \in 2..Len(write_queue) : write_queue'[i] = write_queue[i]
    <3>1. /\ write_queue'[1].buffer = k /\ write_queue'[1].offset = o + n
      BY <2>4
    <3> HIDE DEF front, k, o
    <3>2. ASSUME NEW i \in 1..Len(write_queue)
          PROVE  /\ write_queue'[i].buffer = Len(sent) - Len(write_queue) + i
                 /\ write_queue'[i].offset < Size(sent, write_queue'[i].buffer)
                 /\ i > 1 => write_queue'[i].offset = 0
      <4>1. CASE i = 1
        BY <1>3, <2>4, <3>1, <4>1
      <4>2. CASE i # 1
        <5>1. i \in 2..Len(write_queue)
          BY <4>2
        <5> QED BY <2>1, <2>4, <5>1
      <4> QED BY <4>1, <4>2
    <3> QED BY <2>1, <2>2, <2>4, <3>2 DEF QueueInv
  <2> QED BY <1>8, <2>3, <2>4
<1>10. /\ ToWrite = <<k, o + 1>>
       /\ ToWrite' = IF o + n = Size(sent, k) THEN <<k + 1, 1>> ELSE <<k, o + n + 1>>
  <2>1. ToWrite = <<k, o + 1>>
    BY <1>2 DEF ToWrite
  <2>2. CASE o + n = Size(sent, k) /\ write_queue' = rest
    <3>1. CASE rest = <<>>
      <4>1. k = Len(sent)
        <5>1. Len(rest) = 0
          BY <3>1
        <5>2. Len(sent) \in Nat /\ Len(write_queue) \in Nat
          BY <1>1
        <5>3. Len(write_queue) = 1
          BY <1>7, <5>1, <5>2
        <5> HIDE DEF front, k, o
        <5>4. k = Len(sent) - 1 + 1
          BY <1>3, <5>3
        <5> QED BY <5>2, <5>4
      <4> QED BY <1>6, <2>2, <3>1, <4>1, <2>1 DEF ToWrite
    <3>2. CASE rest # <<>>
      <4>1. 2 \in 1..Len(write_queue) /\ rest[1] = write_queue[2]
        BY <1>1, <1>7, <3>2
      <4>2. write_queue[2].buffer = k + 1 /\ write_queue[2].offset = 0
        BY <1>1, <1>3, <4>1 DEF StreamInv, QueueInv
      <4> HIDE DEF front, k, o
      <4>3. ToWrite' = <<k + 1, 0 + 1>>
        BY <2>2, <3>2, <4>1, <4>2 DEF ToWrite
      <4> QED BY <2>1, <2>2, <4>3
    <3> QED BY <3>1, <3>2
  <2>3. CASE /\ o + n < Size(sent, k)
             /\ Len(write_queue') = Len(write_queue)
             /\ write_queue'[1] = [buffer |-> k, offset |-> o + n]
    <3>1. write_queue' # <<>>
      BY <1>1, <1>2, <2>3
    <3>2. write_queue'[1].buffer = k /\ write_queue'[1].offset = o + n
      BY <2>3
    <3>3. o + n # Size(sent, k)
      BY <1>1, <1>2, <1>4, <2>3
    <3> HIDE DEF front, k, o
    <3> QED BY <2>1, <3>1, <3>2, <3>3 DEF ToWrite
  <2> QED BY <1>8, <2>2, <2>3
<1> HIDE DEF front, k, o
<1>11. /\ piece \in Seq(Byte) /\ Len(piece) = n /\ piece # <<>>
       /\ \A i \in 1..n : piece[i] = <<k, o + i>>
       /\ k \in Nat \ {0}
  <2>1. k \in Nat \ {0}
    BY <1>1, <1>3
  <2>2. \A i \in 1..n : <<k, o + i>> \in Byte
    BY <1>1, <1>2, <2>1 DEF Byte
  <2>3. piece \in Seq(Byte) /\ Len(piece) = n
    BY <1>1, <2>2
  <2> QED BY <1>1, <2>1, <2>3
<1> HIDE DEF piece
<1>12. Upto(sent, piece, ToWrite')
  <2> SUFFICES ASSUME NEW i \in 1..n
               PROVE  /\ IsByte(sent, piece[i])
                      /\ \A m \in (i + 1)..n : After(sent, piece[i], m - i, piece[m])
                      /\ After(sent, piece[i], n + 1 - i, ToWrite')
    BY <1>11 DEF Upto
  <2>1. piece[i] = <<k, o + i>> /\ o + i \in 1..Size(sent, k) /\ i \in Nat
    BY <1>1, <1>2, <1>4, <1>5, <1>11
  <2>2. IsByte(sent, piece[i])
    BY <1>3, <2>1 DEF IsByte
  <2>3. ASSUME NEW m \in (i + 1)..n PROVE After(sent, piece[i], m - i, piece[m])
    <3>1. piece[m] = <<k, o + m>> /\ (o + i) + (m - i) = o + m /\ o + m <= Size(sent, k)
          /\ o + m # Size(sent, k) + 1
      BY <1>5, <1>11, <1>4a, <2>1
    <3> QED BY <2>1, <3>1 DEF After
  <2>4. After(sent, piece[i], n + 1 - i, ToWrite')
    <3>1. (o + i) + (n + 1 - i) = o + n + 1
      BY <1>1, <1>2
    <3>2. /\ o + n + 1 <= Size(sent, k) => o + n # Size(sent, k)
          /\ o + n + 1 = Size(sent, k) + 1 => o + n = Size(sent, k)
      BY <1>4a
    <3> QED BY <1>10, <2>1, <3>1, <3>2 DEF After
  <2> QED BY <2>2, <2>3, <2>4
<1>13. First(piece, ToWrite') = ToWrite
  BY <1>1, <1>10, <1>11 DEF First
<1>14. Upto(sent, socket, ToWrite)
  BY DEF StreamInv, WireInv
<1>15. /\ socket' \in Seq(Byte)
       /\ Upto(sent', socket', ToWrite') /\ ToRead' = ToRead
  <2>1. Upto(sent, socket \o piece, ToWrite')
        /\ First(socket \o piece, ToWrite') = First(socket, First(piece, ToWrite'))
    BY <1>1, <1>11, <1>12, <1>13, <1>14, UptoConcat
  <2>2. socket \o piece \in Seq(Byte)
    BY <1>1, <1>11
  <2> QED BY <1>6, <1>13, <2>1, <2>2 DEF ToRead
<1>16. StreamTyped'
  BY <1>6, <1>8, <1>15 DEF StreamInv, StreamTyped, receiverVars
<1> QED BY <1>6, <1>9, <1>15, <1>16, ReaderLeft

-----------------------------------------------------------------------------

\* The receiver.

\* What has arrived becomes the last buffer of the batch.
LEMMA ArriveKeeps ==
    ASSUME StreamInv, Arrive
    PROVE  StreamInv'
<1>1. PICK n \in 1..ReadSize : Reader!Read(n)
  BY DEF Arrive
<1> DEFINE front == SubSeq(socket, 1, n)
           back  == SubSeq(socket, n + 1, Len(socket))
<1>2. /\ sent \in Seq(Frame) /\ socket \in Seq(Byte) /\ bufs \in Seq(Seq(Byte))
      /\ Upto(sent, socket, ToWrite)
  BY DEF StreamInv, StreamTyped, WireInv
<1>3. /\ bufs' = Append(bufs, front) /\ socket' = back
      /\ n \in 1..Len(socket) /\ n \in 0..Len(socket)
      /\ UNCHANGED <<sent, delivering, fbuf, len, processed, running, lost, crowded>>
      /\ UNCHANGED <<write_queue, secure>>
  <2>1. /\ bufs' = Append(bufs, front) /\ socket' = back
        /\ UNCHANGED <<sent, delivering, fbuf, len, processed, running, lost, crowded>>
    BY <1>1 DEF Reader!Read, Reader!readerState
  <2>2. UNCHANGED <<write_queue, secure>>
    BY DEF Arrive, senderVars
  <2>3. n \in Nat \ {0} /\ n <= Len(socket) /\ Len(socket) \in Nat
    BY <1>1, <1>2, ConnectionAssumption DEF Reader!Read
  <2> QED BY <2>1, <2>2, <2>3
<1>4. /\ front \in Seq(Byte) /\ back \in Seq(Byte) /\ Len(front) = n
      /\ Upto(sent, front, First(back, ToWrite)) /\ Upto(sent, back, ToWrite)
      /\ First(front, First(back, ToWrite)) = ToRead
  BY ONLY ZenonT(40), <1>2, <1>3, UptoParts DEF ToRead
<1> HIDE DEF front, back
<1>5. ToWrite' = ToWrite /\ ToRead' = First(back, ToWrite)
  BY <1>3 DEF ToWrite, ToRead
<1>6. front # <<>> /\ front[1] = ToRead
  <2>1. front # <<>>
    BY <1>3, <1>4
  <2> QED BY <1>4, <2>1 DEF First
<1>7. /\ bufs' \in Seq(Seq(Byte)) /\ Len(bufs') = Len(bufs) + 1 /\ Len(bufs) \in Nat
      /\ \A i \in 1..Len(bufs) : bufs'[i] = bufs[i]
      /\ bufs'[Len(bufs) + 1] = front
  BY <1>2, <1>3, <1>4
<1>8. StreamTyped'
  BY <1>3, <1>4, <1>7 DEF StreamInv, StreamTyped
<1>9. QueueInv'
  BY <1>3 DEF StreamInv, QueueInv
<1>10. WireInv'
  <2>1. Upto(sent', socket', ToWrite')
    BY <1>3, <1>4, <1>5
  <2>2. ASSUME NEW i \in 1..Len(bufs') PROVE bufs'[i] # <<>> /\ Upto(sent', bufs'[i], Behind(i)')
    <3>1. CASE i = Len(bufs) + 1
      <4>1. Behind(i)' = ToRead' /\ bufs'[i] = front
        BY <1>7, <3>1 DEF Behind
      <4> QED BY <1>3, <1>4, <1>5, <1>6, <4>1
    <3>2. CASE i # Len(bufs) + 1
      <4>1. i \in 1..Len(bufs) /\ bufs'[i] = bufs[i] /\ i < Len(bufs')
        BY <1>7, <3>2
      <4>2. Behind(i)' = Behind(i)
        <5>1. CASE i = Len(bufs)
          BY <1>6, <1>7, <5>1 DEF Behind
        <5>2. CASE i # Len(bufs)
          <6>1. i < Len(bufs) /\ i + 1 \in 1..Len(bufs)
            BY <1>7, <4>1, <5>2
          <6> QED BY <1>7, <4>1, <6>1 DEF Behind
        <5> QED BY <5>1, <5>2
      <4> QED BY <1>3, <4>1, <4>2 DEF StreamInv, WireInv
    <3> QED BY <3>1, <3>2
  <2>3. ~delivering'
    BY <1>1, <1>3 DEF Reader!Read
  <2> QED BY <2>1, <2>2, <2>3 DEF WireInv
<1>11. ToReceive' = ToReceive
  <2>1. CASE bufs = <<>>
    <3>1. bufs' # <<>> /\ bufs'[1] = front
      BY <1>7, <2>1
    <3> QED BY <1>6, <2>1, <3>1 DEF ToReceive
  <2>2. CASE bufs # <<>>
    <3>1. bufs' # <<>> /\ bufs'[1] = bufs[1]
      BY <1>7, <2>2
    <3> QED BY <2>2, <3>1 DEF ToReceive
  <2> QED BY <2>1, <2>2
<1>12. ReaderInv'
  BY <1>3, <1>11 DEF StreamInv, ReaderInv, Reader!Body
<1> QED BY <1>8, <1>9, <1>10, <1>12 DEF StreamInv

\* The batch is complete.
LEMMA BlockedKeeps ==
    ASSUME StreamInv, Blocked
    PROVE  StreamInv'
<1>1. /\ delivering' = TRUE
      /\ UNCHANGED <<sent, write_queue, secure, socket, bufs, fbuf, len, processed, running, lost,
                     crowded>>
      /\ bufs # <<>>
  BY DEF Blocked, Reader!Blocked, Reader!readerState, senderVars
<1> QED BY <1>1 DEF StreamInv, StreamTyped, QueueInv, WireInv, ReaderInv, ToWrite, ToRead, ToReceive,
       Behind, Reader!Body

\* What FrameReader::write holds after it has looked for a length.
LEMMA HeldTyped ==
    ASSUME sent \in Seq(Frame), NEW data \in Seq(Byte), NEW l \in Lengths,
           NEW held \in Reader!Unread(data, l)
    PROVE  held[1] \in Seq(Byte) /\ held[2] \in Lengths /\ Lengths \subseteq Nat \cup {Reader!NoLen}
<1>1. Lengths \subseteq Nat \cup {Reader!NoLen}
  BY ConnectionAssumption DEF Lengths
<1>2. CASE l = Reader!NoLen /\ Len(data) >= LenSize
  <2>1. PICK n \in Reader!LengthOf(SubSeq(data, 1, LenSize)) :
            held = <<SubSeq(data, LenSize + 1, Len(data)), n>>
    BY <1>2 DEF Reader!Unread
  <2>2. n \in Lengths
    <3>1. \A k \in DOMAIN sent : sent[k].size \in BodySize
      BY SizeTyped
    <3> QED BY <2>1, <3>1 DEF Reader!LengthOf, Lengths
  <2>3. SubSeq(data, LenSize + 1, Len(data)) \in Seq(Byte)
    BY ConnectionAssumption
  <2> QED BY <1>1, <2>1, <2>2, <2>3
<1>3. CASE ~(l = Reader!NoLen /\ Len(data) >= LenSize)
  BY <1>1, <1>3 DEF Reader!Unread
<1> QED BY <1>2, <1>3

\* A length that is read is that of the frame whose header is at the front, and what is
\* left begins with its body, or with the next frame if it has none.
LEMMA HeldFrame ==
    ASSUME sent \in Seq(Frame), NEW data \in Seq(Byte), data # <<>>, NEW b, Upto(sent, data, b),
           NEW l \in Lengths, NEW m \in Nat,
           First(data, b) = <<m, IF l = Reader!NoLen THEN 1 ELSE LenSize + 1>>,
           l # Reader!NoLen => l = sent[m].size,
           NEW held \in Reader!Unread(data, l)
    PROVE  /\ m \in DOMAIN sent
           /\ Upto(sent, held[1], b)
           /\ \/ /\ held[2] = Reader!NoLen /\ l = Reader!NoLen
                 /\ held[1] = data
                 /\ Len(data) < LenSize
              \/ /\ held[2] = sent[m].size /\ held[2] # Reader!NoLen
                 /\ held[2] > 0 => First(held[1], b) = <<m, LenSize + 1>>
                 /\ held[2] = 0 => First(held[1], b) = <<m + 1, 1>>
                 /\ held[1] = IF l = Reader!NoLen THEN SubSeq(data, LenSize + 1, Len(data)) ELSE data
<1>1. data[1] = <<m, IF l = Reader!NoLen THEN 1 ELSE LenSize + 1>> /\ IsByte(sent, data[1])
  BY DEF First, Upto
<1>2. /\ m \in DOMAIN sent
      /\ (IF l = Reader!NoLen THEN 1 ELSE LenSize + 1) <= Size(sent, m)
  BY <1>1 DEF IsByte
<1>3. /\ sent[m].size \in Nat /\ Size(sent, m) = LenSize + sent[m].size /\ LenSize \in Nat \ {0}
      /\ Len(data) \in Nat /\ Reader!NoLen \notin Nat
  BY <1>2, SizeTyped, ConnectionAssumption DEF Size, Reader!NoLen
<1>4. CASE l = Reader!NoLen /\ Len(data) >= LenSize
  <2>1. /\ 1 \in 1..Size(sent, m) /\ First(data, b) = <<m, 1>>
        /\ LenSize \in 0..Len(data) /\ 1 + LenSize <= Size(sent, m) + 1
    BY <1>3, <1>4
  <2> DEFINE back == SubSeq(data, LenSize + 1, Len(data))
  <2>2. /\ SubSeq(data, 1, LenSize) = Reader!Bytes(m, 1, 1 + LenSize - 1)
        /\ 1 + LenSize <= Size(sent, m) => First(back, b) = <<m, 1 + LenSize>>
        /\ 1 + LenSize = Size(sent, m) + 1 => First(back, b) = <<m + 1, 1>>
    BY <1>2, <2>1, FrontOfFrame
  <2>3. Upto(sent, back, b)
    BY <2>1, UptoParts
  <2>4. SubSeq(data, 1, LenSize) = Reader!Header(m)
    <3>1. 1 + LenSize - 1 = LenSize
      BY <1>3
    <3> QED BY <2>2, <3>1 DEF Reader!Header
  <2>5. ASSUME NEW k \in DOMAIN sent, Reader!Header(k) = Reader!Header(m) PROVE k = m
    <3>1. Reader!Header(k)[1] = <<k, 1>> /\ Reader!Header(m)[1] = <<m, 1>>
      BY <1>3 DEF Reader!Header, Reader!Bytes
    <3> QED BY <2>5, <3>1
  <2>6. Reader!LengthOf(SubSeq(data, 1, LenSize)) = {sent[m].size}
    BY <1>2, <2>4, <2>5 DEF Reader!LengthOf
  <2>7. held[1] = back /\ held[2] = sent[m].size
    BY <1>4, <2>6 DEF Reader!Unread
  <2> HIDE DEF back
  <2>8. /\ held[2] > 0 => First(held[1], b) = <<m, LenSize + 1>>
        /\ held[2] = 0 => First(held[1], b) = <<m + 1, 1>>
    BY <1>3, <2>2, <2>7
  <2> QED BY <1>2, <1>3, <1>4, <2>3, <2>7, <2>8 DEF back
<1>5. CASE ~(l = Reader!NoLen /\ Len(data) >= LenSize)
  <2>1. held[1] = data /\ held[2] = l
    BY <1>5 DEF Reader!Unread
  <2>2. CASE l = Reader!NoLen
    BY <1>2, <1>3, <1>5, <2>1, <2>2
  <2>3. CASE l # Reader!NoLen
    BY <1>2, <1>3, <2>1, <2>3
  <2> QED BY <2>2, <2>3
<1> QED BY <1>4, <1>5

\* A frame that is complete is the next one, and what is left begins with the one after.
LEMMA FrameTaken ==
    ASSUME sent \in Seq(Frame), NEW data \in Seq(Byte), NEW b, Upto(sent, data, b),
           NEW m \in DOMAIN sent, NEW n \in Nat, n = sent[m].size, n <= Len(data),
           n > 0 => First(data, b) = <<m, LenSize + 1>>,
           n = 0 => First(data, b) = <<m + 1, 1>>
    PROVE  LET back == SubSeq(data, n + 1, Len(data))
           IN  /\ SubSeq(data, 1, n) = Reader!Body(m)
               /\ Upto(sent, back, b) /\ First(back, b) = <<m + 1, 1>>
<1> DEFINE back == SubSeq(data, n + 1, Len(data))
<1>1. Size(sent, m) = LenSize + n /\ LenSize \in Nat \ {0} /\ n \in 0..Len(data)
  BY ConnectionAssumption DEF Size
<1>2. Upto(sent, back, b)
  BY <1>1, UptoParts
<1>3. CASE n = 0
  <2>1. SubSeq(data, 1, n) = <<>> /\ back = data
    BY <1>3
  <2>2. Reader!Body(m) = <<>>
    BY <1>1, <1>3 DEF Reader!Body, Reader!Bytes
  <2> HIDE DEF back
  <2> QED BY <1>2, <1>3, <2>1, <2>2 DEF back
<1>4. CASE n # 0
  <2>1. /\ LenSize + 1 \in 1..Size(sent, m) /\ LenSize + 1 + n = Size(sent, m) + 1
        /\ LenSize + 1 + n <= Size(sent, m) + 1
        /\ First(data, b) = <<m, LenSize + 1>>
    <3>1. n > 0
      BY <1>4
    <3>2. First(data, b) = <<m, LenSize + 1>>
      BY <3>1
    <3> HIDE DEF back
    <3> QED BY SMTT(30), <1>1, <3>1, <3>2
  <2> DEFINE j == LenSize + 1
  <2>2. /\ SubSeq(data, 1, n) = Reader!Bytes(m, LenSize + 1, LenSize + 1 + n - 1)
        /\ First(back, b) = <<m + 1, 1>>
    <3>1. /\ j \in 1..Size(sent, m) /\ First(data, b) = <<m, j>> /\ n \in 0..Len(data)
          /\ j + n <= Size(sent, m) + 1 /\ j + n = Size(sent, m) + 1
      BY <1>1, <2>1
    <3>a. sent \in Seq(Frame) /\ data \in Seq(Byte) /\ Upto(sent, data, b) /\ m \in DOMAIN sent
      BY <1>1
    <3> HIDE DEF j
    <3>2. /\ SubSeq(data, 1, n) = Reader!Bytes(m, j, j + n - 1)
          /\ First(SubSeq(data, n + 1, Len(data)), b) = <<m + 1, 1>>
      BY ONLY <3>a, <3>1, FrontToEnd
    <3> QED BY <3>2 DEF j
  <2>3. LenSize + 1 + n - 1 = LenSize + n
    BY SMTT(30), <1>1
  <2> QED BY <1>2, <2>2, <2>3 DEF Reader!Body
<1> QED BY <1>3, <1>4

\* The outcome of a frame that was sent is known.
LEMMA KnownOutcome ==
    ASSUME sent \in Seq(Frame), NEW m \in DOMAIN sent,
           NEW outcome \in Reader!Outcomes(Reader!Body(m))
    PROVE  outcome \in {"handled", "throws"}
<1>1. outcome \in {sent[k].outcome : k \in {n \in DOMAIN sent : Reader!Body(m) = Reader!Body(n)}}
  BY DEF Reader!Outcomes
<1>2. \A k \in DOMAIN sent : sent[k].outcome \in {"handled", "throws"}
  <2>1. \A k \in DOMAIN sent : sent[k] \in Frame
    BY SizeTyped
  <2> QED BY <2>1 DEF Frame
<1> QED BY <1>1, <1>2

\* What is left of the batch after one of its buffers.
LEMMA BatchContinues ==
    ASSUME StreamInv, bufs # <<>>, NEW outcome \in {"handled", "throws", "ends"},
           Reader!Continue(outcome), UNCHANGED <<sent, socket, write_queue>>
    PROVE  /\ bufs' \in Seq(Seq(Byte)) /\ WireInv' /\ QueueInv'
           /\ lost' \in BOOLEAN /\ running' \in BOOLEAN /\ delivering' \in BOOLEAN
           /\ lost => lost'
           /\ ~lost' => ~lost /\ ToReceive' = Behind(1) /\ (running' <=> outcome # "ends")
           /\ (lost' /\ ~lost) => outcome # "handled"
<1>1. /\ sent \in Seq(Frame) /\ bufs \in Seq(Seq(Byte)) /\ lost \in BOOLEAN
  BY DEF StreamInv, StreamTyped
<1>2. /\ Tail(bufs) \in Seq(Seq(Byte)) /\ Len(Tail(bufs)) = Len(bufs) - 1 /\ Len(bufs) \in Nat \ {0}
      /\ \A i \in 1..Len(Tail(bufs)) : Tail(bufs)[i] = bufs[i + 1]
  BY <1>1
<1>3. /\ bufs' = IF outcome = "handled" THEN Tail(bufs) ELSE <<>>
      /\ delivering' = (bufs' # <<>>)
      /\ lost' = (lost \/ (outcome # "handled" /\ Tail(bufs) # <<>>))
      /\ running' = (outcome # "ends")
  BY DEF Reader!Continue
<1>4. bufs' \in Seq(Seq(Byte))
  BY <1>2, <1>3
<1>5. ToWrite' = ToWrite /\ ToRead' = ToRead /\ QueueInv'
  BY DEF ToWrite, ToRead, QueueInv, StreamInv
<1>6. Upto(sent', socket', ToWrite')
  BY <1>5 DEF StreamInv, WireInv
<1>7. ASSUME NEW i \in 1..Len(bufs') PROVE bufs'[i] # <<>> /\ Upto(sent', bufs'[i], Behind(i)')
  <2>1. bufs' = Tail(bufs)
    BY <1>3, <1>7
  <2>2. i + 1 \in 1..Len(bufs) /\ bufs'[i] = bufs[i + 1] /\ (i < Len(bufs') <=> i + 1 < Len(bufs))
    BY <1>2, <1>7, <2>1
  <2>3. Behind(i)' = Behind(i + 1)
    <3>1. CASE i < Len(bufs')
      <4>1. i + 1 \in 1..Len(Tail(bufs))
        BY <1>2, <2>1, <3>1
      <4>2. bufs'[i + 1] = bufs[(i + 1) + 1]
        BY <1>2, <2>1, <4>1
      <4> QED BY <2>2, <3>1, <4>2 DEF Behind
    <3>2. CASE ~(i < Len(bufs'))
      BY <1>5, <2>2, <3>2 DEF Behind
    <3> QED BY <3>1, <3>2
  <2> QED BY <2>2, <2>3 DEF StreamInv, WireInv
<1>8. ASSUME ~lost' PROVE ~lost /\ ToReceive' = Behind(1) /\ bufs' = Tail(bufs)
  <2>1. bufs' = Tail(bufs) /\ ~lost
    BY <1>1, <1>3, <1>8
  <2>2. CASE Tail(bufs) = <<>>
    <3>1. Len(bufs) = 1
      <4> DEFINE rest == Tail(bufs)
      <4>1. rest = <<>> /\ Len(rest) = Len(bufs) - 1 /\ Len(bufs) \in Nat
        BY <1>2, <2>2
      <4> HIDE DEF rest
      <4>2. Len(rest) = 0
        BY <4>1
      <4> QED BY <4>1, <4>2
    <3> QED BY <1>5, <2>1, <2>2, <3>1 DEF ToReceive, Behind
  <2>3. CASE Tail(bufs) # <<>>
    <3>1. Len(bufs) > 1 /\ Tail(bufs)[1] = bufs[1 + 1]
      BY <1>2, <2>3
    <3> QED BY <2>1, <2>3, <3>1 DEF ToReceive, Behind
  <2> QED BY <2>2, <2>3
<1>9. WireInv'
  BY <1>3, <1>6, <1>7 DEF WireInv
<1>10. lost' \in BOOLEAN /\ running' \in BOOLEAN /\ delivering' \in BOOLEAN /\ (lost => lost')
       /\ (running' <=> outcome # "ends") /\ ((lost' /\ ~lost) => outcome # "handled")
  BY <1>3
<1> QED BY <1>4, <1>5, <1>8, <1>9, <1>10

\* What Receive hands to the program, if it is not known that bytes were dropped: the
\* next frame, or nothing.
Hands ==
    \/ UNCHANGED <<processed, lost>>
    \/ /\ Len(processed) < Len(sent)
       /\ processed' = Append(processed, Reader!Body(Len(processed) + 1))

\* What the frame reader has when it is given the first buffer of the batch.
Data == fbuf \o Head(bufs)

\* It starts where what it held started, and goes on up to the end of the buffer.
LEMMA DataReceived ==
    ASSUME StreamInv, Receive
    PROVE  /\ bufs # <<>> /\ Head(bufs) = bufs[1] /\ 1 \in 1..Len(bufs)
           /\ Head(bufs) \in Seq(Byte) /\ Data \in Seq(Byte) /\ Data # <<>>
           /\ ~lost => /\ Upto(sent, Data, Behind(1))
                       /\ First(Data, Behind(1)) =
                            <<Len(processed) + 1, IF len = Reader!NoLen THEN 1 ELSE LenSize + 1>>
<1>1. /\ sent \in Seq(Frame) /\ bufs \in Seq(Seq(Byte)) /\ fbuf \in Seq(Byte)
  BY DEF StreamInv, StreamTyped
<1>2. /\ bufs # <<>> /\ Head(bufs) = bufs[1] /\ 1 \in 1..Len(bufs)
      /\ Head(bufs) \in Seq(Byte) /\ Head(bufs) # <<>>
      /\ Upto(sent, Head(bufs), Behind(1)) /\ Data \in Seq(Byte) /\ Data # <<>>
      /\ ToReceive = bufs[1][1]
  <2>1. bufs # <<>>
    BY DEF Receive, Reader!Receive, StreamInv, WireInv
  <2>2. 1 \in 1..Len(bufs) /\ Head(bufs) = bufs[1] /\ bufs[1] \in Seq(Byte)
    BY <1>1, <2>1
  <2>3. bufs[1] # <<>> /\ Upto(sent, bufs[1], Behind(1))
    BY <2>2 DEF StreamInv, WireInv
  <2>4. fbuf \o bufs[1] \in Seq(Byte) /\ fbuf \o bufs[1] # <<>>
    BY <1>1, <2>2, <2>3
  <2> QED BY <2>1, <2>2, <2>3, <2>4 DEF ToReceive, Data
<1>3. ASSUME ~lost
      PROVE  /\ Upto(sent, Data, Behind(1))
             /\ First(Data, Behind(1)) =
                    <<Len(processed) + 1, IF len = Reader!NoLen THEN 1 ELSE LenSize + 1>>
  <2>1. /\ Upto(sent, fbuf, ToReceive)
        /\ First(fbuf, ToReceive) =
                <<Len(processed) + 1, IF len = Reader!NoLen THEN 1 ELSE LenSize + 1>>
    BY <1>3 DEF StreamInv, ReaderInv
  <2>2. First(Head(bufs), Behind(1)) = ToReceive
    BY <1>2 DEF First
  <2>3. Upto(sent, Data, Behind(1)) /\ First(Data, Behind(1)) = First(fbuf, ToReceive)
    BY <1>1, <1>2, <2>1, <2>2, UptoConcat DEF Data
  <2> QED BY <2>1, <2>3
<1> QED BY <1>2, <1>3

\* A buffer is received.
LEMMA ReceiveKeeps ==
    ASSUME StreamInv, Receive
    PROVE  StreamInv' /\ (lost => lost') /\ (~lost => Hands)
<1> DEFINE data == Data
           m    == Len(processed) + 1
<1>1. /\ sent \in Seq(Frame) /\ bufs \in Seq(Seq(Byte)) /\ fbuf \in Seq(Byte) /\ len \in Lengths
      /\ processed \in Seq(Seq(Byte)) /\ m \in Nat /\ Len(processed) \in Nat
  BY DEF StreamInv, StreamTyped
<1>2. bufs # <<>> /\ data \in Seq(Byte) /\ data # <<>>
  BY DataReceived
<1>3. /\ UNCHANGED <<sent, socket, write_queue, secure>>
      /\ crowded' \in BOOLEAN
  BY DEF Receive, Reader!Receive, senderVars
<1>4. PICK held \in Reader!Unread(data, len) :
        IF Reader!Complete(held)
        THEN LET frame == SubSeq(held[1], 1, held[2])
             IN  /\ fbuf' = SubSeq(held[1], held[2] + 1, Len(held[1]))
                 /\ len' = Reader!NoLen
                 /\ processed' = Append(processed, frame)
                 /\ \E outcome \in Reader!Outcomes(frame) : Reader!Continue(outcome)
        ELSE /\ fbuf' = held[1]
             /\ len' = held[2]
             /\ Reader!Continue("handled")
             /\ UNCHANGED processed
  BY DEF Receive, Reader!Receive, Data
<1>5. held[1] \in Seq(Byte) /\ held[2] \in Lengths /\ Lengths \subseteq Nat \cup {Reader!NoLen}
  <2> HIDE DEF data
  <2> QED BY <1>1, <1>2, <1>4, HeldTyped
<1>6. ~lost =>
        /\ Upto(sent, data, Behind(1))
        /\ First(data, Behind(1)) = <<m, IF len = Reader!NoLen THEN 1 ELSE LenSize + 1>>
        /\ len # Reader!NoLen => len = sent[m].size
        /\ Len(processed) <= Len(sent)
        /\ \A k \in 1..Len(processed) : processed[k] = Reader!Body(k)
  BY DataReceived DEF StreamInv, ReaderInv
<1> HIDE DEF data, m
<1>7. ~lost =>
        /\ m \in DOMAIN sent
        /\ Upto(sent, held[1], Behind(1))
        /\ \/ /\ held[2] = Reader!NoLen /\ len = Reader!NoLen
              /\ held[1] = data
           \/ /\ held[2] = sent[m].size /\ held[2] # Reader!NoLen
              /\ held[2] > 0 => First(held[1], Behind(1)) = <<m, LenSize + 1>>
              /\ held[2] = 0 => First(held[1], Behind(1)) = <<m + 1, 1>>
  BY <1>1, <1>2, <1>4, <1>6, HeldFrame
<1>8. CASE Reader!Complete(held)
  <2> DEFINE n     == held[2]
             frame == SubSeq(held[1], 1, n)
             rest  == SubSeq(held[1], n + 1, Len(held[1]))
  <2>1. /\ fbuf' = rest /\ len' = Reader!NoLen /\ processed' = Append(processed, frame)
    BY <1>4, <1>8
  <2>2. PICK outcome \in Reader!Outcomes(frame) : Reader!Continue(outcome)
    BY <1>4, <1>8
  <2>3. n \in Nat /\ n <= Len(held[1])
    BY <1>5, <1>8 DEF Reader!Complete
  <2>4. frame \in Seq(Byte) /\ rest \in Seq(Byte)
    BY <1>5, <2>3
  <2>5. outcome \in {"handled", "throws", "ends"}
    <3>1. CASE \E k \in DOMAIN sent : frame = Reader!Body(k)
      <4>1. PICK k \in DOMAIN sent : frame = Reader!Body(k)
        BY <3>1
      <4> HIDE DEF frame
      <4> QED BY <1>1, <2>2, <4>1, KnownOutcome
    <3>2. CASE ~ \E k \in DOMAIN sent : frame = Reader!Body(k)
      BY <2>2, <3>2 DEF Reader!Outcomes
    <3> QED BY <3>1, <3>2
  <2> HIDE DEF n, frame, rest
  <2>6. /\ bufs' \in Seq(Seq(Byte)) /\ WireInv' /\ QueueInv'
        /\ lost' \in BOOLEAN /\ running' \in BOOLEAN /\ delivering' \in BOOLEAN
        /\ lost => lost'
        /\ ~lost' => ~lost /\ ToReceive' = Behind(1) /\ (running' <=> outcome # "ends")
    BY <1>2, <1>3, <2>2, <2>5, BatchContinues
  <2>7. /\ processed' \in Seq(Seq(Byte)) /\ Len(processed') = m
        /\ \A k \in 1..Len(processed) : processed'[k] = processed[k]
        /\ processed'[m] = frame
    BY <1>1, <2>1, <2>4 DEF m
  <2>8. StreamTyped'
    BY <1>3, <2>1, <2>4, <2>6, <2>7, Zenon DEF StreamInv, StreamTyped, Lengths
  <2>9. ASSUME ~lost
        PROVE  /\ m \in DOMAIN sent /\ frame = Reader!Body(m)
               /\ Upto(sent, rest, Behind(1)) /\ First(rest, Behind(1)) = <<m + 1, 1>>
    <3>1. /\ m \in DOMAIN sent
          /\ Upto(sent, held[1], Behind(1))
          /\ n = sent[m].size
          /\ n > 0 => First(held[1], Behind(1)) = <<m, LenSize + 1>>
          /\ n = 0 => First(held[1], Behind(1)) = <<m + 1, 1>>
      BY <1>7, <1>8, <2>9 DEF Reader!Complete, n
    <3> DEFINE body == held[1]
    <3>2. /\ body \in Seq(Byte) /\ m \in DOMAIN sent /\ Upto(sent, body, Behind(1))
          /\ n \in Nat /\ n = sent[m].size /\ n <= Len(body)
          /\ n > 0 => First(body, Behind(1)) = <<m, LenSize + 1>>
          /\ n = 0 => First(body, Behind(1)) = <<m + 1, 1>>
      BY <1>5, <2>3, <3>1
    <3> HIDE DEF body
    <3>3. LET back == SubSeq(body, n + 1, Len(body))
          IN  /\ SubSeq(body, 1, n) = Reader!Body(m)
              /\ Upto(sent, back, Behind(1)) /\ First(back, Behind(1)) = <<m + 1, 1>>
      BY SMTT(30), <1>1, <3>2, FrameTaken
    <3> QED BY <3>2, <3>3 DEF frame, rest, body
  <2>10. Hands \/ lost
    BY <1>1, <2>1, <2>9 DEF Hands, m
  <2>11. ReaderInv'
    <3> SUFFICES ASSUME ~lost' PROVE ReaderInv'
      BY DEF ReaderInv
    <3>1. ~lost /\ ToReceive' = Behind(1)
      BY <2>6
    <3>2. outcome # "ends" /\ running'
      BY <1>1, <2>2, <2>6, <2>9, <3>1, KnownOutcome
    <3>3. m <= Len(sent)
      BY <1>1, <2>9, <3>1
    <3>4. \A k \in 1..Len(processed') : processed'[k] = Reader!Body(k)'
      <4>1. \A k \in 1..Len(processed') : Reader!Body(k)' = Reader!Body(k)
        BY <1>3 DEF Reader!Body
      <4>2. \A k \in 1..m : k = m \/ k \in 1..Len(processed)
        BY <1>1 DEF m
      <4> QED BY <1>6, <2>7, <2>9, <3>1, <4>1, <4>2
    <3>5. Upto(sent', fbuf', ToReceive') /\ First(fbuf', ToReceive') = <<Len(processed') + 1, 1>>
      BY <1>3, <2>1, <2>7, <2>9, <3>1
    <3> QED BY <1>3, <2>1, <2>7, <3>2, <3>3, <3>4, <3>5 DEF ReaderInv
  <2> QED BY <2>6, <2>8, <2>10, <2>11 DEF StreamInv
<1>9. CASE ~Reader!Complete(held)
  <2>1. fbuf' = held[1] /\ len' = held[2] /\ Reader!Continue("handled") /\ processed' = processed
    BY <1>4, <1>9
  <2>2. /\ bufs' \in Seq(Seq(Byte)) /\ WireInv' /\ QueueInv'
        /\ lost' \in BOOLEAN /\ running' \in BOOLEAN /\ delivering' \in BOOLEAN
        /\ lost => lost'
        /\ ~lost' => ~lost /\ ToReceive' = Behind(1) /\ running'
        /\ ~(lost' /\ ~lost)
    BY <1>2, <1>3, <2>1, BatchContinues
  <2>3. StreamTyped'
    BY <1>1, <1>3, <1>5, <2>1, <2>2, Zenon DEF StreamInv, StreamTyped
  <2>4. Hands \/ lost
    BY <2>1, <2>2 DEF Hands, StreamInv, StreamTyped
  <2>5. ReaderInv'
    <3> SUFFICES ASSUME ~lost' PROVE ReaderInv'
      BY DEF ReaderInv
    <3>1. ~lost /\ ToReceive' = Behind(1) /\ running'
      BY <2>2
    <3>2. \A k \in 1..Len(processed') : processed'[k] = Reader!Body(k)'
      BY <1>3, <1>6, <2>1, <3>1 DEF Reader!Body
    <3>3. Upto(sent', fbuf', ToReceive') /\ Len(processed') <= Len(sent')
      BY <1>3, <1>6, <1>7, <2>1, <3>1
    <3>4. CASE held[2] = Reader!NoLen /\ len = Reader!NoLen /\ held[1] = data
      BY <1>6, <2>1, <3>1, <3>2, <3>3, <3>4 DEF ReaderInv, m
    <3>5. CASE /\ held[2] = sent[m].size /\ held[2] # Reader!NoLen
               /\ held[2] > 0 => First(held[1], Behind(1)) = <<m, LenSize + 1>>
      <4>1. held[2] \in Nat /\ Len(held[1]) \in Nat
        <5>1. held[2] \in Nat
          BY <1>5, <3>5, Zenon
        <5> QED BY <1>5, <5>1
      <4>2. Len(held[1]) < held[2] /\ held[2] > 0
        BY <1>9, <3>5, <4>1 DEF Reader!Complete
      <4>3. Len(processed) < Len(sent)
        BY <1>1, <1>7, <3>1 DEF m
      <4> QED BY <1>3, <2>1, <3>1, <3>2, <3>3, <3>5, <4>2, <4>3 DEF ReaderInv, m
    <3> QED BY <1>7, <3>1, <3>4, <3>5
  <2> QED BY <2>2, <2>3, <2>4, <2>5 DEF StreamInv
<1> QED BY <1>8, <1>9

-----------------------------------------------------------------------------

\* The pace.

\* The buffers that TLS reads are each of one frame, so that it never has the ends of two.
\* As long as no buffer has had them, the frame reader is left without the end of a frame.
NoEnd == \A i \in 1..Len(fbuf) : fbuf[i][2] # Size(sent, fbuf[i][1])

PacedInv ==
    /\ secure =>
        /\ ~crowded
        /\ \A n \in 1..Len(bufs) : \A i, j \in 1..Len(bufs[n]) : bufs[n][i][1] = bufs[n][j][1]
    /\ (~lost /\ ~crowded) => NoEnd

\* A frame that was sent has the size it had.
LEMMA SendPaced ==
    ASSUME StreamInv, PacedInv, NEW size \in BodySize, NEW outcome \in {"handled", "throws"},
           Send(size, outcome)
    PROVE  PacedInv'
<1>1. /\ sent' = Append(sent, [size |-> size, outcome |-> outcome])
      /\ UNCHANGED <<secure, receiverVars>>
  BY DEF Send, Handler!Enqueue, Handler!streamVars
<1>2. \A k \in DOMAIN sent : sent'[k] = sent[k]
  BY <1>1 DEF StreamInv, StreamTyped
<1>3. ASSUME ~lost, ~crowded, NEW i \in 1..Len(fbuf)
      PROVE  fbuf[i][2] # Size(sent', fbuf[i][1])
  <2>1. fbuf[i][1] \in DOMAIN sent
    BY <1>3 DEF StreamInv, ReaderInv, Upto, IsByte
  <2> QED BY <1>2, <1>3, <2>1 DEF PacedInv, NoEnd, Size
<1> QED BY <1>1, <1>3 DEF PacedInv, NoEnd, receiverVars

\* A record is of one frame.
LEMMA ArrivePaced ==
    ASSUME StreamInv, PacedInv, Arrive
    PROVE  PacedInv'
<1>1. PICK n \in 1..ReadSize : Reader!Read(n) /\ (secure => 1..n = FirstRecord)
  BY DEF Arrive
<1> DEFINE front == SubSeq(socket, 1, n)
<1>2. /\ bufs' = Append(bufs, front)
      /\ UNCHANGED <<sent, fbuf, lost, crowded, secure>>
  BY <1>1 DEF Reader!Read, Reader!readerState, Arrive, senderVars
<1>3. /\ front \in Seq(Byte) /\ Len(front) = n /\ n \in 1..Len(socket)
      /\ \A i \in 1..n : front[i] = socket[i]
  <2>1. socket \in Seq(Byte) /\ n \in Nat \ {0} /\ n <= Len(socket)
    BY <1>1, ConnectionAssumption DEF StreamInv, StreamTyped, Reader!Read
  <2> QED BY <2>1
<1> HIDE DEF front
<1>4. /\ Len(bufs') = Len(bufs) + 1 /\ Len(bufs) \in Nat
      /\ \A i \in 1..Len(bufs) : bufs'[i] = bufs[i]
      /\ bufs'[Len(bufs) + 1] = front
  BY <1>2, <1>3 DEF StreamInv, StreamTyped
<1>5. ASSUME secure, NEW i \in 1..n, NEW j \in 1..n PROVE front[i][1] = front[j][1]
  <2>1. RecordOf(socket[i]) = RecordOf(socket[1]) /\ RecordOf(socket[j]) = RecordOf(socket[1])
    BY <1>1, <1>5 DEF FirstRecord
  <2> QED BY <1>3, <2>1 DEF RecordOf
<1>6. ASSUME secure, NEW k \in 1..Len(bufs'), NEW i \in 1..Len(bufs'[k]), NEW j \in 1..Len(bufs'[k])
      PROVE  bufs'[k][i][1] = bufs'[k][j][1]
  <2>1. CASE k = Len(bufs) + 1
    BY <1>3, <1>4, <1>5, <1>6, <2>1
  <2>2. CASE k # Len(bufs) + 1
    <3>1. k \in 1..Len(bufs) /\ bufs'[k] = bufs[k]
      BY <1>4, <2>2
    <3> QED BY <1>6, <3>1 DEF PacedInv
  <2> QED BY <2>1, <2>2
<1> QED BY <1>2, <1>6 DEF PacedInv, NoEnd

\* A byte with which a frame ends, in a buffer.
LEMMA EndFound ==
    ASSUME sent \in Seq(Frame), NEW bytes \in Seq(Byte), NEW n \in 1..Len(bytes), NEW m \in DOMAIN sent,
           bytes[n] = <<m, Size(sent, m)>>
    PROVE  m \in Reader!Ends(bytes)
<1>1. n \in DOMAIN bytes
  OBVIOUS
<1> QED BY <1>1 DEF Reader!Ends, Size

\* The place of the byte of its frame with which the data starts.
Start == IF len = Reader!NoLen THEN 1 ELSE LenSize + 1

\* When what is left of the data starts with a frame and has its end, the buffer brought
\* the ends of that frame and of the one before, which was taken.
LEMMA TwoEnds ==
    ASSUME StreamInv, Receive, ~lost, NoEnd,
           NEW m \in Nat, m = Len(processed) + 1, m + 1 \in DOMAIN sent,
           NEW c \in 0..Len(Data), NEW j \in Nat, j = Start, j + c = Size(sent, m) + 1,
           Size(sent, m + 1) <= Len(Data) - c
    PROVE  \E p, q \in Reader!Ends(Head(bufs)) : p # q
<1>1. /\ sent \in Seq(Frame) /\ fbuf \in Seq(Byte) /\ Head(bufs) \in Seq(Byte)
      /\ Data \in Seq(Byte) /\ Upto(sent, Data, Behind(1)) /\ First(Data, Behind(1)) = <<m, j>>
  BY DataReceived DEF StreamInv, StreamTyped, Start
<1>2. m \in DOMAIN sent
  <2>1. m + 1 \in 1..Len(sent)
    BY <1>1
  <2> QED BY <1>1, <2>1
<1>3. /\ Size(sent, m) \in Nat /\ Size(sent, m + 1) \in Nat /\ Size(sent, m + 1) >= 1
      /\ Len(Data) \in Nat /\ Len(fbuf) \in Nat /\ c \in Nat /\ LenSize \in Nat \ {0} /\ j \in Nat \ {0}
  BY <1>1, <1>2, SizeTyped, ConnectionAssumption DEF Start
<1>4. /\ Len(Data) = Len(fbuf) + Len(Head(bufs))
      /\ \A i \in 1..Len(fbuf) : Data[i] = fbuf[i]
      /\ \A i \in (Len(fbuf) + 1)..Len(Data) : Data[i] = Head(bufs)[i - Len(fbuf)]
  BY SMTT(30), <1>1 DEF Data
<1>5. c > 0
  <2>1. CASE len = Reader!NoLen
    BY SMTT(30), <1>1, <1>2, <1>3, <2>1, SizeTyped DEF Start
  <2>2. CASE len # Reader!NoLen
    <3>1. len = sent[m].size /\ Len(fbuf) < len
      BY <2>2 DEF StreamInv, ReaderInv
    <3>2. sent[m].size > 0 /\ sent[m].size \in Nat
      BY SMTT(30), <1>1, <1>2, <1>3, <3>1, SizeTyped
    <3> QED BY SMTT(30), <1>3, <2>2, <3>2 DEF Size, Start
  <2> QED BY <2>1, <2>2
<1>6. Data[c] = <<m, Size(sent, m)>> /\ First(SubSeq(Data, c + 1, Len(Data)), Behind(1)) = <<m + 1, 1>>
  <2> DEFINE y == Size(sent, m)
  <2>1. j \in 1..Size(sent, m) /\ j + c <= Size(sent, m) + 1 /\ c \in 1..c /\ j + c - 1 = Size(sent, m)
    <3>1. y \in Nat /\ c \in Nat /\ c > 0 /\ j \in Nat /\ j > 0 /\ j + c = y + 1
      BY <1>3, <1>5
    <3> HIDE DEF y
    <3>2. j \in 1..y /\ j + c <= y + 1 /\ c \in 1..c /\ j + c - 1 = y
      BY <3>1
    <3> QED BY <3>2 DEF y
  <2>2. /\ \A i \in 1..c : Data[i] = <<m, j + i - 1>>
        /\ First(SubSeq(Data, c + 1, Len(Data)), Behind(1)) = <<m + 1, 1>>
    BY ONLY <1>1, <1>2, <2>1, c \in 0..Len(Data), FrontOfFrame
  <2> QED BY <2>1, <2>2
<1> DEFINE back == SubSeq(Data, c + 1, Len(Data))
           z    == Size(sent, m + 1)
<1>7. Data[c + z] = <<m + 1, z>>
  <2>1. /\ back \in Seq(Byte) /\ Len(back) = Len(Data) - c
        /\ \A i \in 1..(Len(Data) - c) : back[i] = Data[c + i]
        /\ Upto(sent, back, Behind(1))
    BY <1>1, UptoParts
  <2>2. First(back, Behind(1)) = <<m + 1, 1>>
    BY <1>6
  <2> HIDE DEF back
  <2>3. z \in 1..(Len(Data) - c) /\ z \in 0..Len(back) /\ 1 \in 1..Size(sent, m + 1)
        /\ 1 + z <= Size(sent, m + 1) + 1 /\ 1 + z - 1 = z /\ z \in 1..z
    BY <1>3, <2>1
  <2>4. \A i \in 1..z : back[i] = <<m + 1, 1 + i - 1>>
    <3> DEFINE o == 1
               k == m + 1
    <3>1. /\ First(back, Behind(1)) = <<k, o>> /\ o \in 1..Size(sent, k) /\ k \in DOMAIN sent
          /\ z \in 0..Len(back) /\ o + z <= Size(sent, k) + 1
          /\ sent \in Seq(Frame) /\ back \in Seq(Byte) /\ Upto(sent, back, Behind(1))
      BY <1>1, <2>1, <2>2, <2>3
    <3> HIDE DEF z, o, k
    <3>2. \A i \in 1..z : back[i] = <<k, o + i - 1>>
      BY ONLY <3>1, FrontBytes
    <3> QED BY <3>2 DEF o, k
  <2> QED BY <2>1, <2>3, <2>4
<1> HIDE DEF back, z
<1>8. c > Len(fbuf)
  <2> SUFFICES ASSUME ~(c > Len(fbuf)) PROVE FALSE
    OBVIOUS
  <2>1. c \in 1..Len(fbuf)
    BY <1>3, <1>5
  <2>2. fbuf[c] = <<m, Size(sent, m)>>
    BY <1>4, <1>6, <2>1
  <2> QED BY <2>1, <2>2 DEF NoEnd
<1>9. m \in Reader!Ends(Head(bufs))
  <2>1. c \in (Len(fbuf) + 1)..Len(Data) /\ c - Len(fbuf) \in 1..Len(Head(bufs))
    BY <1>1, <1>3, <1>4, <1>8
  <2>2. Head(bufs)[c - Len(fbuf)] = <<m, Size(sent, m)>>
    BY <1>4, <1>6, <2>1
  <2> QED BY <1>1, <1>2, <2>1, <2>2, EndFound
<1>10. m + 1 \in Reader!Ends(Head(bufs))
  <2> DEFINE d == c + z
  <2>3. z \in Nat /\ z <= Len(Data) - c
    BY <1>3 DEF z
  <2>4. d \in Nat /\ d <= Len(Data) /\ d > Len(fbuf)
    BY <1>3, <1>8, <2>3
  <2>5. Len(Head(bufs)) \in Nat
    BY <1>1
  <2> HIDE DEF d
  <2>6. d \in (Len(fbuf) + 1)..Len(Data) /\ d - Len(fbuf) \in 1..Len(Head(bufs))
    BY <1>3, <1>4, <2>4, <2>5
  <2>7. Head(bufs)[d - Len(fbuf)] = <<m + 1, z>>
    <3>1. Data[d] = <<m + 1, z>>
      BY <1>7 DEF d
    <3> QED BY <1>4, <2>6, <3>1
  <2> DEFINE k == m + 1
  <2>8. k \in DOMAIN sent /\ Head(bufs)[d - Len(fbuf)] = <<k, Size(sent, k)>>
    BY <2>7 DEF z
  <2> HIDE DEF k
  <2>9. k \in Reader!Ends(Head(bufs))
    BY ONLY <1>1, <2>6, <2>8, EndFound
  <2> QED BY <2>9 DEF k
<1>11. m # m + 1
  OBVIOUS
<1> QED BY <1>9, <1>10, <1>11

\* What is left when a frame was taken, of the data: all but the rest of that frame.
LEMMA RestOfData ==
    ASSUME NEW data \in Seq(Byte), NEW x \in 0..Len(data), NEW n \in Nat, n <= Len(data) - x
    PROVE  LET body == SubSeq(data, x + 1, Len(data))
           IN  Len(SubSeq(body, n + 1, Len(body))) = Len(data) - (x + n)
<1> DEFINE body == SubSeq(data, x + 1, Len(data))
<1>1. body \in Seq(Byte) /\ Len(body) = Len(data) - x
  OBVIOUS
<1> HIDE DEF body
<1>2. Len(SubSeq(body, n + 1, Len(body))) = Len(body) - n
  BY <1>1
<1>3. Len(data) - x - n = Len(data) - (x + n)
  OBVIOUS
<1>4. Len(SubSeq(body, n + 1, Len(body))) = Len(data) - (x + n)
  BY ONLY <1>1, <1>2, <1>3
<1> QED BY <1>4 DEF body

\* Without two ends in a buffer, the frame reader is left without an end.
LEMMA ReceivePaced ==
    ASSUME StreamInv, PacedInv, Receive
    PROVE  PacedInv'
<1> DEFINE m == Len(processed) + 1
<1>1. /\ sent \in Seq(Frame) /\ bufs \in Seq(Seq(Byte)) /\ len \in Lengths
      /\ m \in Nat /\ Len(processed) \in Nat /\ processed \in Seq(Seq(Byte))
      /\ LenSize \in Nat \ {0} /\ Start \in Nat /\ Start >= 1
  BY ConnectionAssumption DEF StreamInv, StreamTyped, Start
<1>2. /\ bufs # <<>> /\ Head(bufs) = bufs[1] /\ 1 \in 1..Len(bufs)
      /\ Head(bufs) \in Seq(Byte) /\ Data \in Seq(Byte) /\ Data # <<>>
      /\ ~lost => Upto(sent, Data, Behind(1)) /\ First(Data, Behind(1)) = <<m, Start>>
  BY DataReceived DEF Start
<1>3. /\ UNCHANGED <<sent, secure>>
      /\ crowded' = (crowded \/ \E j, k \in Reader!Ends(Head(bufs)) : j # k)
      /\ bufs' = Tail(bufs) \/ bufs' = <<>>
  BY DEF Receive, Reader!Receive, Reader!Continue, senderVars
<1>4. StreamInv' /\ (lost => lost')
  BY ReceiveKeeps
<1>5. ASSUME secure
      PROVE  /\ ~crowded'
             /\ \A n \in 1..Len(bufs') : \A i, j \in 1..Len(bufs'[n]) : bufs'[n][i][1] = bufs'[n][j][1]
  <2>1. \A j, k \in Reader!Ends(Head(bufs)) : j = k
    <3>1. \A i, j \in 1..Len(bufs[1]) : bufs[1][i][1] = bufs[1][j][1]
      BY <1>2, <1>5 DEF PacedInv
    <3>2. \A k \in Reader!Ends(Head(bufs)) : \E i \in 1..Len(bufs[1]) : bufs[1][i][1] = k
      BY <1>2 DEF Reader!Ends
    <3> QED BY <3>1, <3>2
  <2>2. ASSUME NEW n \in 1..Len(bufs')
        PROVE  \A i, j \in 1..Len(bufs'[n]) : bufs'[n][i][1] = bufs'[n][j][1]
    <3> DEFINE rest == Tail(bufs)
    <3>2. /\ Len(rest) = Len(bufs) - 1 /\ Len(bufs) \in Nat \ {0}
          /\ \A i \in 1..Len(rest) : rest[i] = bufs[i + 1]
      BY <1>1, <1>2
    <3>3. bufs' = rest
      BY <1>3
    <3> HIDE DEF rest
    <3>1. n + 1 \in 1..Len(bufs) /\ bufs'[n] = bufs[n + 1]
      BY <3>2, <3>3
    <3> QED BY <1>5, <3>1 DEF PacedInv
  <2> QED BY <1>3, <1>5, <2>1, <2>2 DEF PacedInv
<1> DEFINE M == Len(processed') + 1
           z == Len(fbuf')
<1>6. ASSUME ~lost', ~crowded', NEW i \in 1..Len(fbuf'), fbuf'[i][2] = Size(sent, fbuf'[i][1])
      PROVE  FALSE
  <2>1. ~lost /\ NoEnd /\ ~(\E j, k \in Reader!Ends(Head(bufs)) : j # k)
    BY <1>3, <1>4, <1>6 DEF PacedInv
  <2>2. /\ fbuf' \in Seq(Byte) /\ Upto(sent, fbuf', ToReceive')
        /\ First(fbuf', ToReceive') = <<M, Start'>> /\ fbuf' # <<>>
        /\ len' # Reader!NoLen => len' = sent[M].size /\ z < len'
    BY <1>3, <1>4, <1>6 DEF StreamInv, StreamTyped, ReaderInv, Start
  <2>3. IsByte(sent, fbuf'[1]) /\ fbuf'[1] = <<M, Start'>>
    BY <2>2 DEF Upto, First
  <2> HIDE DEF M, z
  <2>4. M \in DOMAIN sent /\ Start' \in 1..Size(sent, M)
    BY <2>3 DEF IsByte
  <2>5. z \in Nat \ {0} /\ z \in 0..Len(fbuf') /\ i \in 1..z
    BY <1>6, <2>2 DEF z
  <2>6. Size(sent, M) \in Nat /\ LenSize <= Size(sent, M) /\ Start' \in Nat
        /\ Size(sent, M) = LenSize + sent[M].size /\ sent[M].size \in Nat
    BY <1>1, <2>4, SizeTyped DEF Size
  <2>7. Start' + z > Size(sent, M)
    <3> SUFFICES ASSUME ~(Start' + z > Size(sent, M)) PROVE FALSE
      OBVIOUS
    <3> DEFINE j == Start'
               t == fbuf'
               b == ToReceive'
    <3>1. j + z <= Size(sent, M) + 1 /\ j + i - 1 < Size(sent, M) /\ j \in 1..Size(sent, M)
      BY <2>4, <2>5, <2>6
    <3>2. /\ First(t, b) = <<M, j>> /\ t \in Seq(Byte) /\ Upto(sent, t, b)
          /\ z \in 0..Len(t) /\ M \in DOMAIN sent
      BY <2>2, <2>4, <2>5
    <3> HIDE DEF j, t, b
    <3>a. sent \in Seq(Frame)
      BY <1>1
    <3>3. \A k \in 1..z : t[k] = <<M, j + k - 1>>
      BY ONLY <3>a, <3>1, <3>2, FrontBytes
    <3>4. fbuf'[i] = <<M, j + i - 1>>
      BY <2>5, <3>3 DEF t
    <3> QED BY <1>6, <3>1, <3>4
  <2>8. len' = Reader!NoLen /\ Start' = 1 /\ z >= Size(sent, M)
    <3>1. len' = Reader!NoLen
      <4> SUFFICES ASSUME len' # Reader!NoLen PROVE FALSE
        OBVIOUS
      <4>1. Start' = LenSize + 1 /\ z < sent[M].size
        BY <2>2 DEF Start
      <4> QED BY <1>1, <2>5, <2>6, <2>7, <4>1
    <3>2. Start' = 1
      BY <3>1 DEF Start
    <3> QED BY <2>5, <2>6, <2>7, <3>1, <3>2
  <2>9. PICK held \in Reader!Unread(Data, len) :
          IF Reader!Complete(held)
          THEN /\ fbuf' = SubSeq(held[1], held[2] + 1, Len(held[1]))
               /\ processed' = Append(processed, SubSeq(held[1], 1, held[2]))
          ELSE fbuf' = held[1] /\ len' = held[2]
    BY DEF Receive, Reader!Receive, Data
  <2>10. held[1] \in Seq(Byte) /\ held[2] \in Lengths /\ Lengths \subseteq Nat \cup {Reader!NoLen}
    BY <1>1, <1>2, <2>9, HeldTyped
  <2>11. /\ m \in DOMAIN sent
         /\ \/ held[2] = Reader!NoLen /\ held[1] = Data /\ Len(Data) < LenSize
            \/ /\ held[2] = sent[m].size /\ held[2] # Reader!NoLen
               /\ held[1] = IF len = Reader!NoLen THEN SubSeq(Data, LenSize + 1, Len(Data)) ELSE Data
    <3>1. /\ First(Data, Behind(1)) = <<m, IF len = Reader!NoLen THEN 1 ELSE LenSize + 1>>
          /\ Upto(sent, Data, Behind(1))
          /\ len # Reader!NoLen => len = sent[m].size
      BY <1>2, <2>1 DEF StreamInv, ReaderInv, Start
    <3> HIDE DEF m
    <3> QED BY SMTT(30), <1>1, <1>2, <2>9, <3>1, HeldFrame
  <2>12. Reader!Complete(held)
    <3> SUFFICES ASSUME ~Reader!Complete(held) PROVE FALSE
      OBVIOUS
    <3>1. held[2] = Reader!NoLen /\ fbuf' = held[1]
      BY <2>8, <2>9
    <3>2. z < LenSize
      BY <2>11, <3>1 DEF z
    <3> QED BY SMTT(30), <1>1, <2>5, <2>6, <2>8, <3>2
  <2> DEFINE n == held[2]
             x == IF len = Reader!NoLen THEN LenSize ELSE 0
             c == x + n
             body == held[1]
  <2>13. n \in Nat /\ n <= Len(body) /\ n = sent[m].size /\ body \in Seq(Byte)
    <3>1. held[2] # Reader!NoLen /\ Len(held[1]) >= held[2]
      BY <2>12 DEF Reader!Complete
    <3> QED BY <2>10, <2>11, <3>1
  <2>14. body = IF len = Reader!NoLen THEN SubSeq(Data, LenSize + 1, Len(Data)) ELSE Data
    BY <2>11, <2>12 DEF Reader!Complete
  <2>15. fbuf' = SubSeq(body, n + 1, Len(body)) /\ processed' = Append(processed, SubSeq(body, 1, n))
    BY <2>9, <2>12
  <2>16. x \in Nat /\ Start + x = LenSize + 1
    BY <1>1 DEF Start
  <2> HIDE DEF n, x, c, body
  <2>17. M = m + 1 /\ Size(sent, m) = LenSize + n
    <3>1. SubSeq(body, 1, n) \in Seq(Byte)
      BY <2>13
    <3>2. Len(processed') = Len(processed) + 1
      BY <1>1, <2>15, <3>1
    <3> QED BY <2>13, <3>2 DEF M, Size
  <2>18. c \in 0..Len(Data) /\ z = Len(Data) - c
    <3>1. CASE len = Reader!NoLen
      <4>1. x = LenSize /\ body = SubSeq(Data, x + 1, Len(Data))
        BY <2>14, <3>1 DEF x
      <4>2. x \in 0..Len(Data)
        <5>1. CASE Len(Data) >= LenSize
          BY <1>1, <1>2, <4>1, <5>1
        <5>2. CASE ~(Len(Data) >= LenSize)
          <6>1. body = Data
            BY <2>9, <5>2 DEF Reader!Unread, body
          <6>2. SubSeq(Data, x + 1, Len(Data)) = <<>>
            BY <1>1, <1>2, <4>1, <5>2
          <6> QED BY <1>2, <4>1, <6>1, <6>2
        <5> QED BY <5>1, <5>2
      <4>3. Len(body) = Len(Data) - x
        BY <1>2, <4>1, <4>2
      <4>4. n <= Len(Data) - x
        BY <2>13, <4>3
      <4>5. Len(SubSeq(body, n + 1, Len(body))) = Len(Data) - (x + n)
        BY <1>2, <2>13, <4>1, <4>2, <4>4, RestOfData
      <4>6. x + n \in 0..Len(Data)
        <5>1. Len(Data) \in Nat /\ x \in Nat /\ n \in Nat
          BY <1>2, <2>13, <2>16
        <5> QED BY <4>4, <5>1
      <4> QED BY <2>15, <4>5, <4>6 DEF c, z
    <3>2. CASE len # Reader!NoLen
      <4>1. x = 0 /\ body = Data
        BY <2>14, <3>2 DEF x
      <4>2. c = n
        BY <2>13, <4>1 DEF c
      <4>3. Len(SubSeq(body, n + 1, Len(body))) = Len(body) - n /\ Len(body) \in Nat
        BY SMTT(30), <2>13
      <4> QED BY SMTT(30), <2>13, <2>15, <4>1, <4>2, <4>3 DEF z
    <3> QED BY <3>1, <3>2
  <2>19. Start + c = Size(sent, m) + 1
    <3>1. n \in Nat /\ x \in Nat /\ LenSize \in Nat /\ Start \in Nat
      BY <1>1, <2>13, <2>16
    <3>2. Start + (x + n) = (LenSize + n) + 1
      BY <2>16, <3>1
    <3> QED BY <2>17, <3>2 DEF c
  <2>20. \E p, q \in Reader!Ends(Head(bufs)) : p # q
    <3> DEFINE j == Start
    <3>1. /\ m \in Nat /\ m = Len(processed) + 1 /\ m + 1 \in DOMAIN sent
          /\ c \in 0..Len(Data) /\ j \in Nat /\ j = Start /\ j + c = Size(sent, m) + 1
          /\ Size(sent, m + 1) <= Len(Data) - c
      BY <1>1, <2>4, <2>8, <2>17, <2>18, <2>19
    <3> HIDE DEF j, c, m
    <3> QED BY <2>1, <3>1, TwoEnds
  <2> QED BY <2>1, <2>20
<1>7. (~lost' /\ ~crowded') => NoEnd'
  BY <1>3, <1>6 DEF NoEnd
<1> QED BY <1>3, <1>5, <1>7 DEF PacedInv

-----------------------------------------------------------------------------

\* The theorems.

\* The steps that move bytes of the stream, and all the others.
LEMMA StreamSteps ==
    ASSUME [Next]_connectionVars
    PROVE  \/ \E size \in BodySize, outcome \in {"handled", "throws"} : Send(size, outcome)
           \/ \E n \in 1..Capacity : Sending(Handler!WriteSome(n))
           \/ Arrive \/ Blocked \/ Receive
           \/ UNCHANGED <<sent, write_queue, socket, receiverVars, secure>>
<1>1. CASE StartWrite
  BY <1>1 DEF StartWrite, Sending, Handler!StartWrite, Handler!streamVars
<1>2. CASE HandleRead
  BY <1>2 DEF HandleRead, Sending, Handler!HandleRead, Handler!Read, Handler!queueVars, Handler!peerVars
<1>3. CASE Write
  <2>1. CASE \E n \in 1..Capacity : Handler!WriteSome(n)
    BY <1>3, <2>1 DEF Write, Sending
  <2>2. CASE Handler!WriteNone
    BY <1>3, <2>2 DEF Write, Sending, Handler!WriteNone, Handler!WriteBlocked, Handler!WriteTooSoon,
        Handler!WriteShutdown, Handler!peerVars, Handler!streamVars
  <2>3. CASE Handler!WriteDone
    BY <1>3, <2>3 DEF Write, Sending, Handler!WriteDone, Handler!streamVars
  <2>4. CASE Handler!WriteThrows
    BY <1>3, <2>4 DEF Write, Sending, Handler!WriteThrows, Handler!WriteFailed, Handler!peerVars
  <2>5. CASE Handler!Flush
    BY <1>3, <2>5 DEF Write, Sending, Handler!Flush, Handler!WriteNothing, Handler!peerVars,
        Handler!streamVars
  <2> QED BY <1>3, <2>1, <2>2, <2>3, <2>4, <2>5 DEF Write, Sending, Handler!Write
<1>4. CASE PeerSteps
  BY <1>4 DEF PeerSteps, Handler!PeerShakes, Handler!PeerNotifies, Handler!PeerLeaves
<1>5. CASE UNCHANGED connectionVars
  BY <1>5 DEF connectionVars, senderVars
<1> QED BY <1>1, <1>2, <1>3, <1>4, <1>5 DEF Next

\* Every step keeps the invariant.
LEMMA StreamNext ==
    ASSUME StreamInv, PacedInv, [Next]_connectionVars
    PROVE  StreamInv' /\ PacedInv'
<1>1. CASE \E size \in BodySize, outcome \in {"handled", "throws"} : Send(size, outcome)
  BY <1>1, SendKeeps, SendPaced
<1>2. CASE \E n \in 1..Capacity : Sending(Handler!WriteSome(n))
  <2>1. StreamInv'
    BY <1>2, WriteKeeps
  <2>2. UNCHANGED <<sent, receiverVars, secure>>
    BY <1>2 DEF Sending, Handler!WriteSome, Handler!WriteBytes, Handler!peerVars
  <2> QED BY <2>1, <2>2 DEF PacedInv, NoEnd, Size, receiverVars
<1>3. CASE Arrive
  BY <1>3, ArriveKeeps, ArrivePaced
<1>4. CASE Blocked
  <2>1. UNCHANGED <<sent, secure, bufs, fbuf, lost, crowded>>
    BY <1>4 DEF Blocked, Reader!Blocked, Reader!readerState, senderVars
  <2> QED BY <1>4, <2>1, BlockedKeeps DEF PacedInv, NoEnd, Size
<1>5. CASE Receive
  BY <1>5, ReceiveKeeps, ReceivePaced
<1>6. CASE UNCHANGED <<sent, write_queue, socket, receiverVars, secure>>
  BY <1>6, StreamKept DEF PacedInv, NoEnd, Size, receiverVars
<1> QED BY <1>1, <1>2, <1>3, <1>4, <1>5, <1>6, StreamSteps

\* The stream is one: what was processed, the frame reader, the batch, the socket and the
\* queue are stretches of it, each behind the other.
THEOREM StreamInOrder == Spec => [](StreamInv /\ PacedInv)
<1>1. Init => StreamInv /\ PacedInv
  <2>1. Init => PacedInv
    BY DEF Init, Reader!Init, PacedInv, NoEnd
  <2> QED BY <2>1, StreamInit
<1>2. StreamInv /\ PacedInv /\ [Next]_connectionVars => (StreamInv /\ PacedInv)'
  BY StreamNext
<1> QED BY <1>1, <1>2, PTL DEF Spec

\* The part of StreamConserved that does not concatenate: until an exception drops buffers,
\* no frame ends the receiver, and the frames processed are the first of the frames sent.
ProcessedInOrder ==
    ~lost =>
        /\ running
        /\ \A k \in DOMAIN processed : k <= Len(sent) /\ processed[k] = Reader!Body(k)

LEMMA InOrder == StreamInv => ProcessedInOrder
<1> SUFFICES ASSUME StreamInv, ~lost
             PROVE  /\ running
                    /\ \A k \in DOMAIN processed : k <= Len(sent) /\ processed[k] = Reader!Body(k)
  BY DEF ProcessedInOrder
<1>1. /\ running /\ Len(processed) <= Len(sent)
      /\ \A k \in 1..Len(processed) : processed[k] = Reader!Body(k)
  BY DEF StreamInv, ReaderInv
<1>2. Len(processed) \in Nat /\ Len(sent) \in Nat /\ DOMAIN processed = 1..Len(processed)
  BY DEF StreamInv, StreamTyped
<1> QED BY <1>1, <1>2

-----------------------------------------------------------------------------

\* The equation of StreamConserved.

Join(s, t) == s \o t
Joined == INSTANCE FoldProofs WITH Op <- Join

\* FoldProofs is about the concatenation that Connection uses.
LEMMA SameFlatten == \A seqs : FlattenSeq(seqs) = Joined!FlattenSeq(seqs)
BY DEF FlattenSeq, Joined!FlattenSeq

LEMMA TwoParts ==
    ASSUME NEW T, NEW s \in Seq(T), NEW n \in 0..Len(s)
    PROVE  s = SubSeq(s, 1, n) \o SubSeq(s, n + 1, Len(s))
<1> DEFINE u == SubSeq(s, 1, n)
           v == SubSeq(s, n + 1, Len(s))
<1>1. /\ u \in Seq(T) /\ Len(u) = n /\ v \in Seq(T) /\ Len(v) = Len(s) - n
      /\ \A i \in 1..n : u[i] = s[i]
      /\ \A i \in 1..(Len(s) - n) : v[i] = s[n + i]
  OBVIOUS
<1> HIDE DEF u, v
<1>2. u \o v \in Seq(T) /\ Len(u \o v) = Len(s)
  BY <1>1
<1>3. ASSUME NEW i \in 1..Len(s) PROVE (u \o v)[i] = s[i]
  <2>1. CASE i <= n
    BY <1>1, <2>1
  <2>2. CASE ~(i <= n)
    <3>1. (u \o v)[i] = v[i - n] /\ i - n \in 1..(Len(s) - n) /\ n + (i - n) = i
      BY <1>1, <2>2
    <3> DEFINE j == i - n
    <3>2. j \in 1..(Len(s) - n) /\ n + j = i /\ (u \o v)[i] = v[j]
      BY <3>1
    <3> HIDE DEF j
    <3>3. v[j] = s[n + j]
      BY <1>1, <3>2
    <3> QED BY <3>2, <3>3
  <2> QED BY <2>1, <2>2
<1> DEFINE w == u \o v
<1>4. w \in Seq(T) /\ Len(w) = Len(s) /\ \A i \in 1..Len(s) : w[i] = s[i]
  BY <1>2, <1>3
<1> HIDE DEF w
<1>5. w = s
  BY <1>4
<1> QED BY <1>5 DEF u, v, w

LEMMA Regrouped ==
    ASSUME NEW T, NEW a \in Seq(T), NEW b \in Seq(T), NEW c \in Seq(T)
    PROVE  Join(Join(a, b), c) = Join(a, Join(b, c))
BY DEF Join

\* What a stretch that begins and ends with these bytes consists of: the frames from the
\* m-th on, if it ends with the last.
Ending(frames) == <<Len(frames) + 1, 1>>
Bodied(frames) == [k \in DOMAIN frames |-> Reader!Bytes(k, 1, Size(frames, k))]
Rest(frames, m) == SubSeq(Bodied(frames), m, Len(frames))

LEMMA BodiedTyped ==
    ASSUME NEW frames \in Seq(Frame)
    PROVE  /\ Bodied(frames) \in Seq(Seq(Byte)) /\ Len(Bodied(frames)) = Len(frames)
           /\ Rest(frames, Len(frames) + 1) = <<>>
           /\ \A m \in 1..Len(frames) :
                /\ Rest(frames, m) \in Seq(Seq(Byte)) /\ Rest(frames, m) # <<>>
                /\ Head(Rest(frames, m)) = Reader!Bytes(m, 1, Size(frames, m))
                /\ Tail(Rest(frames, m)) = Rest(frames, m + 1)
<1> DEFINE B == Bodied(frames)
<1>1. ASSUME NEW k \in DOMAIN frames PROVE Reader!Bytes(k, 1, Size(frames, k)) \in Seq(Byte)
  <2>1. k \in Nat \ {0} /\ Size(frames, k) \in Nat
    BY SizeTyped
  <2> DEFINE l == Size(frames, k) - 1 + 1
  <2>2. l \in Nat
    BY <2>1
  <2>3. \A n \in 1..l : <<k, 1 + n - 1>> \in Byte
    BY <2>1 DEF Byte
  <2> HIDE DEF l
  <2>4. [n \in 1..l |-> <<k, 1 + n - 1>>] \in Seq(Byte)
    BY <2>2, <2>3
  <2> QED BY <2>4 DEF Reader!Bytes, l
<1>2. B \in Seq(Seq(Byte)) /\ Len(B) = Len(frames) /\ Len(frames) \in Nat
  <2>1. DOMAIN frames = 1..Len(frames) /\ Len(frames) \in Nat
    OBVIOUS
  <2> QED BY <1>1, <2>1 DEF Bodied
<1>3. \A m \in 1..Len(frames) : B[m] = Reader!Bytes(m, 1, Size(frames, m))
  BY DEF Bodied
<1> HIDE DEF B
<1>4. SubSeq(B, Len(frames) + 1, Len(frames)) = <<>>
  BY <1>2
<1>5. ASSUME NEW m \in 1..Len(frames)
      PROVE  LET R == SubSeq(B, m, Len(frames))
             IN  /\ R \in Seq(Seq(Byte)) /\ R # <<>> /\ Head(R) = B[m]
                 /\ Tail(R) = SubSeq(B, m + 1, Len(frames))
  BY <1>2, Joined!FirstOfRest
<1> QED BY <1>2, <1>3, <1>4, <1>5 DEF Rest, B

\* Such a stretch begins with the m-th frame, if there is one, or is empty.
LEMMA FirstFrame ==
    ASSUME NEW frames \in Seq(Frame), NEW s \in Seq(Byte), Upto(frames, s, Ending(frames)),
           NEW m \in 1..Len(frames), First(s, Ending(frames)) = <<m, 1>>
    PROVE  LET n    == Size(frames, m)
               back == SubSeq(s, n + 1, Len(s))
           IN  /\ n \in 0..Len(s)
               /\ s = Reader!Bytes(m, 1, n) \o back
               /\ back \in Seq(Byte) /\ Upto(frames, back, Ending(frames))
               /\ First(back, Ending(frames)) = <<m + 1, 1>>
<1> DEFINE n == Size(frames, m)
           back == SubSeq(s, n + 1, Len(s))
           end == Ending(frames)
<1>1. m \in DOMAIN frames /\ n \in Nat /\ n >= 1 /\ 1 \in 1..n /\ m \in Nat /\ Len(frames) \in Nat
  BY SizeTyped, ConnectionAssumption
<1>2. n <= Len(s)
  <2> SUFFICES ASSUME Len(s) < n PROVE FALSE
    BY <1>1
  <2> DEFINE l == Len(s)
  <2>1. l \in 0..l /\ 1 + l <= n /\ 1 + l <= n + 1
    BY <1>1
  <2>2. SubSeq(s, l + 1, l) = <<>>
    OBVIOUS
  <2>3. First(SubSeq(s, l + 1, l), end) = <<m, 1 + l>>
    <3> HIDE DEF end
    <3>1. Upto(frames, s, end) /\ First(s, end) = <<m, 1>>
      BY DEF end
    <3> QED BY <1>1, <2>1, <3>1, FrontOfFrame
  <2>4. end = <<m, 1 + l>>
    BY <2>2, <2>3 DEF First
  <2> QED BY <1>1, <2>4 DEF Ending
<1>3. n \in 0..Len(s) /\ 1 + n = n + 1 /\ 1 + n - 1 = n
  BY <1>1, <1>2
<1>4. SubSeq(s, 1, n) = Reader!Bytes(m, 1, n) /\ First(back, end) = <<m + 1, 1>>
  <2> HIDE DEF end
  <2>1. Upto(frames, s, end) /\ First(s, end) = <<m, 1>>
    BY DEF end
  <2>2. /\ SubSeq(s, 1, n) = Reader!Bytes(m, 1, 1 + n - 1)
        /\ First(back, end) = <<m + 1, 1>>
    BY <1>1, <1>3, <2>1, FrontToEnd
  <2> QED BY <1>3, <2>2
<1>5. back \in Seq(Byte) /\ Upto(frames, back, end)
  BY <1>3, UptoParts
<1>6. s = SubSeq(s, 1, n) \o back
  BY <1>3, TwoParts
<1> QED BY <1>3, <1>4, <1>5, <1>6

LEMMA NoFrame ==
    ASSUME NEW frames \in Seq(Frame), NEW s \in Seq(Byte), Upto(frames, s, Ending(frames)),
           First(s, Ending(frames)) = Ending(frames)
    PROVE  s = <<>>
<1> SUFFICES ASSUME s # <<>> PROVE FALSE
  OBVIOUS
<1>1. s[1] = Ending(frames) /\ 1 \in 1..Len(s)
  BY DEF First
<1>2. IsByte(frames, s[1])
  BY <1>1 DEF Upto
<1> QED BY <1>1, <1>2 DEF IsByte, Ending

\* The stretch of all that is left of the stream is the frames that are left.
LEMMA StretchOfFrames ==
    ASSUME NEW frames \in Seq(Frame)
    PROVE  \A n \in Nat : \A s \in Seq(Byte), m \in 1..(Len(frames) + 1) :
                /\ m + n = Len(frames) + 1
                /\ Upto(frames, s, Ending(frames)) /\ First(s, Ending(frames)) = <<m, 1>>
                => s = FlattenSeq(Rest(frames, m))
<1> DEFINE P(n) == \A s \in Seq(Byte), m \in 1..(Len(frames) + 1) :
                    /\ m + n = Len(frames) + 1
                    /\ Upto(frames, s, Ending(frames)) /\ First(s, Ending(frames)) = <<m, 1>>
                    => s = FlattenSeq(Rest(frames, m))
           N == {n \in Nat : P(n)}
<1>1. 0 \in N
  <2> SUFFICES ASSUME NEW s \in Seq(Byte), NEW m \in 1..(Len(frames) + 1),
                      m + 0 = Len(frames) + 1,
                      Upto(frames, s, Ending(frames)), First(s, Ending(frames)) = <<m, 1>>
               PROVE  s = FlattenSeq(Rest(frames, m))
    OBVIOUS
  <2>1. m = Len(frames) + 1
    OBVIOUS
  <2>2. s = <<>>
    BY <2>1, NoFrame DEF Ending
  <2>3. Rest(frames, m) = <<>>
    BY <2>1, BodiedTyped
  <2> QED BY <2>2, <2>3, Joined!FlattenNothing, SameFlatten
<1>2. ASSUME NEW n \in N PROVE n + 1 \in N
  <2> SUFFICES ASSUME NEW s \in Seq(Byte), NEW m \in 1..(Len(frames) + 1),
                      m + (n + 1) = Len(frames) + 1,
                      Upto(frames, s, Ending(frames)), First(s, Ending(frames)) = <<m, 1>>
               PROVE  s = FlattenSeq(Rest(frames, m))
    OBVIOUS
  <2> DEFINE back == SubSeq(s, Size(frames, m) + 1, Len(s))
             first == Reader!Bytes(m, 1, Size(frames, m))
  <2>1. m \in 1..Len(frames) /\ m + 1 \in 1..(Len(frames) + 1) /\ (m + 1) + n = Len(frames) + 1
    OBVIOUS
  <2>2. /\ s = first \o back /\ back \in Seq(Byte) /\ Upto(frames, back, Ending(frames))
        /\ First(back, Ending(frames)) = <<m + 1, 1>>
    BY <2>1, FirstFrame
  <2> HIDE DEF back, first
  <2>3. P(n)
    OBVIOUS
  <2>4. back = FlattenSeq(Rest(frames, m + 1))
    BY <2>1, <2>2, <2>3
  <2>5. /\ Rest(frames, m) \in Seq(Seq(Byte)) /\ Rest(frames, m) # <<>>
        /\ Head(Rest(frames, m)) = first /\ Tail(Rest(frames, m)) = Rest(frames, m + 1)
    BY <2>1, BodiedTyped DEF first
  <2>6. FlattenSeq(Rest(frames, m)) = Head(Rest(frames, m)) \o FlattenSeq(Tail(Rest(frames, m)))
    BY <2>5, Joined!FlattenFirst, SameFlatten
  <2> QED BY <2>2, <2>4, <2>5, <2>6
<1> HIDE DEF N, P
<1>3. N = Nat
  <2>1. N \in SUBSET Nat
    BY DEF N
  <2> QED BY <1>1, <1>2, <2>1, Joined!Induction
<1>4. \A n \in Nat : P(n)
  BY <1>3 DEF N
<1> QED BY <1>4 DEF P

\* Stretches one behind the other make one.
LEMMA UptoFlatten ==
    ASSUME NEW frames \in Seq(Frame), NEW seqs \in Seq(Seq(Byte)), NEW b,
           \A n \in 1..Len(seqs) :
                /\ seqs[n] # <<>>
                /\ Upto(frames, seqs[n], IF n < Len(seqs) THEN seqs[n + 1][1] ELSE b)
    PROVE  /\ FlattenSeq(seqs) \in Seq(Byte) /\ Upto(frames, FlattenSeq(seqs), b)
           /\ First(FlattenSeq(seqs), b) = IF seqs = <<>> THEN b ELSE seqs[1][1]
<1> DEFINE Part(n) == FlattenSeq(SubSeq(seqs, 1, n))
           Next1(n) == IF n < Len(seqs) THEN seqs[n + 1][1] ELSE b
           N == {n \in Nat : n <= Len(seqs) =>
                    /\ Part(n) \in Seq(Byte) /\ Upto(frames, Part(n), Next1(n))
                    /\ First(Part(n), Next1(n)) = Next1(0)}
<1>1. 0 \in N
  <2>1. SubSeq(seqs, 1, 0) = <<>> /\ <<>> \in Seq(Byte) /\ Len(<<>>) = 0
    OBVIOUS
  <2>2. Part(0) = <<>>
    BY <2>1, Joined!FlattenNothing, SameFlatten
  <2> HIDE DEF Part, Next1
  <2>3. Upto(frames, <<>>, Next1(0)) /\ First(<<>>, Next1(0)) = Next1(0)
    BY <2>1 DEF Upto, First
  <2> QED BY <2>1, <2>2, <2>3
<1>2. ASSUME NEW n \in N PROVE n + 1 \in N
  <2> SUFFICES ASSUME n + 1 <= Len(seqs)
               PROVE  /\ Part(n + 1) \in Seq(Byte) /\ Upto(frames, Part(n + 1), Next1(n + 1))
                      /\ First(Part(n + 1), Next1(n + 1)) = Next1(0)
    OBVIOUS
  <2> DEFINE s == seqs[n + 1]
  <2>1. /\ n + 1 \in 1..Len(seqs) /\ n < Len(seqs) /\ s \in Seq(Byte)
        /\ SubSeq(seqs, 1, n) \in Seq(Seq(Byte))
        /\ SubSeq(seqs, 1, n + 1) = Append(SubSeq(seqs, 1, n), s)
    OBVIOUS
  <2>2. Part(n) \in Seq(Byte) /\ Upto(frames, Part(n), Next1(n)) /\ First(Part(n), Next1(n)) = Next1(0)
    BY <2>1
  <2>3. Part(n + 1) = Part(n) \o s
    BY <2>1, Joined!FlattenAppend, SameFlatten
  <2>4. s # <<>> /\ Upto(frames, s, Next1(n + 1)) /\ Next1(n) = s[1]
    BY <2>1
  <2> HIDE DEF s, Part, Next1
  <2>5. First(s, Next1(n + 1)) = Next1(n)
    BY <2>4 DEF First
  <2>6. /\ Upto(frames, Part(n) \o s, Next1(n + 1))
        /\ First(Part(n) \o s, Next1(n + 1)) = First(Part(n), Next1(n))
    BY <2>1, <2>2, <2>4, <2>5, UptoConcat
  <2>7. Part(n) \o s \in Seq(Byte)
    BY <2>1, <2>2
  <2> QED BY ONLY <2>2, <2>3, <2>6, <2>7
<1> HIDE DEF N, Part, Next1
<1>3. N = Nat
  <2>1. N \in SUBSET Nat
    BY DEF N
  <2> QED BY <1>1, <1>2, <2>1, Joined!Induction
<1>4. /\ Part(Len(seqs)) \in Seq(Byte) /\ Upto(frames, Part(Len(seqs)), Next1(Len(seqs)))
      /\ First(Part(Len(seqs)), Next1(Len(seqs))) = Next1(0)
  <2>1. Len(seqs) \in Nat /\ Len(seqs) <= Len(seqs)
    OBVIOUS
  <2>2. Len(seqs) \in N
    BY <1>3, <2>1
  <2> QED BY <2>1, <2>2 DEF N
<1>5. Part(Len(seqs)) = FlattenSeq(seqs)
  BY SubSeq(seqs, 1, Len(seqs)) = seqs DEF Part
<1>6. Next1(Len(seqs)) = b /\ Next1(0) = IF seqs = <<>> THEN b ELSE seqs[1][1]
  BY DEF Next1
<1> QED BY <1>4, <1>5, <1>6

\* What is in the queue is a stretch.
LEMMA UnwrittenStretch ==
    ASSUME StreamTyped, QueueInv
    PROVE  /\ Unwritten \in Seq(Byte) /\ Upto(sent, Unwritten, Ending(sent))
           /\ First(Unwritten, Ending(sent)) = ToWrite
<1> DEFINE Piece(e) == Handler!Bytes(e.buffer, e.offset + 1, Sizes[e.buffer])
           pieces == [n \in DOMAIN write_queue |-> Piece(write_queue[n])]
<1>1. /\ sent \in Seq(Frame) /\ write_queue \in Seq(Entry) /\ Len(sent) \in Nat
      /\ Len(write_queue) \in Nat /\ DOMAIN write_queue = 1..Len(write_queue)
  BY DEF StreamTyped
<1>2. ASSUME NEW n \in 1..Len(write_queue)
      PROVE  LET e == write_queue[n]
             IN  /\ Piece(e) \in Seq(Byte) /\ Piece(e) # <<>>
                 /\ Piece(e)[1] = <<e.buffer, e.offset + 1>>
                 /\ Upto(sent, Piece(e), <<e.buffer + 1, 1>>)
  <2> DEFINE e == write_queue[n]
             k == e.buffer
             o == e.offset
             l == Size(sent, k) - (o + 1) + 1
  <2>1. k \in Nat /\ o \in Nat /\ k \in DOMAIN sent /\ o < Size(sent, k)
    <3>1. e \in Entry
      BY <1>1
    <3>2. k \in Nat /\ o \in Nat
      BY <3>1 DEF Entry
    <3>3. /\ k = Len(sent) - Len(write_queue) + n /\ o < Size(sent, k)
          /\ Len(write_queue) <= Len(sent)
      BY DEF QueueInv
    <3>4. k \in 1..Len(sent)
      BY <1>1, <3>2, <3>3
    <3> QED BY <1>1, <3>2, <3>3, <3>4
  <2>2. Size(sent, k) \in Nat /\ Sizes[k] = Size(sent, k)
    BY <1>1, <2>1, SizeTyped DEF Sizes, Size
  <2>3. Piece(e) = [i \in 1..l |-> <<k, o + 1 + i - 1>>]
    BY <2>2 DEF Handler!Bytes
  <2>4. l \in Nat /\ l >= 1 /\ l = Size(sent, k) - o
    BY <2>1, <2>2
  <2> HIDE DEF e, k, o, l, Piece
  <2>5. \A i \in 1..l : <<k, o + 1 + i - 1>> \in Byte /\ o + 1 + i - 1 = o + i
    BY <1>1, <2>1, <2>4 DEF Byte
  <2> DEFINE p == Piece(e)
  <2>6. p \in Seq(Byte) /\ Len(p) = l /\ \A i \in 1..l : p[i] = <<k, o + i>>
    <3>1. p = [i \in 1..l |-> <<k, o + i>>]
      BY <2>3, <2>5
    <3>2. \A i \in 1..l : <<k, o + i>> \in Byte
      BY <2>5
    <3> HIDE DEF p
    <3>3. p \in Seq(Byte) /\ Len(p) = l
      BY <2>4, <3>1, <3>2
    <3> QED BY <3>1, <3>3
  <2> HIDE DEF p
  <2>7. p # <<>> /\ p[1] = <<k, o + 1>>
    BY <2>4, <2>6
  <2>8. Upto(sent, p, <<k + 1, 1>>)
    <3> SUFFICES ASSUME NEW i \in 1..l
                 PROVE  /\ IsByte(sent, p[i])
                        /\ \A m \in (i + 1)..l : After(sent, p[i], m - i, p[m])
                        /\ After(sent, p[i], l + 1 - i, <<k + 1, 1>>)
      BY <2>6 DEF Upto
    <3>1. p[i] = <<k, o + i>> /\ o + i \in 1..Size(sent, k) /\ o + i + (l + 1 - i) = Size(sent, k) + 1
      <4>1. p[i] = <<k, o + i>>
        BY <2>6
      <4>2. o + i \in 1..Size(sent, k) /\ o + i + (l + 1 - i) = Size(sent, k) + 1
        BY ONLY <2>1, <2>2, <2>4, i \in 1..l
      <4> QED BY <4>1, <4>2
    <3>2. IsByte(sent, p[i])
      BY <2>1, <3>1 DEF IsByte
    <3>3. ASSUME NEW m \in (i + 1)..l PROVE After(sent, p[i], m - i, p[m])
      <4>1. p[m] = <<k, o + m>>
        BY <2>6
      <4>2. o + i + (m - i) = o + m /\ o + m <= Size(sent, k) /\ o + m # Size(sent, k) + 1
        BY ONLY <2>1, <2>2, <2>4, i \in 1..l, m \in (i + 1)..l
      <4> QED BY <3>1, <4>1, <4>2 DEF After
    <3>4. After(sent, p[i], l + 1 - i, <<k + 1, 1>>)
      <4>1. ~(o + i + (l + 1 - i) <= Size(sent, k))
        BY <2>2, <3>1
      <4> QED BY <3>1, <4>1 DEF After
    <3> QED BY <3>2, <3>3, <3>4
  <2> QED BY <2>6, <2>7, <2>8 DEF p, e, k, o
<1> HIDE DEF Piece
<1>3. /\ pieces \in Seq(Seq(Byte)) /\ Len(pieces) = Len(write_queue)
      /\ \A n \in 1..Len(write_queue) : pieces[n] = Piece(write_queue[n])
  <2>1. \A n \in 1..Len(write_queue) : Piece(write_queue[n]) \in Seq(Byte)
    BY <1>2
  <2>2. pieces = [n \in 1..Len(write_queue) |-> Piece(write_queue[n])]
    BY <1>1
  <2> HIDE DEF pieces
  <2>3. pieces \in [1..Len(write_queue) -> Seq(Byte)]
    BY <2>1, <2>2
  <2>4. pieces \in Seq(Seq(Byte)) /\ Len(pieces) = Len(write_queue)
    BY <1>1, <2>3
  <2> QED BY <2>2, <2>4
<1>5. Unwritten = FlattenSeq(pieces)
  BY DEF Unwritten, Piece
<1> HIDE DEF pieces
<1>4. ASSUME NEW n \in 1..Len(pieces)
      PROVE  /\ pieces[n] # <<>>
             /\ Upto(sent, pieces[n], IF n < Len(pieces) THEN pieces[n + 1][1] ELSE Ending(sent))
  <2>1. /\ n \in 1..Len(write_queue) /\ pieces[n] = Piece(write_queue[n]) /\ n \in Nat
        /\ (n < Len(pieces) =>
                n + 1 \in 1..Len(write_queue) /\ pieces[n + 1] = Piece(write_queue[n + 1]))
    BY <1>1, <1>3
  <2>2. Upto(sent, pieces[n], <<write_queue[n].buffer + 1, 1>>) /\ pieces[n] # <<>>
    BY <1>2, <2>1
  <2>3. write_queue[n].buffer = Len(sent) - Len(write_queue) + n
    BY <2>1 DEF QueueInv
  <2>4. CASE n < Len(pieces)
    <3>1. pieces[n + 1][1] = <<write_queue[n + 1].buffer, write_queue[n + 1].offset + 1>>
      BY <1>2, <2>1, <2>4
    <3>2. /\ write_queue[n + 1].buffer = Len(sent) - Len(write_queue) + (n + 1)
          /\ n + 1 > 1 => write_queue[n + 1].offset = 0
      BY <2>1, <2>4 DEF QueueInv
    <3>3. /\ write_queue[n + 1].buffer = write_queue[n].buffer + 1
          /\ write_queue[n + 1].offset + 1 = 1
      BY <1>1, <2>1, <2>3, <3>2
    <3>4. pieces[n + 1][1] = <<write_queue[n].buffer + 1, 1>>
      BY <3>1, <3>3
    <3> QED BY <2>2, <2>4, <3>4
  <2>5. CASE ~(n < Len(pieces))
    <3>1. n = Len(write_queue)
      <4>1. n \in 1..Len(write_queue) /\ ~(n < Len(write_queue)) /\ Len(write_queue) \in Nat
        BY <1>1, <1>3, <2>1, <2>5
      <4> QED BY ONLY <4>1
    <3>2. write_queue[n].buffer = Len(sent)
      BY <1>1, <2>3, <3>1
    <3> QED BY <2>2, <2>5, <3>2 DEF Ending
  <2> QED BY <2>4, <2>5
<1>6. ToWrite = IF pieces = <<>> THEN Ending(sent) ELSE pieces[1][1]
  <2>1. CASE write_queue = <<>>
    <3>1. pieces = <<>>
      BY <1>3, <2>1
    <3> QED BY <2>1, <3>1 DEF ToWrite, Ending
  <2>2. CASE write_queue # <<>>
    <3>1. 1 \in 1..Len(write_queue) /\ pieces # <<>> /\ pieces[1] = Piece(write_queue[1])
      BY <1>1, <1>3, <2>2
    <3>2. Piece(write_queue[1])[1] = <<write_queue[1].buffer, write_queue[1].offset + 1>>
      BY <1>2, <3>1
    <3> QED BY <2>2, <3>1, <3>2 DEF ToWrite
  <2> QED BY <2>1, <2>2
<1> QED BY <1>1, <1>3, <1>4, <1>5, <1>6, UptoFlatten

\* The header whose length the frame reader has read is a stretch.
LEMMA BegunStretch ==
    ASSUME StreamTyped, ReaderInv, ~lost
    PROVE  /\ Begun \in Seq(Byte)
           /\ Upto(sent, Begun, First(fbuf, ToReceive))
           /\ First(Begun, First(fbuf, ToReceive)) = <<Len(processed) + 1, 1>>
<1> DEFINE k == Len(processed) + 1
<1>1. First(fbuf, ToReceive) = <<k, IF len = Reader!NoLen THEN 1 ELSE LenSize + 1>>
  BY DEF ReaderInv
<1>2. CASE len = Reader!NoLen
  <2>1. Begun = <<>> /\ Len(<<>>) = 0 /\ <<>> \in Seq(Byte)
    BY <1>2 DEF Begun
  <2>2. First(Begun, First(fbuf, ToReceive)) = <<k, 1>>
    BY <1>1, <1>2, <2>1 DEF First
  <2> QED BY <2>1, <2>2 DEF Upto
<1>3. CASE len # Reader!NoLen
  <2>1. /\ Len(processed) < Len(sent) /\ len = sent[k].size /\ Len(fbuf) < len
        /\ Len(processed) \in Nat /\ Len(sent) \in Nat /\ Len(fbuf) \in Nat /\ sent \in Seq(Frame)
    BY <1>3 DEF ReaderInv, StreamTyped
  <2>2. k \in DOMAIN sent /\ k \in Nat \ {0}
    BY <2>1
  <2>3. /\ LenSize \in Nat \ {0} /\ Size(sent, k) = LenSize + len /\ Size(sent, k) \in Nat
        /\ len \in Nat /\ LenSize + 1 <= Size(sent, k)
    BY <2>1, <2>2, SizeTyped, ConnectionAssumption DEF Size
  <2> HIDE DEF k
  <2> DEFINE l == LenSize - 1 + 1
             h == Begun
  <2>4. h = [i \in 1..l |-> <<k, 1 + i - 1>>] /\ l = LenSize
    BY <1>3, <2>3 DEF Begun, Reader!Header, Reader!Bytes, k
  <2>5. \A i \in 1..l : <<k, 1 + i - 1>> \in Byte /\ 1 + i - 1 = i
    BY <2>2, <2>3 DEF Byte
  <2> HIDE DEF h, l
  <2>6. h \in Seq(Byte) /\ Len(h) = LenSize /\ \A i \in 1..LenSize : h[i] = <<k, i>>
    BY <2>3, <2>4, <2>5
  <2>7. h # <<>> /\ h[1] = <<k, 1>>
    BY <2>3, <2>6
  <2>8. Upto(sent, h, <<k, LenSize + 1>>)
    <3> SUFFICES ASSUME NEW i \in 1..LenSize
                 PROVE  /\ IsByte(sent, h[i])
                        /\ \A m \in (i + 1)..LenSize : After(sent, h[i], m - i, h[m])
                        /\ After(sent, h[i], LenSize + 1 - i, <<k, LenSize + 1>>)
      BY <2>6 DEF Upto
    <3>1. h[i] = <<k, i>> /\ i \in 1..Size(sent, k)
      BY <2>3, <2>6
    <3>2. IsByte(sent, h[i])
      BY <2>2, <3>1 DEF IsByte
    <3>3. ASSUME NEW m \in (i + 1)..(LenSize + 1) PROVE After(sent, h[i], m - i, <<k, m>>)
      <4>1. i + (m - i) = m /\ m <= Size(sent, k) /\ m # Size(sent, k) + 1
        BY <2>3, <3>1
      <4> QED BY <3>1, <4>1 DEF After
    <3>4. ASSUME NEW m \in (i + 1)..LenSize PROVE After(sent, h[i], m - i, h[m])
      <4>1. h[m] = <<k, m>> /\ m \in (i + 1)..(LenSize + 1)
        BY <2>3, <2>6
      <4> QED BY <3>3, <4>1
    <3>5. LenSize + 1 \in (i + 1)..(LenSize + 1)
      BY <2>3
    <3>6. After(sent, h[i], LenSize + 1 - i, <<k, LenSize + 1>>)
      <4> DEFINE m == LenSize + 1
      <4>1. m \in (i + 1)..(LenSize + 1)
        BY <3>5
      <4> HIDE DEF m
      <4>2. After(sent, h[i], m - i, <<k, m>>)
        BY <3>3, <4>1
      <4>3. m - i = LenSize + 1 - i
        BY <2>3 DEF m
      <4> QED BY <4>2, <4>3 DEF m
    <3> QED BY <3>2, <3>4, <3>6
  <2> QED BY <1>1, <1>3, <2>6, <2>7, <2>8 DEF First, h, k
<1> QED BY <1>2, <1>3

\* StreamConserved follows: what is on its way is one stretch, from the next frame to
\* the end, which is what StretchOfFrames says of it.
THEOREM StreamAlwaysConserved == Spec => []StreamConserved
<1>1. StreamInv => StreamConserved
  <2> SUFFICES ASSUME StreamInv, ~lost
               PROVE  /\ running
                      /\ \A k \in DOMAIN processed : k <= Len(sent) /\ processed[k] = Reader!Body(k)
                      /\ Begun \o fbuf \o FlattenSeq(bufs) \o socket \o Unwritten
                            = FlattenSeq(Frames(Len(processed) + 1))
    BY DEF StreamConserved
  <2>1. StreamTyped /\ QueueInv /\ WireInv /\ ReaderInv
    BY DEF StreamInv
  <2>2. ProcessedInOrder
    BY InOrder
  <2> DEFINE end == Ending(sent)
             batch == FlattenSeq(bufs)
             four == socket \o Unwritten
             three == batch \o four
             two == fbuf \o three
             one == Begun \o two
  <2>3. sent \in Seq(Frame) /\ socket \in Seq(Byte) /\ bufs \in Seq(Seq(Byte)) /\ fbuf \in Seq(Byte)
    BY <2>1 DEF StreamTyped
  <2>4. /\ Unwritten \in Seq(Byte) /\ Upto(sent, Unwritten, end)
        /\ First(Unwritten, end) = ToWrite
    BY <2>1, UnwrittenStretch
  <2> HIDE DEF end
  <2>5. four \in Seq(Byte) /\ Upto(sent, four, end) /\ First(four, end) = ToRead
    <3>1. Upto(sent, socket, First(Unwritten, end))
      BY <2>1, <2>4 DEF WireInv
    <3>2. Upto(sent, four, end) /\ First(four, end) = First(socket, First(Unwritten, end))
      BY <2>3, <2>4, <3>1, UptoConcat
    <3> QED BY <2>3, <2>4, <3>2 DEF ToRead
  <2>6. /\ batch \in Seq(Byte) /\ Upto(sent, batch, ToRead)
        /\ First(batch, ToRead) = ToReceive
    <3>1. \A n \in 1..Len(bufs) :
            /\ bufs[n] # <<>>
            /\ Upto(sent, bufs[n], IF n < Len(bufs) THEN bufs[n + 1][1] ELSE ToRead)
      BY <2>1 DEF WireInv, Behind
    <3> QED BY <2>3, <3>1, UptoFlatten DEF ToReceive
  <2> HIDE DEF four, batch
  <2>7. three \in Seq(Byte) /\ Upto(sent, three, end) /\ First(three, end) = ToReceive
    <3>1. Upto(sent, three, end) /\ First(three, end) = First(batch, First(four, end))
      BY <2>3, <2>5, <2>6, UptoConcat
    <3> QED BY <2>5, <2>6, <3>1
  <2> HIDE DEF three
  <2>8. two \in Seq(Byte) /\ Upto(sent, two, end) /\ First(two, end) = First(fbuf, ToReceive)
    <3>1. Upto(sent, fbuf, First(three, end))
      BY <2>1, <2>7 DEF ReaderInv
    <3>2. Upto(sent, two, end) /\ First(two, end) = First(fbuf, First(three, end))
      BY <2>3, <2>7, <3>1, UptoConcat
    <3> QED BY <2>3, <2>7, <3>2
  <2> HIDE DEF two
  <2>9. one \in Seq(Byte) /\ Upto(sent, one, end) /\ First(one, end) = <<Len(processed) + 1, 1>>
    <3>1. /\ Begun \in Seq(Byte) /\ Upto(sent, Begun, First(two, end))
          /\ First(Begun, First(two, end)) = <<Len(processed) + 1, 1>>
      BY <2>1, <2>8, BegunStretch
    <3>2. Upto(sent, one, end) /\ First(one, end) = First(Begun, First(two, end))
      BY <2>3, <2>8, <3>1, UptoConcat
    <3> QED BY <2>8, <3>1, <3>2
  <2>10. one = Begun \o fbuf \o batch \o socket \o Unwritten
    <3>1. Begun \in Seq(Byte)
      BY <2>1, BegunStretch
    <3> DEFINE a == Begun \o fbuf
               b == a \o batch
    <3>2. a \in Seq(Byte) /\ b \in Seq(Byte)
      BY <2>3, <2>6, <3>1
    <3>3. Join(Join(Begun, fbuf), three) = Join(Begun, Join(fbuf, three))
      BY ONLY <2>3, <2>7, <3>1, Regrouped
    <3> HIDE DEF a
    <3>4. Join(Join(a, batch), four) = Join(a, Join(batch, four))
      BY ONLY <2>5, <2>6, <3>2, Regrouped
    <3> HIDE DEF b
    <3>5. Join(Join(b, socket), Unwritten) = Join(b, Join(socket, Unwritten))
      BY ONLY <2>3, <2>4, <3>2, Regrouped
    <3> QED BY <3>3, <3>4, <3>5 DEF Join, two, three, four, a, b
  <2> HIDE DEF one
  <2>11. one = FlattenSeq(Rest(sent, Len(processed) + 1))
    <3> DEFINE m == Len(processed) + 1
               n == Len(sent) - Len(processed)
    <3>1. n \in Nat /\ m \in 1..(Len(sent) + 1) /\ m + n = Len(sent) + 1
      BY <2>1, <2>3 DEF ReaderInv, StreamTyped
    <3>2. Upto(sent, one, Ending(sent)) /\ First(one, Ending(sent)) = <<m, 1>>
      BY <2>9 DEF end
    <3> HIDE DEF m, n
    <3>3. one = FlattenSeq(Rest(sent, m))
      BY <2>3, <2>9, <3>1, <3>2, StretchOfFrames
    <3> QED BY <3>3 DEF m
  <2>12. Rest(sent, Len(processed) + 1) = Frames(Len(processed) + 1)
    <3>1. Bodied(sent) = [k \in DOMAIN sent |-> Reader!Serialized(k, sent[k].size)]
      BY DEF Bodied, Reader!Serialized, Size
    <3> QED BY <3>1 DEF Rest, Frames
  <2> QED BY <2>2, <2>10, <2>11, <2>12 DEF ProcessedInOrder, batch
<1> QED BY <1>1, StreamInOrder, PTL

\* Whatever the sizes, no frame is left in the frame reader for want of a byte that does
\* not come, as long as no buffer brings the ends of two: what is behind the bytes it
\* holds is what will be written next, so that they end with the end of a frame, and none
\* of them is one.
THEOREM PacedFramesAlwaysProcessed == Spec => []PacedFramesProcessed
<1>1. StreamInv /\ PacedInv => PacedFramesProcessed
  <2> SUFFICES ASSUME StreamInv, PacedInv, Quiet, ~lost, secure \/ ~crowded
               PROVE  Len(processed) = Len(sent)
    BY DEF PacedFramesProcessed
  <2>1. NoEnd
    BY DEF PacedInv
  <2>2. ToReceive = <<Len(sent) + 1, 1>>
    BY DEF Quiet, ToReceive, ToRead, ToWrite, First
  <2>3. /\ Upto(sent, fbuf, ToReceive)
        /\ First(fbuf, ToReceive)[1] = Len(processed) + 1
    BY DEF StreamInv, ReaderInv
  <2>4. sent \in Seq(Frame) /\ fbuf \in Seq(Byte) /\ Len(processed) \in Nat /\ Len(sent) \in Nat
    BY DEF StreamInv, StreamTyped
  <2>5. CASE fbuf = <<>>
    BY <2>2, <2>3, <2>4, <2>5 DEF First
  <2>6. CASE fbuf # <<>>
    <3> DEFINE a == fbuf[Len(fbuf)]
    <3>1. Len(fbuf) \in 1..Len(fbuf) /\ Len(fbuf) + 1 - Len(fbuf) = 1
      BY <2>4, <2>6
    <3>2. IsByte(sent, a) /\ After(sent, a, 1, ToReceive) /\ a[2] # Size(sent, a[1])
      BY <2>1, <2>3, <3>1 DEF Upto, NoEnd
    <3> HIDE DEF a
    <3>3. a[1] \in DOMAIN sent /\ a[2] \in 1..Size(sent, a[1]) /\ Size(sent, a[1]) \in Nat
      BY <2>4, <3>2, SizeTyped DEF IsByte
    <3>4. a[2] + 1 <= Size(sent, a[1])
      BY <3>2, <3>3
    <3>5. ToReceive = <<a[1], a[2] + 1>>
      BY <3>2, <3>4 DEF After
    <3>6. a[1] = Len(sent) + 1
      BY <2>2, <3>5
    <3> QED BY <2>4, <3>3, <3>6
  <2> QED BY <2>5, <2>6
<1> QED BY <1>1, StreamInOrder, PTL

-----------------------------------------------------------------------------

\* The channel.

Bodies == [k \in DOMAIN sent |-> Reader!Body(k)]

\* A frame that is sent is one of the payloads, behind those that were sent before.
LEMMA ChannelSends ==
    ASSUME StreamInv, NEW size \in BodySize, NEW outcome \in {"handled", "throws"},
           Send(size, outcome)
    PROVE  Channel!Next
<1> DEFINE n     == Len(sent)
           frame == Reader!Bytes(n + 1, LenSize + 1, LenSize + size)
<1>1. /\ n < MaxFrames /\ sent' = Append(sent, [size |-> size, outcome |-> outcome])
      /\ UNCHANGED <<processed, lost>>
  BY DEF Send, receiverVars
<1>2. /\ sent \in Seq(Frame) /\ n \in Nat /\ DOMAIN sent = 1..n
      /\ DOMAIN sent' = 1..(n + 1) /\ sent'[n + 1].size = size
      /\ \A k \in 1..n : sent'[k] = sent[k]
  BY <1>1 DEF StreamInv, StreamTyped
<1>3. n + 1 \in 1..MaxFrames
  BY <1>1, <1>2, ConnectionAssumption
<1> HIDE DEF n
<1>4. Bodies' = [k \in 1..(n + 1) |-> IF k \in 1..n THEN Reader!Body(k) ELSE frame]
  <2>1. Bodies' = [k \in 1..(n + 1) |-> Reader!Bytes(k, LenSize + 1, LenSize + sent'[k].size)]
    BY <1>2 DEF Bodies, Reader!Body
  <2>2. ASSUME NEW k \in 1..(n + 1)
        PROVE  Reader!Bytes(k, LenSize + 1, LenSize + sent'[k].size)
                    = IF k \in 1..n THEN Reader!Body(k) ELSE frame
    <3>1. CASE k \in 1..n
      BY <1>2, <3>1 DEF Reader!Body
    <3>2. CASE k \notin 1..n
      <4>1. k = n + 1
        BY <1>2, <3>2
      <4> QED BY <1>2, <3>2, <4>1
    <3> QED BY <3>1, <3>2
  <2> QED BY <2>1, <2>2
<1>5. Bodies = [k \in 1..n |-> Reader!Body(k)]
  BY <1>2 DEF Bodies
<1> HIDE DEF frame
<1>6. Bodies' = Append(Bodies, frame)
  <2> DEFINE S == {Reader!Body(k) : k \in 1..n} \cup {frame}
  <2>1. Bodies \in Seq(S) /\ Len(Bodies) = n /\ frame \in S
    BY <1>2, <1>5
  <2> HIDE DEF S
  <2>2. Append(Bodies, frame) = [k \in 1..(n + 1) |-> IF k = n + 1 THEN frame ELSE Bodies[k]]
    <3> DEFINE more == Append(Bodies, frame)
    <3>1. /\ more \in Seq(S) /\ Len(more) = n + 1
          /\ \A k \in 1..n : more[k] = Bodies[k]
          /\ more[n + 1] = frame
      BY <1>2, <2>1
    <3> HIDE DEF more
    <3>2. more = [k \in 1..(n + 1) |-> more[k]]
      BY <3>1
    <3>3. \A k \in 1..(n + 1) : more[k] = IF k = n + 1 THEN frame ELSE Bodies[k]
      BY <1>2, <3>1
    <3>4. more = [k \in 1..(n + 1) |-> IF k = n + 1 THEN frame ELSE Bodies[k]]
      BY <3>2, <3>3
    <3> QED BY <3>4 DEF more
  <2>3. \A k \in 1..(n + 1) : (IF k \in 1..n THEN Reader!Body(k) ELSE frame)
                                    = IF k = n + 1 THEN frame ELSE Bodies[k]
    BY <1>2, <1>5
  <2> QED BY <1>4, <2>2, <2>3
<1>7. frame \in {Reader!Bytes(k, LenSize + 1, LenSize + s) : k \in 1..MaxFrames, s \in BodySize}
  BY <1>3 DEF frame
<1>8. Channel!Send(frame)
  BY <1>1, <1>6 DEF Channel!Send, Bodies
<1> QED BY <1>7, <1>8 DEF Channel!Next

\* A buffer that is received delivers the next frame or none.
LEMMA ChannelReceives ==
    ASSUME StreamInv, Receive
    PROVE  [Channel!Next]_Channel!channelVars
<1>1. /\ StreamInv' /\ (lost => lost') /\ (~lost => Hands)
  BY ReceiveKeeps
<1>2. sent' = sent /\ Bodies' = Bodies
  <2>1. sent' = sent
    BY DEF Receive, Reader!Receive
  <2> QED BY <2>1 DEF Bodies, Reader!Body
<1>3. lost \in BOOLEAN /\ lost' \in BOOLEAN
  BY <1>1 DEF StreamInv, StreamTyped
<1>4. CASE lost
  BY <1>1, <1>2, <1>4 DEF Channel!Next, Channel!Unknown, Bodies
<1>5. CASE ~lost /\ UNCHANGED <<processed, lost>>
  BY <1>2, <1>5 DEF Channel!channelVars, Bodies
<1>6. CASE /\ ~lost /\ Len(processed) < Len(sent)
           /\ processed' = Append(processed, Reader!Body(Len(processed) + 1))
  <2>1. /\ Len(processed) + 1 \in DOMAIN sent /\ Len(Bodies) = Len(sent)
    BY <1>6 DEF StreamInv, StreamTyped, Bodies
  <2>2. Bodies[Len(processed) + 1] = Reader!Body(Len(processed) + 1)
    BY <2>1 DEF Bodies
  <2>3. Channel!Pending /\ processed' = Append(processed, Channel!NextFrame)
    BY <1>6, <2>1, <2>2 DEF Channel!Pending, Channel!NextFrame, Bodies
  <2>4. Channel!Deliver
    BY <1>2, <1>6, <2>3 DEF Channel!Deliver, Bodies
  <2>5. Channel!Kept \/ Channel!Lost
    BY <1>3, <1>6 DEF Channel!Kept, Channel!Lost
  <2> QED BY <2>4, <2>5 DEF Channel!Next
<1> QED BY <1>1, <1>3, <1>4, <1>5, <1>6 DEF Hands

\* The connection implements the channel: over all its steps, of whatever sizes, frames
\* are handed over one at a time, each once, in the order in which they were sent, until
\* an exception breaks it.
THEOREM ChannelImplemented == Spec => ImplementsChannel
<1>1. Init => Channel!Init
  BY DEF Init, Reader!Init, Channel!Init
<1>2. ASSUME StreamInv, [Next]_connectionVars PROVE [Channel!Next]_Channel!channelVars
  <2>1. ASSUME UNCHANGED <<sent, processed, lost>> PROVE UNCHANGED Channel!channelVars
    BY <2>1 DEF Channel!channelVars, Reader!Body
  <2>2. CASE \E size \in BodySize, outcome \in {"handled", "throws"} : Send(size, outcome)
    BY <1>2, <2>2, ChannelSends
  <2>3. CASE \E n \in 1..Capacity : Sending(Handler!WriteSome(n))
    BY <2>1, <2>3 DEF Sending, receiverVars
  <2>4. CASE Arrive
    BY <2>1, <2>4 DEF Arrive, Reader!Read
  <2>5. CASE Blocked
    BY <2>1, <2>5 DEF Blocked, Reader!Blocked
  <2>6. CASE Receive
    BY <1>2, <2>6, ChannelReceives
  <2>7. CASE UNCHANGED <<sent, write_queue, socket, receiverVars, secure>>
    BY <2>1, <2>7 DEF receiverVars
  <2> QED BY <1>2, <2>2, <2>3, <2>4, <2>5, <2>6, <2>7, StreamSteps
<1> QED BY <1>1, <1>2, StreamInOrder, PTL DEF Spec, ImplementsChannel, Channel!Spec

-----------------------------------------------------------------------------

\* The types.

\* The sender's stream and its peer; the socket is never over its capacity.
EndsTyped ==
    /\ secure \in BOOLEAN /\ is_open \in BOOLEAN /\ should_write \in BOOLEAN
    /\ state \in IF secure THEN {"HANDSHAKE", "DATA", "SHUTDOWN", "STOP"} ELSE {"START"}
    /\ writing \in {"no", "loop", "flush"}
    /\ peer \in {"open", "closed", "reset"} /\ shaken \in {"awaited", "done", "bad"}
    /\ notified \in BOOLEAN
    /\ notified => secure
    /\ Len(socket) <= Capacity

\* Only TLS has a notice to answer, and a shutdown to do.
LEMMA ShutdownTyped ==
    ASSUME EndsTyped, notified \/ state = "SHUTDOWN", Handler!HandleShutdown
    PROVE  is_open' \in BOOLEAN /\ secure /\ state' \in {"STOP", "SHUTDOWN"}
BY DEF EndsTyped, Handler!HandleShutdown

\* A read leaves the socket to the peer.
LEMMA ReadTyped ==
    ASSUME EndsTyped, HandleRead
    PROVE  EndsTyped'
<1>1. /\ writing' = writing /\ UNCHANGED <<secure, peer, shaken, notified, socket>>
      /\ \/ Handler!ReadHandshakeFailed \/ Handler!ReadBlocked \/ Handler!ReadEnd
         \/ Handler!ReadNotice \/ Handler!ReadShutdown
  BY DEF HandleRead, Sending, Handler!HandleRead, Handler!Read, Handler!peerVars, Handler!queueVars
<1>2. is_open' \in BOOLEAN /\ should_write' \in BOOLEAN
      /\ state' \in IF secure THEN {"HANDSHAKE", "DATA", "SHUTDOWN", "STOP"} ELSE {"START"}
  <2>1. CASE Handler!ReadHandshakeFailed
    BY <2>1 DEF EndsTyped, Handler!ReadHandshakeFailed
  <2>2. CASE Handler!ReadBlocked \/ Handler!ReadEnd
    BY <2>2 DEF EndsTyped, Handler!ReadBlocked, Handler!ReadEnd, Handler!EnterData
  <2>3. CASE Handler!ReadNotice
    BY <2>3, ShutdownTyped DEF EndsTyped, Handler!ReadNotice
  <2>4. CASE Handler!ReadShutdown
    BY <2>4, ShutdownTyped DEF EndsTyped, Handler!ReadShutdown
  <2> QED BY <1>1, <2>1, <2>2, <2>3, <2>4
<1> QED BY <1>1, <1>2 DEF EndsTyped

\* A write gives the socket no more than there is room for.
LEMMA WriteTyped ==
    ASSUME StreamInv, EndsTyped, Write
    PROVE  EndsTyped'
<1>1. ASSUME NEW n \in 1..Capacity, Handler!WriteSome(n) PROVE EndsTyped'
  <2>1. /\ UNCHANGED <<writing, is_open, secure, peer, shaken, notified>>
        /\ Handler!EnterData /\ should_write' = FALSE
        /\ n <= Capacity - Len(socket)
    BY <1>1 DEF Handler!WriteSome, Handler!WriteBytes, Handler!peerVars, Handler!Takes, Handler!Free
  <2>2. PICK k, first, last : /\ socket' = socket \o Handler!Bytes(k, first + 1, last)
                              /\ last = first + n /\ first \in Nat /\ k \in Nat
    <3>1. write_queue # <<>> /\ write_queue \in Seq(Entry)
      BY <1>1 DEF StreamInv, StreamTyped, Handler!WriteSome, Handler!InLoop
    <3>2. Head(write_queue) \in Entry
      BY <3>1
    <3>3. Head(write_queue).offset \in Nat /\ Head(write_queue).buffer \in Nat
      BY <3>2 DEF Entry
    <3> QED BY <1>1, <3>3 DEF Handler!WriteSome, Handler!WriteBytes
  <2>3. n \in Nat /\ Capacity \in Nat /\ Len(socket) \in Nat /\ socket \in Seq(Byte)
    BY ConnectionAssumption DEF StreamInv, StreamTyped
  <2>4. Len(socket') = Len(socket) + n
    <3> DEFINE piece == Handler!Bytes(k, first + 1, last)
    <3>1. piece = [i \in 1..n |-> <<k, (first + 1) + i - 1>>]
      <4>1. last - (first + 1) + 1 = n
        BY <2>2, <2>3
      <4> QED BY <4>1 DEF Handler!Bytes
    <3> DEFINE S     == {<<k, (first + 1) + i - 1>> : i \in 1..n}
               at(i) == <<k, (first + 1) + i - 1>>
    <3>2. piece \in Seq(S) /\ Len(piece) = n
      <4>1. \A i \in 1..n : at(i) \in S
        OBVIOUS
      <4>2. piece = [i \in 1..n |-> at(i)]
        BY <3>1
      <4> HIDE DEF piece, S, at
      <4> QED BY <2>3, <4>1, <4>2
    <3> HIDE DEF piece, S
    <3>3. socket \in Seq(Byte \cup S) /\ piece \in Seq(Byte \cup S)
      BY <2>3, <3>2
    <3>4. Len(socket \o piece) = Len(socket) + n
      BY <3>2, <3>3
    <3> QED BY <2>2, <3>4 DEF piece
  <2>5. Len(socket') <= Capacity
    BY <2>1, <2>3, <2>4
  <2> QED BY <2>1, <2>5 DEF EndsTyped, Handler!EnterData
<1>2. ASSUME Handler!WriteNone PROVE EndsTyped'
  <2>1. CASE Handler!WriteBlocked(Handler!Left)
    BY <1>2, <2>1 DEF EndsTyped, Handler!WriteNone, Handler!WriteBlocked, Handler!EnterData,
        Handler!peerVars
  <2>2. CASE Handler!WriteTooSoon
    BY <1>2, <2>2 DEF EndsTyped, Handler!WriteNone, Handler!WriteTooSoon, Handler!streamVars
  <2>3. CASE Handler!WriteShutdown
    <3>1. /\ state = "SHUTDOWN" /\ Handler!HandleShutdown /\ writing' = "flush"
          /\ UNCHANGED <<secure, peer, shaken, notified, socket, should_write>>
      BY <1>2, <2>3 DEF Handler!WriteNone, Handler!WriteShutdown, Handler!peerVars
    <3>2. is_open' \in BOOLEAN /\ secure /\ state' \in {"STOP", "SHUTDOWN"}
      BY <3>1, ShutdownTyped
    <3> QED BY <3>1, <3>2 DEF EndsTyped
  <2> QED BY <1>2, <2>1, <2>2, <2>3 DEF Handler!WriteNone
<1>3. ASSUME Handler!WriteDone PROVE EndsTyped'
  BY <1>3 DEF EndsTyped, Handler!WriteDone, Handler!streamVars
<1>4. ASSUME Handler!WriteThrows PROVE EndsTyped'
  BY <1>4 DEF EndsTyped, Handler!WriteThrows, Handler!WriteFailed, Handler!peerVars
<1>5. ASSUME Handler!Flush PROVE EndsTyped'
  BY <1>5 DEF EndsTyped, Handler!Flush, Handler!WriteNothing, Handler!peerVars, Handler!streamVars
<1> QED BY <1>1, <1>2, <1>3, <1>4, <1>5 DEF Write, Sending, Handler!Write

\* Each step keeps the types.
LEMMA EndsNext ==
    ASSUME StreamInv, StreamInv', EndsTyped, [Next]_connectionVars
    PROVE  EndsTyped'
<1>1. ASSUME UNCHANGED <<senderVars, socket>> PROVE EndsTyped'
  BY <1>1 DEF EndsTyped, senderVars
<1>2. ASSUME NEW size \in BodySize, NEW outcome \in {"handled", "throws"}, Send(size, outcome)
      PROVE  EndsTyped'
  BY <1>2 DEF EndsTyped, Send, Handler!Enqueue, Handler!streamVars
<1>3. CASE StartWrite
  BY <1>3 DEF EndsTyped, StartWrite, Sending, Handler!StartWrite, Handler!streamVars
<1>4. CASE PeerSteps
  <2>1. CASE Handler!PeerShakes
    BY <1>4, <2>1 DEF EndsTyped, PeerSteps, Handler!PeerShakes
  <2>2. CASE Handler!PeerNotifies
    BY <1>4, <2>2 DEF EndsTyped, PeerSteps, Handler!PeerNotifies
  <2>3. CASE Handler!PeerLeaves
    BY <1>4, <2>3 DEF EndsTyped, PeerSteps, Handler!PeerLeaves
  <2> QED BY <1>4, <2>1, <2>2, <2>3 DEF PeerSteps
<1>5. CASE Arrive
  <2>1. PICK n \in 1..ReadSize : Reader!Read(n)
    BY <1>5 DEF Arrive
  <2>2. socket' = SubSeq(socket, n + 1, Len(socket)) /\ n \in Nat /\ n <= Len(socket)
    BY <2>1, ConnectionAssumption DEF Reader!Read
  <2>3. socket \in Seq(Byte)
    BY DEF StreamInv, StreamTyped
  <2>4. Len(socket') = Len(socket) - n /\ Len(socket) \in Nat /\ Capacity \in Nat
    BY <2>2, <2>3, ConnectionAssumption
  <2>5. Len(socket) <= Capacity => Len(socket') <= Capacity
    BY <2>2, <2>4
  <2>6. UNCHANGED senderVars
    BY <1>5 DEF Arrive
  <2> QED BY <2>5, <2>6 DEF EndsTyped, senderVars
<1>6. CASE Blocked
  BY <1>1, <1>6 DEF Blocked, Reader!Blocked
<1>7. CASE Receive
  BY <1>1, <1>7 DEF Receive, Reader!Receive
<1>8. CASE UNCHANGED connectionVars
  BY <1>1, <1>8 DEF connectionVars
<1> QED BY <1>2, <1>3, <1>4, <1>5, <1>6, <1>7, <1>8, ReadTyped, WriteTyped DEF Next

\* The types of a connection, the offset of each buffer of the queue within it.
THEOREM ConnectionTyped == Spec => []TypeOK
<1>1. Init => EndsTyped
  <2> SUFFICES ASSUME Init PROVE EndsTyped
    OBVIOUS
  <2>1. Len(socket) <= Capacity
    <3>1. socket = <<>> /\ Capacity \in Nat
      BY ConnectionAssumption DEF Init, Handler!HandlerInit, Handler!Init
    <3> QED BY <3>1
  <2>2. /\ secure \in BOOLEAN /\ state = IF secure THEN "HANDSHAKE" ELSE "START"
        /\ should_write = FALSE /\ is_open = TRUE /\ peer = "open" /\ shaken = "awaited"
        /\ notified = FALSE /\ writing = "no"
    BY DEF Init, Handler!HandlerInit, Handler!Init
  <2> QED BY <2>1, <2>2 DEF EndsTyped
<1>2. StreamInv /\ StreamInv' /\ EndsTyped /\ [Next]_connectionVars => EndsTyped'
  BY EndsNext
<1>3. StreamInv /\ EndsTyped => TypeOK
  <2> SUFFICES ASSUME StreamInv, EndsTyped PROVE TypeOK
    OBVIOUS
  <2>1. ASSUME NEW n \in DOMAIN write_queue
        PROVE  write_queue[n].offset \in 0..(Sizes[write_queue[n].buffer] - 1)
    <3>1. /\ sent \in Seq(Frame) /\ write_queue \in Seq(Entry) /\ n \in 1..Len(write_queue)
          /\ Len(sent) \in Nat /\ Len(write_queue) \in Nat
      BY DEF StreamInv, StreamTyped
    <3>2. /\ Len(write_queue) <= Len(sent)
          /\ write_queue[n].buffer = Len(sent) - Len(write_queue) + n
          /\ write_queue[n].offset < Size(sent, write_queue[n].buffer)
      BY <3>1 DEF StreamInv, QueueInv
    <3>3. write_queue[n].buffer \in DOMAIN sent
      BY <3>1, <3>2
    <3>4. Sizes[write_queue[n].buffer] = Size(sent, write_queue[n].buffer)
      BY <3>3 DEF Sizes, Size
    <3>5. Size(sent, write_queue[n].buffer) \in Nat
      BY <3>1, <3>3, SizeTyped
    <3>6. write_queue[n].offset \in Nat
      <4>1. write_queue[n] \in Entry
        BY <3>1
      <4> QED BY <4>1 DEF Entry
    <3> QED BY <3>2, <3>4, <3>5, <3>6
  <2>2. /\ delivering \in BOOLEAN /\ len \in {Reader!NoLen} \cup BodySize \cup Garbled
        /\ running \in BOOLEAN /\ lost \in BOOLEAN /\ crowded \in BOOLEAN
    BY DEF StreamInv, StreamTyped, Lengths
  <2> QED BY <2>1, <2>2 DEF TypeOK, EndsTyped
<1> QED BY <1>1, <1>2, <1>3, StreamInOrder, PTL DEF Spec

=============================================================================
