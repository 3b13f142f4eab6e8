---------------------------- MODULE ClientProofs -----------------------------
(* The client.  The ring that its two threads share, for every capacity:    *)
(* the operations keep its type, and do to its contents what a queue that  *)
(* drops the oldest item does.  On top of it the two threads, for rings    *)
(* and late states of any number: types, the queue that the socket's ring  *)
(* implements, and the frames that overlap a load.  And the connection to  *)
(* the match server, for buffers, packets and breaks of any number: the    *)
(* packets cut out of its stream, and the failures that it notices.        *)
EXTENDS ClientThreads, ClientTcp, SequenceTheorems, TLAPS

-----------------------------------------------------------------------------
(* The ring.                                                               *)

\* An index stays one.
LEMMA AfterIndex == \A i \in Indexes : After(i) \in Indexes
  BY RingAssumption DEF Indexes, After

\* ringbuffer_size counts between nothing and everything, and the test for an
\* empty buffer is one for size 0.
LEMMA SizeRange ==
  ASSUME NEW r \in Ring
  PROVE  /\ Size(r) \in 0 .. Capacity
         /\ IsEmpty(r) <=> Size(r) = 0
         /\ r.full <=> Size(r) = Capacity
  BY RingAssumption DEF Ring, Indexes, Size, IsEmpty

\* A new buffer is an empty one.
LEMMA NewRingEmpty ==
  ASSUME NEW x \in Items
  PROVE  NewRing(x) \in Ring /\ Size(NewRing(x)) = 0
  BY RingAssumption DEF NewRing, Ring, Indexes, Size

\* ringbuffer_queue leaves a buffer that is one longer, unless it was full.
LEMMA PutRing ==
  ASSUME NEW r \in Ring, NEW x \in Items
  PROVE  /\ Put(r, x) \in Ring
         /\ Size(Put(r, x)) = IF r.full THEN Capacity ELSE Size(r) + 1
<1> DEFINE s == Put(r, x)
<1>1. /\ r.buf \in [Indexes -> Items] /\ r.head \in Indexes /\ r.tail \in Indexes
      /\ r.full \in BOOLEAN /\ r.full => r.head = r.tail
  BY DEF Ring
<1>2. After(r.head) \in Indexes /\ After(r.tail) \in Indexes
  BY <1>1, AfterIndex
<1>3. /\ s.buf = [r.buf EXCEPT ![r.tail] = x]
      /\ s.head = (IF r.full THEN After(r.head) ELSE r.head)
      /\ s.tail = After(r.tail)
      /\ s.full = (r.full \/ r.head = After(r.tail))
      /\ s \in [buf : [Indexes -> Items], head : Indexes, tail : Indexes, full : BOOLEAN]
  BY <1>1, <1>2 DEF Put
<1>4. s.full => s.head = s.tail
  BY <1>1, <1>3
<1>5. s \in Ring
  BY <1>3, <1>4 DEF Ring
<1>6. Size(s) = IF r.full THEN Capacity ELSE Size(r) + 1
  <2>1. CASE r.full
    BY <1>3, <2>1 DEF Size
  <2>2. CASE ~r.full /\ s.full
    <3>1. r.head = After(r.tail) /\ Size(s) = Capacity
      BY <1>3, <2>2 DEF Size
    <3>2. Size(r) = IF r.head <= r.tail THEN r.tail - r.head ELSE Capacity - (r.head - r.tail)
      BY <2>2 DEF Size
    <3> QED  BY <1>1, <2>2, <3>1, <3>2, RingAssumption DEF After, Indexes
  <2>3. CASE ~r.full /\ ~s.full
    <3>1. s.head = r.head /\ s.tail = After(r.tail) /\ r.head # After(r.tail)
      BY <1>3, <2>3
    <3>2. Size(r) = IF r.head <= r.tail THEN r.tail - r.head ELSE Capacity - (r.head - r.tail)
      BY <2>3 DEF Size
    <3>3. Size(s) = IF r.head <= After(r.tail) THEN After(r.tail) - r.head
                    ELSE Capacity - (r.head - After(r.tail))
      BY <2>3, <3>1 DEF Size
    <3> HIDE DEF s
    <3> QED  BY <1>1, <2>3, <3>1, <3>2, <3>3, RingAssumption DEF After, Indexes
  <2> QED  BY <2>1, <2>2, <2>3
<1> QED  BY <1>5, <1>6

\* ringbuffer_dequeue leaves a buffer that is one shorter.
LEMMA TakeRing ==
  ASSUME NEW r \in Ring, ~IsEmpty(r)
  PROVE  Take(r) \in Ring /\ Size(Take(r)) = Size(r) - 1
<1> DEFINE s == Take(r)
<1>1. /\ r \in [buf : [Indexes -> Items], head : Indexes, tail : Indexes, full : BOOLEAN]
      /\ r.full => r.head = r.tail
  BY DEF Ring
<1>2. After(r.head) \in Indexes
  BY <1>1, AfterIndex
<1>3. /\ s.buf = r.buf /\ s.head = After(r.head) /\ s.tail = r.tail /\ s.full = FALSE
      /\ s \in [buf : [Indexes -> Items], head : Indexes, tail : Indexes, full : BOOLEAN]
  BY <1>1, <1>2 DEF Take
<1>4. s \in Ring
  BY <1>3 DEF Ring
<1>5. Size(s) = Size(r) - 1
  BY <1>1, <1>3, RingAssumption DEF Size, After, Indexes, IsEmpty
<1> QED  BY <1>4, <1>5

\* The i-th oldest item has a place, and no two have the same.
LEMMA PlaceIndex ==
  ASSUME NEW r \in Ring, NEW i \in 1 .. Capacity
  PROVE  Place(r, i) \in Indexes
  BY RingAssumption DEF Place, Ring, Indexes

\* What a buffer stands for is a sequence as long as the size says.
LEMMA ContentsSeq ==
  ASSUME NEW r \in Ring
  PROVE  /\ Contents(r) \in Seq(Items) /\ Len(Contents(r)) = Size(r)
         /\ \A i \in 1 .. Size(r) : Contents(r)[i] = r.buf[Place(r, i)]
<1>1. Size(r) \in 0 .. Capacity
  BY SizeRange
<1>2. ASSUME NEW i \in 1 .. Size(r)  PROVE r.buf[Place(r, i)] \in Items
  <2>1. Place(r, i) \in Indexes
    BY <1>1, PlaceIndex, RingAssumption
  <2> QED  BY <2>1 DEF Ring
<1>3. Contents(r) \in [1 .. Size(r) -> Items]
  BY <1>2 DEF Contents
<1> QED  BY <1>1, <1>3, RingAssumption DEF Contents

\* Whatever its history, a buffer takes a new item as DropQueue does.
THEOREM PutContents ==
  ASSUME NEW r \in Ring, NEW x \in Items
  PROVE  Contents(Put(r, x)) =
           Append(IF Len(Contents(r)) = Capacity THEN Tail(Contents(r)) ELSE Contents(r), x)
<1> DEFINE s == Put(r, x)
           c == Contents(r)
           q == IF Len(c) = Capacity THEN Tail(c) ELSE c
           n == Size(r)
<1>1. s \in Ring /\ Size(s) = IF r.full THEN Capacity ELSE n + 1
  BY PutRing
<1>2. n \in 0 .. Capacity /\ (r.full <=> n = Capacity)
  BY SizeRange
<1>3. c \in Seq(Items) /\ Len(c) = n /\ \A i \in 1 .. n : c[i] = r.buf[Place(r, i)]
  BY ContentsSeq
<1>4. /\ Contents(s) \in Seq(Items) /\ Len(Contents(s)) = Size(s)
      /\ \A i \in 1 .. Size(s) : Contents(s)[i] = s.buf[Place(s, i)]
  BY <1>1, ContentsSeq
<1>5. /\ r.buf \in [Indexes -> Items] /\ r.head \in Indexes /\ r.tail \in Indexes
      /\ r.full \in BOOLEAN /\ r.full => r.head = r.tail
  BY DEF Ring
<1>6. /\ s.buf = [r.buf EXCEPT ![r.tail] = x]
      /\ s.head = (IF r.full THEN After(r.head) ELSE r.head)
  BY DEF Put
<1> HIDE DEF s, c, n
<1>7. CASE r.full
  <2>1. n = Capacity /\ n > 0 /\ Size(s) = n /\ Len(c) = Capacity /\ r.head = r.tail
    BY <1>1, <1>2, <1>3, <1>5, <1>7, RingAssumption
  <2>2. q = Tail(c) /\ q \in Seq(Items) /\ Len(q) = n - 1
        /\ \A i \in 1 .. n - 1 : q[i] = c[i + 1]
    BY <1>2, <1>3, <2>1, RingAssumption
  <2>3. /\ Append(q, x) \in Seq(Items) /\ Len(Append(q, x)) = n /\ Append(q, x)[n] = x
        /\ \A i \in 1 .. n - 1 : Append(q, x)[i] = q[i]
    BY <1>2, <2>1, <2>2, RingAssumption
  <2>4. Place(s, n) = r.tail
    BY <1>2, <1>5, <1>6, <1>7, <2>1, RingAssumption DEF Place, After, Indexes
  <2>5. Contents(s)[n] = x
    BY <1>2, <1>4, <1>5, <1>6, <2>1, <2>4, RingAssumption
  <2>6. ASSUME NEW i \in 1 .. n - 1  PROVE Contents(s)[i] = c[i + 1]
    <3>1. i \in 1 .. Capacity /\ i + 1 \in 1 .. n /\ i \in 1 .. Size(s)
      BY <1>2, <2>1, RingAssumption
    <3>2. Place(s, i) = Place(r, i + 1) /\ Place(r, i + 1) # r.tail
      <4>1. s.head = After(r.head) /\ r.head \in 0 .. Capacity - 1 /\ i \in 1 .. Capacity - 1
        BY <1>5, <1>6, <1>7, <2>1 DEF Indexes
      <4>2. Place(s, i) = Place(r, i + 1)
        BY <4>1, RingAssumption DEF Place, After
      <4>3. Place(r, i + 1) # r.head
        BY <4>1, RingAssumption DEF Place
      <4> QED  BY <2>1, <4>2, <4>3
    <3>3. Place(r, i + 1) \in Indexes
      BY <1>2, <2>1, <3>1, PlaceIndex, RingAssumption
    <3>4. s.buf[Place(s, i)] = r.buf[Place(r, i + 1)]
      BY <1>5, <1>6, <3>2, <3>3
    <3> QED  BY <1>3, <1>4, <3>1, <3>4
  <2>7. Len(Contents(s)) = n
    BY <1>4, <2>1
  <2>8. ASSUME NEW i \in 1 .. n  PROVE Contents(s)[i] = Append(q, x)[i]
    <3>1. CASE i = n
      BY <2>3, <2>5, <3>1
    <3>2. CASE i # n
      <4>1. i \in 1 .. n - 1
        BY <1>2, <3>2, RingAssumption
      <4> QED  BY <2>2, <2>3, <2>6, <4>1
    <3> QED  BY <3>1, <3>2
  <2>9. Contents(s) = Append(q, x)
    BY <1>4, <2>3, <2>7, <2>8, SeqEqual
  <2> QED  BY <2>9 DEF s, c
<1>8. CASE ~r.full
  <2>1. n \in Nat /\ n < Capacity /\ Size(s) = n + 1 /\ q = c /\ s.head = r.head
    BY <1>1, <1>2, <1>3, <1>6, <1>8, RingAssumption
  <2>2. /\ Append(q, x) \in Seq(Items) /\ Len(Append(q, x)) = n + 1 /\ Append(q, x)[n + 1] = x
        /\ \A i \in 1 .. n : Append(q, x)[i] = c[i]
    BY <1>3, <2>1
  <2>3. n = IF r.head <= r.tail THEN r.tail - r.head ELSE Capacity - (r.head - r.tail)
    BY <1>8 DEF n, Size
  <2>4. Place(s, n + 1) = r.tail
    <3>1. CASE r.head <= r.tail
      BY <1>5, <2>1, <2>3, <3>1, RingAssumption DEF Place, Indexes
    <3>2. CASE ~(r.head <= r.tail)
      BY <1>5, <2>1, <2>3, <3>2, RingAssumption DEF Place, Indexes
    <3> QED  BY <3>1, <3>2
  <2>5. Contents(s)[n + 1] = x
    BY <1>4, <1>5, <1>6, <2>1, <2>4
  <2>6. ASSUME NEW i \in 1 .. n  PROVE Contents(s)[i] = c[i]
    <3>1. i \in 1 .. Capacity /\ i \in 1 .. Size(s)
      BY <2>1, RingAssumption
    <3>2. Place(s, i) = Place(r, i)
      BY <1>5, <2>1, <3>1, RingAssumption DEF Place, Indexes
    <3>3. Place(r, i) # r.tail
      <4>1. CASE r.head <= r.tail
        BY <1>5, <2>1, <2>3, <3>1, <4>1, RingAssumption DEF Place, Indexes
      <4>0. /\ r.head \in Int /\ r.tail \in Int /\ n \in Int /\ Capacity \in Int
            /\ i \in 1 .. n
        BY <1>5, <2>1, RingAssumption DEF Indexes
      <4>2. CASE ~(r.head <= r.tail) /\ r.head + i <= Capacity
        <5>1. Place(r, i) = r.head + i - 1
          BY ONLY <4>2 DEF Place
        <5> QED BY ONLY <4>0, <4>2, <5>1
      <4>3. CASE ~(r.head <= r.tail) /\ ~(r.head + i <= Capacity)
        <5>1. Place(r, i) = r.head + i - 1 - Capacity
          BY ONLY <4>3 DEF Place
        <5> QED BY ONLY <2>3, <4>0, <4>3, <5>1
      <4> QED  BY <4>1, <4>2, <4>3
    <3>4. Place(r, i) \in Indexes
      BY <3>1, PlaceIndex
    <3>5. s.buf[Place(s, i)] = r.buf[Place(r, i)]
      BY <1>5, <1>6, <3>2, <3>3, <3>4
    <3> QED  BY <1>3, <1>4, <3>1, <3>5
  <2>7. Len(Contents(s)) = n + 1
    BY <1>4, <2>1
  <2>8. ASSUME NEW i \in 1 .. n + 1  PROVE Contents(s)[i] = Append(q, x)[i]
    <3>1. CASE i = n + 1
      BY <2>2, <2>5, <3>1
    <3>2. CASE i # n + 1
      <4>1. i \in 1 .. n
        BY <2>1, <3>2
      <4> QED  BY <2>2, <2>6, <4>1
    <3> QED  BY <3>1, <3>2
  <2>9. Contents(s) = Append(q, x)
    BY <1>4, <2>2, <2>7, <2>8, SeqEqual
  <2> QED  BY <2>9 DEF s, c
<1> QED  BY <1>5, <1>7, <1>8

\* What is read is the oldest item, and it is gone then.
THEOREM TakeContents ==
  ASSUME NEW r \in Ring, ~IsEmpty(r)
  PROVE  /\ Contents(r) # <<>> /\ Oldest(r) = Head(Contents(r))
         /\ Contents(Take(r)) = Tail(Contents(r))
<1> DEFINE s == Take(r)
           c == Contents(r)
           n == Size(r)
<1>1. s \in Ring /\ Size(s) = n - 1
  BY TakeRing
<1>2. n \in 1 .. Capacity
  BY SizeRange, RingAssumption
<1>3. c \in Seq(Items) /\ Len(c) = n /\ \A i \in 1 .. n : c[i] = r.buf[Place(r, i)]
  BY ContentsSeq
<1>4. /\ Contents(s) \in Seq(Items) /\ Len(Contents(s)) = Size(s)
      /\ \A i \in 1 .. Size(s) : Contents(s)[i] = s.buf[Place(s, i)]
  BY <1>1, ContentsSeq
<1>5. r.head \in Indexes /\ s.buf = r.buf /\ s.head = After(r.head)
  BY DEF Ring, Take
<1> HIDE DEF s, c, n
<1>6. c # <<>> /\ Head(c) = c[1] /\ Tail(c) \in Seq(Items) /\ Len(Tail(c)) = n - 1
      /\ \A i \in 1 .. n - 1 : Tail(c)[i] = c[i + 1]
  BY <1>2, <1>3, RingAssumption
<1>7. Oldest(r) = c[1]
  <2>1. Place(r, 1) = r.head
    BY <1>5, RingAssumption DEF Place, Indexes
  <2> QED  BY <1>2, <1>3, <2>1, RingAssumption DEF Oldest
<1>8. ASSUME NEW i \in 1 .. n - 1  PROVE Contents(s)[i] = Tail(c)[i]
  <2>1. i + 1 \in 1 .. n /\ i \in 1 .. Size(s) /\ i \in 1 .. Capacity
    BY <1>1, <1>2, RingAssumption
  <2>2. Place(s, i) = Place(r, i + 1)
    BY <1>2, <1>5, <2>1, RingAssumption DEF Place, After, Indexes
  <2> QED  BY <1>3, <1>4, <1>5, <1>6, <2>1, <2>2
<1>9. Contents(s) = Tail(c)
  BY <1>1, <1>4, <1>6, <1>8, SeqEqual
<1> QED  BY <1>6, <1>7, <1>9 DEF s, c

-----------------------------------------------------------------------------
(* The two threads.                                                        *)

\* The two kinds of state are items.
LEMMA ItemTypes == Play \in Items /\ Over \in Items
  BY ThreadsAssumption

\* What is read from a ring is an item.
LEMMA OldestItem ==
  ASSUME NEW r \in Ring
  PROVE  Oldest(r) \in Items
  BY DEF Ring, Oldest

\* The second ring may be empty.
LEMMA NothingCarried == <<>> \in {<<>>} \cup {<<x>> : x \in Items}
  OBVIOUS

\* The types hold at the start.
LEMMA TypeInit == Init => TypeOK
<1> SUFFICES ASSUME Init PROVE TypeOK
  OBVIOUS
<1>1. NewRing(Play) \in Ring
  BY ItemTypes, NewRingEmpty
<1>2. carried \in {<<>>} \cup {<<x>> : x \in Items}
  BY NothingCarried DEF Init
<1>3. late \in 0 .. MaxLate
  BY ThreadsAssumption DEF Init
<1> QED  BY <1>1, <1>2, <1>3, ItemTypes DEF Init, TypeOK

\* The logic thread keeps the types.
LEMMA TypeLogic == TypeOK /\ Logic => TypeOK'
<1> SUFFICES ASSUME TypeOK, Logic PROVE TypeOK'
  OBVIOUS
<1> USE DEF TypeOK, gateVars, socketVars, quitVars, serverVars, LogicAt
<1>1. CASE Online
  BY <1>1, ItemTypes DEF Online
<1>2. CASE Matched2
  <2>1. NewRing(Play) \in Ring
    BY ItemTypes, NewRingEmpty
  <2>2. carried' \in {<<>>} \cup {<<x>> : x \in Items}
    BY <1>2, NothingCarried DEF Matched2
  <2>3. late' \in 0 .. MaxLate
    BY <1>2, ThreadsAssumption DEF Matched2
  <2> QED  BY <1>2, <2>1, <2>2, <2>3 DEF Matched2
<1>3. CASE RetryQueueLater
  <2>1. queued' \in BOOLEAN
    BY <1>3 DEF RetryQueueLater
  <2> QED  BY <1>3, <2>1, ItemTypes DEF RetryQueueLater
<1>4. CASE SceneMessage
  <2>1. safe' \in BOOLEAN /\ slipped' \in BOOLEAN
    BY <1>4 DEF SceneMessage, StopFrames
  <2> QED  BY <1>4, <2>1 DEF SceneMessage, StopFrames
<1>5. CASE LoopEnds
  BY <1>5 DEF LoopEnds
<1>6. CASE Load
  <2>1. CASE NoFrame
    BY <2>1 DEF NoFrame
  <2>2. CASE FieldLoaded
    BY <2>2 DEF FieldLoaded
  <2>3. CASE NoFrameAgain
    <3>1. safe' \in BOOLEAN
      BY <2>3 DEF NoFrameAgain, StopFrames
    <3> QED  BY <2>3, <3>1 DEF NoFrameAgain, StopFrames
  <2>4. CASE Loaded
    <3>1. safe' \in BOOLEAN /\ slipped' \in BOOLEAN
      BY <2>4 DEF Loaded
    <3> QED  BY <2>4, <3>1 DEF Loaded
  <2> QED  BY <1>6, <2>1, <2>2, <2>3, <2>4 DEF Load
<1>7. CASE UdpUpdate
  BY <1>7 DEF UdpUpdate
<1>8. CASE UdpGone
  BY <1>8 DEF UdpGone
<1>9. CASE UdpError
  <2>1. ready' \in BOOLEAN
    BY <1>9 DEF UdpError
  <2> QED  BY <1>9, <2>1 DEF UdpError
<1>10. CASE UdpDone
  BY <1>10 DEF UdpDone
<1>11. ASSUME NEW x \in Items, UdpState(x)  PROVE TypeOK'
  <2>1. ring' \in Ring
    BY <1>11, PutRing DEF UdpState
  <2>2. late' \in 0 .. MaxLate
    BY <1>11, ThreadsAssumption DEF UdpState
  <2> QED  BY <1>11, <2>1, <2>2 DEF UdpState
<1> QED
  BY <1>1, <1>2, <1>3, <1>4, <1>5, <1>6, <1>7, <1>8, <1>9, <1>10, <1>11 DEF Logic

\* So does the render thread.
LEMMA TypeRender == TypeOK /\ Render => TypeOK'
<1> SUFFICES ASSUME TypeOK, Render PROVE TypeOK'
  OBVIOUS
<1> USE DEF TypeOK, gateVars, socketVars, quitVars, serverVars, RenderAt
<1>1. CASE Prerender
  BY <1>1 DEF Prerender
<1>2. CASE Drop
  <2>1. Size(ring) >= KeepBelow => ~IsEmpty(ring)
    BY SizeRange, ThreadsAssumption, RingAssumption
  <2>2. ring' \in Ring
    BY <1>2, <2>1, TakeRing DEF Drop
  <2> QED  BY <1>2, <2>2 DEF Drop
<1>3. CASE TakeState
  <2>1. ring' \in Ring /\ carried' \in {<<>>} \cup {<<x>> : x \in Items}
    BY <1>3, TakeRing, OldestItem DEF TakeState
  <2> QED  BY <1>3, <2>1 DEF TakeState
<1>4. CASE Apply
  <2>1. NewRing(Play) \in Ring
    BY ItemTypes, NewRingEmpty
  <2>2. phase' \in Items
    BY <1>4 DEF Apply
  <2>3. carried' \in {<<>>} \cup {<<x>> : x \in Items}
    BY <1>4, NothingCarried DEF Apply
  <2>4. ring' \in Ring /\ udp' \in BOOLEAN
    BY <1>4, <2>1 DEF Apply
  <2> QED  BY <1>4, <2>2, <2>3, <2>4 DEF Apply
<1>5. CASE Gate
  BY <1>5 DEF Gate
<1>6. CASE StartFrame
  BY <1>6 DEF StartFrame
<1>7. CASE QuitApp
  BY <1>7 DEF QuitApp
<1>8. CASE Joined
  BY <1>8 DEF Joined
<1>9. CASE EndFrame
  <2>1. rendering' \in BOOLEAN /\ slipped' \in BOOLEAN
    BY <1>9 DEF EndFrame
  <2> QED  BY <1>9, <2>1 DEF EndFrame
<1> QED  BY <1>1, <1>2, <1>3, <1>4, <1>5, <1>6, <1>7, <1>8, <1>9 DEF Render

\* Every step keeps the types.
LEMMA TypeNext == TypeOK /\ [Next]_vars => TypeOK'
<1> SUFFICES ASSUME TypeOK, [Next]_vars PROVE TypeOK'
  OBVIOUS
<1>1. CASE Logic
  BY <1>1, TypeLogic
<1>2. CASE Render
  BY <1>2, TypeRender
<1>3. CASE AskQuit
  BY <1>3 DEF AskQuit, TypeOK, gateVars, socketVars, quitVars, serverVars
<1>4. CASE ServerEnds
  BY <1>4 DEF ServerEnds, TypeOK, gateVars, socketVars, quitVars, serverVars
<1>5. CASE UNCHANGED vars
  BY <1>5 DEF vars, TypeOK, gateVars, socketVars, quitVars, serverVars
<1> QED  BY <1>1, <1>2, <1>3, <1>4, <1>5 DEF Next

\* Each variable of the client has its type in every reachable state: the ring
\* stays a ring, and the second ring never holds two states.
THEOREM TypeCorrect == Spec => []TypeOK
<1>1. QED  BY TypeInit, TypeNext, PTL DEF Spec

-----------------------------------------------------------------------------
(* Frames and loads.                                                       *)

Loading == {"wait", "field", "again", "load"}

\* No frame passes the gate while a scene is loaded; the flag is up from the
\* start of a frame to its end; a frame that has passed has slipped, and so has
\* one that runs once the busy wait is over.
GateInv ==
  /\ logic \in Loading => ~safe
  /\ rendering <=> render \in {"frame", "join", "gone"}
  /\ logic \in Loading /\ render = "passed" => slipped
  /\ logic \in Loading \ {"wait"} /\ rendering => slipped

\* GateInv is inductive.
LEMMA GateNext == TypeOK /\ GateInv /\ [Next]_vars => GateInv'
<1> SUFFICES ASSUME TypeOK, GateInv, [Next]_vars PROVE GateInv'
  OBVIOUS
<1> USE DEF TypeOK, GateInv, Loading, gateVars, LogicAt, RenderAt, Alive
<1>1. CASE Logic
  <2>1. CASE Online \/ Matched2 \/ RetryQueueLater
    BY <2>1 DEF Online, Matched2, RetryQueueLater
  <2>2. CASE SceneMessage
    BY <2>2 DEF SceneMessage, StopFrames
  <2>3. CASE NoFrame
    BY <2>3 DEF NoFrame
  <2>4. CASE FieldLoaded
    BY <2>4 DEF FieldLoaded
  <2>5. CASE NoFrameAgain
    BY <2>5 DEF NoFrameAgain, StopFrames
  <2>6. CASE Loaded
    BY <2>6 DEF Loaded
  <2>7. CASE LoopEnds \/ UdpUpdate \/ UdpGone \/ UdpError \/ UdpDone
    BY <2>7 DEF LoopEnds, UdpUpdate, UdpGone, UdpError, UdpDone
  <2>8. ASSUME NEW x \in Items, UdpState(x)  PROVE GateInv'
    BY <2>8 DEF UdpState
  <2> QED  BY <1>1, <2>1, <2>2, <2>3, <2>4, <2>5, <2>6, <2>7, <2>8 DEF Logic, Load
<1>2. CASE Render
  <2>1. CASE Prerender \/ Drop
    BY <2>1 DEF Prerender, Drop
  <2>2. CASE TakeState \/ Apply
    BY <2>2 DEF TakeState, Apply
  <2>3. CASE Gate
    BY <2>3 DEF Gate
  <2>4. CASE StartFrame
    BY <2>4 DEF StartFrame
  <2>5. CASE QuitApp \/ Joined
    BY <2>5 DEF QuitApp, Joined
  <2>6. CASE EndFrame
    BY <2>6 DEF EndFrame
  <2> QED  BY <1>2, <2>1, <2>2, <2>3, <2>4, <2>5, <2>6 DEF Render
<1>3. CASE AskQuit \/ ServerEnds
  BY <1>3 DEF AskQuit, ServerEnds
<1>4. CASE UNCHANGED vars
  BY <1>4 DEF vars
<1> QED  BY <1>1, <1>2, <1>3, <1>4 DEF Next

\* A frame overlaps a load only if it had passed the gate as the load began, and
\* then no other does: the check and the set of the two flags are separate.
THEOREM OneFrameSlips == Spec => []OverlapSlipped
<1>1. Init => GateInv
  BY DEF Init, GateInv, Loading
<1>2. GateInv => OverlapSlipped
  BY DEF GateInv, OverlapSlipped, Loading
<1> QED  BY <1>1, <1>2, GateNext, TypeCorrect, PTL DEF Spec

-----------------------------------------------------------------------------
(* The ring as a queue.                                                    *)

\* Each step of the threads is one of the queue, or leaves it alone.
LEMMA QueueStep ==
  TypeOK /\ [Next]_vars =>
    [Queue!Put \/ Queue!Take \/ Queue!Clear]_(Contents(ring))
<1> SUFFICES ASSUME TypeOK, [Next]_vars
             PROVE  Queue!Put \/ Queue!Take \/ Queue!Clear
                      \/ Contents(ring') = Contents(ring)
  OBVIOUS
<1>1. ring \in Ring
  BY DEF TypeOK
<1>2. ASSUME NEW x \in Items, ring' = Put(ring, x)  PROVE Queue!Put
  BY <1>1, <1>2, PutContents DEF Queue!Put, Queue!Enqueued
<1>3. ASSUME ring' = Take(ring), ~IsEmpty(ring)  PROVE Queue!Take
  BY <1>1, <1>3, TakeContents DEF Queue!Take
<1>4. ASSUME ring' = NewRing(Play)  PROVE Queue!Clear
  <2>1. Contents(ring') \in Seq(Items) /\ Len(Contents(ring')) = 0
    BY <1>4, ItemTypes, NewRingEmpty, ContentsSeq
  <2> QED  BY <2>1 DEF Queue!Clear
<1>5. CASE \E x \in Items : UdpState(x)
  BY <1>2, <1>5 DEF UdpState
<1>6. CASE Drop
  <2>1. Size(ring) >= KeepBelow => ~IsEmpty(ring)
    BY <1>1, SizeRange, ThreadsAssumption, RingAssumption
  <2> QED  BY <1>3, <1>6, <2>1 DEF Drop
<1>7. CASE TakeState
  BY <1>3, <1>7 DEF TakeState
<1>8. CASE Apply
  BY <1>4, <1>8 DEF Apply
<1>9. CASE Matched2
  BY <1>4, <1>9 DEF Matched2
<1>10. CASE \/ Online \/ RetryQueueLater \/ UdpError
  BY <1>10 DEF Online, RetryQueueLater, UdpError
<1>11. CASE \/ SceneMessage \/ LoopEnds \/ Load \/ UdpUpdate \/ UdpGone \/ UdpDone
  BY <1>11 DEF SceneMessage, LoopEnds, Load, NoFrame, FieldLoaded, NoFrameAgain,
               Loaded, UdpUpdate, UdpGone, UdpDone, socketVars
<1>12. CASE \/ Prerender \/ Gate \/ StartFrame \/ QuitApp \/ Joined \/ EndFrame
            \/ AskQuit \/ ServerEnds \/ UNCHANGED vars
  BY <1>12 DEF Prerender, Gate, StartFrame, QuitApp, Joined, EndFrame, AskQuit,
               ServerEnds, vars, socketVars
<1> QED
  BY <1>5, <1>6, <1>7, <1>8, <1>9, <1>10, <1>11, <1>12 DEF Next, Logic, Render

\* The states that the socket has queued and the frames have not yet taken are a
\* queue that drops the oldest for a new one, with the index arithmetic of
\* lwringbuffer.c, for every capacity.
THEOREM RingImplementsQueue == Spec => RingIsQueue
<1>1. Init => Contents(ring) = <<>>
  <2> SUFFICES ASSUME Init PROVE Contents(ring) = <<>>
    OBVIOUS
  <2>1. Contents(ring) \in Seq(Items) /\ Len(Contents(ring)) = 0
    BY ItemTypes, NewRingEmpty, ContentsSeq DEF Init
  <2> QED  BY <2>1
<1> QED  BY <1>1, QueueStep, TypeCorrect, PTL DEF Spec, RingIsQueue, Queue!Spec

-----------------------------------------------------------------------------
(* The connection to the match server.                                     *)

\* The i-th half of the packets from number d on, and a sequence that has these
\* halves behind the first off of them.
Half(d, i) == [n |-> d + ((i - 1) \div 2), half |-> 1 + ((i - 1) % 2)]
Row(s, d, off) == \A i \in 1 .. Len(s) : s[i] = Half(d, off + i)

\* Until a connection is replaced in the middle of a packet: the buffer has half
\* a packet at the most, and goes on in the stream with what the server sent.
StreamInv ==
  /\ ~mangled /\ Len(recvBuf) <= 1
  /\ Row(recvBuf, due, 0) /\ Row(stream, due, Len(recvBuf))
  /\ socket = "up" => Len(recvBuf) + Len(stream) = 2 * (packets + 1 - due)

\* What waits in the send buffer is what was written last, and the flag is up for
\* it; a direct request begins, but for the fault noted, with nothing waiting.
SendInv ==
  /\ ~overwritten => ~misread /\ sendLen \in {NoRequest, sendBuf}
  /\ sendLen # NoRequest => overwritten \/ (tries = 0 /\ sendFail)
  /\ tries = 0 /\ socket = "none" => sendFail \/ gaveUp

TcpInv == TcpTypeOK /\ (~cut => StreamInv) /\ SendInv

-----------------------------------------------------------------------------
\* Halves are counted from any packet.
LEMMA HalfShift ==
  ASSUME NEW d \in Int, NEW i \in Int, NEW j \in Int
  PROVE  Half(d, i + 2 * j) = Half(d + j, i)
<1>1. (i + 2 * j - 1) \div 2 = (i - 1) \div 2 + j
  BY SMT
<1>2. (i + 2 * j - 1) % 2 = (i - 1) % 2
  BY SMT
<1> QED BY <1>1, <1>2 DEF Half

\* A packet is two of them.
LEMMA HalfFirst ==
  ASSUME NEW d \in Int
  PROVE  /\ Half(d, 1) = [n |-> d, half |-> 1]
         /\ Half(d, 2) = [n |-> d, half |-> 2]
BY SMT DEF Half

\* So are the halves of a sequence.
LEMMA RowShift ==
  ASSUME NEW S, NEW s \in Seq(S), NEW d \in Int, NEW off \in Int, NEW j \in Int,
         Row(s, d, off + 2 * j)
  PROVE  Row(s, d + j, off)
<1> SUFFICES ASSUME NEW i \in 1 .. Len(s) PROVE s[i] = Half(d + j, off + i)
  BY DEF Row
<1>1. PICK p \in Int : p = off + i /\ p + 2 * j = (off + 2 * j) + i
  OBVIOUS
<1>2. s[i] = Half(d, p + 2 * j)
  BY <1>1 DEF Row
<1>3. Half(d, p + 2 * j) = Half(d + j, p)
  BY ONLY HalfShift, d \in Int, j \in Int, p \in Int
<1> QED BY ONLY <1>1, <1>2, <1>3

\* What is left of a run of halves is one.
LEMMA RowCut ==
  ASSUME NEW S, NEW s \in Seq(S), NEW d \in Int, NEW off \in Int, NEW k \in 0 .. Len(s),
         Row(s, d, off)
  PROVE  /\ SubSeq(s, k + 1, Len(s)) \in Seq(S)
         /\ Len(SubSeq(s, k + 1, Len(s))) = Len(s) - k
         /\ Row(SubSeq(s, k + 1, Len(s)), d, off + k)
<1> DEFINE t == SubSeq(s, k + 1, Len(s))
<1>1. t \in Seq(S) /\ Len(t) = Len(s) - k /\ \A i \in 1 .. Len(t) : t[i] = s[k + i]
  BY SubSeqProperties
<1>2. ASSUME NEW i \in 1 .. Len(t) PROVE t[i] = Half(d, (off + k) + i)
  <2>1. k + i \in 1 .. Len(s) /\ t[i] = s[k + i]
    BY <1>1
  <2>2. s[k + i] = Half(d, off + (k + i))
    BY <2>1 DEF Row
  <2>3. off + (k + i) = (off + k) + i
    BY <1>1
  <2> QED BY ONLY <2>1, <2>2, <2>3
<1> HIDE DEF t
<1>3. Row(t, d, off + k)
  BY <1>2 DEF Row
<1> QED BY <1>1, <1>3 DEF t

\* recv appends to the buffer what comes next.
LEMMA RowJoin ==
  ASSUME NEW S, NEW a \in Seq(S), NEW b \in Seq(S), NEW d \in Int, NEW k \in 0 .. Len(b),
         Row(a, d, 0), Row(b, d, Len(a))
  PROVE  /\ a \o SubSeq(b, 1, k) \in Seq(S)
         /\ Len(a \o SubSeq(b, 1, k)) = Len(a) + k
         /\ Row(a \o SubSeq(b, 1, k), d, 0)
<1> DEFINE t == SubSeq(b, 1, k)
           u == a \o t
<1>1. t \in Seq(S) /\ Len(t) = k /\ \A i \in 1 .. k : t[i] = b[i]
  BY SubSeqProperties
<1> HIDE DEF t
<1>2. /\ u \in Seq(S) /\ Len(u) = Len(a) + k
      /\ \A i \in 1 .. Len(u) : u[i] = IF i <= Len(a) THEN a[i] ELSE t[i - Len(a)]
  <2>1. /\ u \in Seq(S) /\ Len(u) = Len(a) + Len(t)
        /\ \A i \in 1 .. Len(a) + Len(t) :
             u[i] = IF i <= Len(a) THEN a[i] ELSE t[i - Len(a)]
    BY ONLY <1>1, ConcatProperties, a \in Seq(S)
  <2>2. Len(t) = k
    BY <1>1
  <2>3. Len(u) = Len(a) + k
    BY ONLY <2>1, <2>2
  <2> QED BY ONLY <2>1, <2>2, <2>3
<1> HIDE DEF u
<1>3. ASSUME NEW i \in 1 .. Len(u) PROVE u[i] = Half(d, 0 + i)
  <2>1. CASE i <= Len(a)
    BY <2>1, <1>2 DEF Row
  <2>2. CASE ~(i <= Len(a))
    <3>1. i - Len(a) \in 1 .. k /\ Len(a) + (i - Len(a)) = 0 + i
      BY <2>2, <1>2
    <3>2. u[i] = b[i - Len(a)]
      BY <2>2, <3>1, <1>1, <1>2
    <3>3. b[i - Len(a)] = Half(d, Len(a) + (i - Len(a)))
      BY <3>1 DEF Row
    <3> QED BY ONLY <3>1, <3>2, <3>3
  <2> QED BY <2>1, <2>2
<1> QED BY <1>2, <1>3 DEF Row, u, t

\* Where the loop has taken k packets, it is at the start of one.
LEMMA RowFrom ==
  ASSUME NEW S, NEW s \in Seq(S), NEW d \in Int, NEW k \in Nat, 2 * k <= Len(s),
         Row(s, d, 0)
  PROVE  /\ From(s, 2 * k + 1) \in Seq(S)
         /\ Len(From(s, 2 * k + 1)) = Len(s) - 2 * k
         /\ Row(From(s, 2 * k + 1), d + k, 0)
<1> DEFINE t == From(s, 2 * k + 1)
<1>1. PICK c \in 0 .. Len(s) : c = 2 * k /\ c = 0 + 2 * k /\ c + 1 = 2 * k + 1
  OBVIOUS
<1>2. t \in Seq(S) /\ Len(t) = Len(s) - c /\ Row(t, d, 0 + c)
  <2>1. t = SubSeq(s, c + 1, Len(s))
    BY <1>1 DEF From
  <2>2. /\ SubSeq(s, c + 1, Len(s)) \in Seq(S)
        /\ Len(SubSeq(s, c + 1, Len(s))) = Len(s) - c
        /\ Row(SubSeq(s, c + 1, Len(s)), d, 0 + c)
    BY ONLY RowCut, c \in 0 .. Len(s), d \in Int, 0 \in Int, s \in Seq(S), Row(s, d, 0)
  <2> QED BY ONLY <2>1, <2>2
<1>3. 0 + c = 0 + 2 * k
  BY <1>1
<1> HIDE DEF t
<1>4. Row(t, d, 0 + 2 * k)
  BY ONLY <1>2, <1>3
<1>5. Row(t, d + k, 0)
  BY ONLY <1>4, <1>2, RowShift, d \in Int, k \in Nat, 0 \in Int, Nat \subseteq Int
<1> QED BY <1>1, <1>2, <1>5 DEF t

\* A run that is long enough begins with the packet that is due.
LEMMA RowBegins ==
  ASSUME NEW S, NEW s \in Seq(S), NEW d \in Int, Row(s, d, 0), Len(s) >= 2
  PROVE  Begins(s, d, 1)
<1>1. /\ SubSeq(s, 1, 2) \in Seq(S) /\ Len(SubSeq(s, 1, 2)) = 2
      /\ SubSeq(s, 1, 2)[1] = s[1] /\ SubSeq(s, 1, 2)[2] = s[2]
  BY SubSeqProperties
<1>2. s[1] = Half(d, 1) /\ s[2] = Half(d, 2)
  BY DEF Row
<1>3. SubSeq(s, 1, 2) = Packet(d)
  <2> DEFINE t == SubSeq(s, 1, 2)
  <2>1. t[1] = [n |-> d, half |-> 1] /\ t[2] = [n |-> d, half |-> 2]
    BY ONLY <1>1, <1>2, HalfFirst, d \in Int
  <2>2. t = <<t[1], t[2]>>
    <3> DEFINE u == <<t[1], t[2]>>
    <3>1. t[1] \in S /\ t[2] \in S
      BY <1>1
    <3>2. u \in Seq(S) /\ Len(u) = 2 /\ u[1] = t[1] /\ u[2] = t[2]
      BY <3>1
    <3> HIDE DEF u, t
    <3>3. \A i \in 1 .. 2 : t[i] = u[i]
      BY <3>2
    <3>4. t \in Seq(S) /\ Len(t) = 2
      BY <1>1 DEF t
    <3>5. t = u
      BY ONLY <3>2, <3>3, <3>4, SeqEqual
    <3> QED BY <3>5 DEF u
  <2> QED BY ONLY <2>1, <2>2 DEF Packet
<1> QED BY <1>3 DEF Begins

\* Of a run of packets, parse_recv_packets takes all that are whole.
LEMMA ParsedRow ==
  ASSUME NEW S, NEW buf \in Seq(S), NEW d \in Int, Row(buf, d, 0), NEW p \in Parsed(buf, d)
  PROVE  \E k \in Nat :
           /\ 2 * k <= Len(buf) /\ p.left = From(buf, 2 * k + 1) /\ p.due = d + k /\ p.good
           /\ Len(p.left) = Len(buf) - 2 * k /\ Len(p.left) <= 1
<1> DEFINE good == {k \in 0 .. Len(buf) : Begins(buf, d, k)}
           bad == {j \in 1 .. Len(buf) :
                     \E k \in good : 2 * k < j /\ MayMiss(From(buf, 2 * k + 1), d + k)}
<1>1. ASSUME NEW k \in good PROVE k \in Nat /\ 2 * k <= Len(buf)
  BY DEF Begins
<1>2. ASSUME NEW k \in good, 2 * k < Len(buf)
      PROVE  /\ From(buf, 2 * k + 1)[1].half = 1
             /\ ~Incomplete(From(buf, 2 * k + 1)) => Begins(From(buf, 2 * k + 1), d + k, 1)
  <2> DEFINE t == From(buf, 2 * k + 1)
  <2>1. t \in Seq(S) /\ Len(t) = Len(buf) - 2 * k /\ Row(t, d + k, 0)
    BY <1>1, RowFrom
  <2> HIDE DEF t
  <2>2. d + k \in Int /\ 1 \in 1 .. Len(t) /\ Len(t) \in Nat /\ Len(t) >= 1
    BY <2>1, <1>1, <1>2
  <2>3. t[1] = Half(d + k, 1)
    BY ONLY <2>1, <2>2, 0 + 1 = 1 DEF Row
  <2>4. t[1].half = 1
    BY ONLY <2>3, <2>2, HalfFirst
  <2>5. ASSUME ~Incomplete(t) PROVE Begins(t, d + k, 1)
    <3>1. Len(t) # 1
      BY ONLY <2>5 DEF Incomplete
    <3>2. Len(t) >= 2
      <4>1. PICK n \in Nat : n = Len(t) /\ n >= 1
        BY ONLY <2>2
      <4>2. n # 1
        BY <3>1, <4>1
      <4>3. n >= 2
        BY <4>1, <4>2
      <4> QED BY ONLY <4>1, <4>3
    <3> QED BY ONLY <3>2, <2>1, <2>2, RowBegins
  <2> QED BY <2>4, <2>5 DEF t
<1>3. bad = {}
  <2> SUFFICES ASSUME NEW j \in 1 .. Len(buf), NEW k \in good, 2 * k < j,
                      MayMiss(From(buf, 2 * k + 1), d + k)
               PROVE  FALSE
    OBVIOUS
  <2>1. 2 * k < Len(buf)
    BY <1>1
  <2> QED BY <2>1, <1>2 DEF MayMiss
<1>4. PICK k \in good : /\ MayEnd(From(buf, 2 * k + 1))
                        /\ p = [left |-> From(buf, 2 * k + 1), due |-> d + k, good |-> TRUE]
  BY <1>3 DEF Parsed
<1>5. Len(From(buf, 2 * k + 1)) = Len(buf) - 2 * k
  BY <1>1, RowFrom
<1>6. Len(From(buf, 2 * k + 1)) <= 1
  <2>1. CASE 2 * k < Len(buf)
    <3> DEFINE t == From(buf, 2 * k + 1)
    <3>1. t[1].half = 1 /\ Len(t) > 0
      BY <2>1, <1>1, <1>2, <1>5
    <3>2. t # <<>> /\ ~(t[1].half = 2)
      BY ONLY <3>1
    <3>3. Incomplete(t)
      BY ONLY <3>2, <1>4 DEF MayEnd
    <3> QED BY ONLY <3>3 DEF Incomplete
  <2>2. CASE 2 * k = Len(buf)
    BY <2>2, <1>5
  <2> QED BY <1>1, <2>1, <2>2
<1> QED BY <1>1, <1>4, <1>5, <1>6

-----------------------------------------------------------------------------
\* new_tcp leaves nothing in the buffers.
LEMMA TcpInitInv == TcpInit => TcpInv
<1> SUFFICES ASSUME TcpInit PROVE TcpInv
  OBVIOUS
<1> USE TcpAssumption DEF TcpInit
<1>1. TcpTypeOK
  <2>1. <<>> \in Seq(Halves) /\ Len(<<>>) = 0
    OBVIOUS
  <2>2. recvBuf \in Seq(Halves) /\ Len(recvBuf) <= BufLen /\ stream \in Seq(Halves)
    BY <2>1
  <2>3. tries \in 0 .. Tries /\ packets \in 0 .. MaxPackets /\ breaks \in 0 .. MaxBreaks
        /\ due \in 1 .. MaxPackets + 1
    OBVIOUS
  <2> QED BY <2>2, <2>3 DEF TcpTypeOK, Requests
<1>2. StreamInv
  <2>1. recvBuf = <<>> /\ stream = <<>> /\ Len(recvBuf) = 0 /\ Len(stream) = 0
    OBVIOUS
  <2>2. Row(recvBuf, due, 0) /\ Row(stream, due, Len(recvBuf))
    BY <2>1 DEF Row
  <2> QED BY <2>1, <2>2 DEF StreamInv
<1>3. SendInv
  BY DEF SendInv
<1> QED BY <1>1, <1>2, <1>3 DEF TcpInv

\* What the send buffer is for does not concern the stream.
LEMMA StreamKept ==
  ASSUME TcpInv, UNCHANGED <<socket, recvVars, stream, packets, due, cut>>
  PROVE  ~cut' => StreamInv'
BY DEF TcpInv, StreamInv, Row, recvVars

\* tcp_send_sendbuf writes and sends one request, and raises the flag if it fails.
LEMMA RequestInv ==
  ASSUME TcpInv, NEW r \in Ordinary, Request(r)
  PROVE  TcpInv'
<1> USE TcpAssumption
<1>1. TcpTypeOK'
  BY DEF TcpInv, TcpTypeOK, Request, LenAfter, Requests, recvVars, outside
<1>2. ~cut' => StreamInv'
  BY StreamKept DEF Request, outside
<1>3. SendInv'
  BY DEF TcpInv, TcpTypeOK, SendInv, Request, LenAfter, MaySend
<1> QED BY <1>1, <1>2, <1>3 DEF TcpInv

\* A direct request notes what it is written over.
LEMMA StartDirectInv ==
  ASSUME TcpInv, NEW d \in Direct, StartDirect(d)
  PROVE  TcpInv'
<1> USE TcpAssumption
<1>1. TcpTypeOK'
  BY DEF TcpInv, TcpTypeOK, StartDirect, Requests, recvVars, outside
<1>2. ~cut' => StreamInv'
  BY StreamKept DEF StartDirect, outside
<1>3. SendInv'
  BY DEF TcpInv, TcpTypeOK, SendInv, StartDirect
<1> QED BY <1>1, <1>2, <1>3 DEF TcpInv

\* Once it is out, there is a socket.
LEMMA DirectSentInv ==
  ASSUME TcpInv, DirectSent
  PROVE  TcpInv'
<1> USE TcpAssumption
<1>1. TcpTypeOK'
  BY DEF TcpInv, TcpTypeOK, DirectSent, Requests, sendVars, recvVars, outside
<1>2. ~cut' => StreamInv'
  BY StreamKept DEF DirectSent, outside
<1>3. SendInv'
  BY DEF TcpInv, TcpTypeOK, SendInv, DirectSent, MaySend, sendVars
<1> QED BY <1>1, <1>2, <1>3 DEF TcpInv

\* A connection that replaces another, with nothing left of the old one.
LEMMA ConnectStream ==
  ASSUME TcpInv, NEW made \in {"up", "shut", "none"}, NEW unread, Connect(made, unread), ~cut',
         recvBuf' = unread, mangled' = FALSE, packets' = packets
  PROVE  StreamInv'
<1>1. recvBuf' = <<>> /\ stream' = <<>> /\ Len(recvBuf') = 0 /\ Len(stream') = 0
  BY DEF TcpInv, TcpTypeOK, Connect
<1>2. Row(recvBuf', due', 0) /\ Row(stream', due', Len(recvBuf'))
  BY <1>1 DEF Row
<1>3. packets \in Int /\ due' = packets + 1
  BY DEF TcpInv, TcpTypeOK, Connect
<1> QED BY <1>1, <1>2, <1>3 DEF StreamInv, Row

\* tcp_connect starts a new stream.
LEMMA ConnectType ==
  ASSUME TcpInv, NEW made \in {"up", "shut", "none"}, NEW unread, Connect(made, unread)
  PROVE  /\ socket' \in {"up", "shut", "none"} /\ cut' \in BOOLEAN
         /\ stream' \in Seq(Halves) /\ due' \in 1 .. MaxPackets + 1
BY TcpAssumption DEF TcpInv, TcpTypeOK, Connect

\* A direct request that fails gives up, or connects again.
LEMMA DirectFailsInv ==
  ASSUME TcpInv, DirectFails
  PROVE  TcpInv'
<1> USE TcpAssumption
<1>0. tries > 0 /\ UNCHANGED <<sendVars, recvVars, outside>>
  BY DEF DirectFails
<1>1. CASE tries = Tries
  <2>1. tries' = 0 /\ gaveUp' = TRUE /\ UNCHANGED <<socket, sendFail, stream, due, cut>>
    BY <1>1 DEF DirectFails
  <2>2. TcpTypeOK'
    BY <1>0, <2>1 DEF TcpInv, TcpTypeOK, sendVars, recvVars, outside
  <2>3. ~cut' => StreamInv'
    BY <1>0, <2>1, StreamKept DEF outside
  <2>4. SendInv'
    BY <1>0, <2>1 DEF TcpInv, TcpTypeOK, SendInv, sendVars
  <2> QED BY <2>2, <2>3, <2>4 DEF TcpInv
<1>2. CASE tries # Tries
  <2>1. tries' = tries + 1 /\ UNCHANGED gaveUp
    BY <1>2 DEF DirectFails
  <2>2. PICK made \in {"up", "none"} :
          Connect(made, recvBuf) /\ sendFail' = ConnectedFlag(made = "up", sendFail)
    BY <1>2 DEF DirectFails
  <2>3. TcpTypeOK'
    BY <1>0, <1>2, <2>1, <2>2, ConnectType DEF TcpInv, TcpTypeOK, sendVars, recvVars, outside, ConnectedFlag
  <2>4. ~cut' => StreamInv'
    <3>1. ~cut' => ~cut
      BY <2>2 DEF Connect, TcpInv, TcpTypeOK
    <3>2. ~cut' => mangled' = FALSE
      BY <3>1, <1>0 DEF TcpInv, StreamInv, recvVars, TcpTypeOK
    <3> QED BY <3>2, <1>0, <2>2, ConnectStream DEF recvVars, outside
  <2>5. SendInv'
    BY <1>0, <2>1, <2>2 DEF TcpInv, TcpTypeOK, SendInv, sendVars
  <2> QED BY <2>3, <2>4, <2>5 DEF TcpInv
<1> QED BY <1>1, <1>2

-----------------------------------------------------------------------------
\* The end of tcp_update leaves the send buffer as it should be.
LEMMA RetrySends ==
  ASSUME TcpInv, tries = 0, UNCHANGED <<sendBuf, overwritten, tries, gaveUp>>,
         NEW fail \in BOOLEAN, sendFail => fail, NEW now \in BOOLEAN, NEW unread, NEW next, NEW rest,
         Retry(fail, now, unread, next, rest)
  PROVE  /\ SendInv'
         /\ sendLen' \in Requests \cup {NoRequest} /\ sendFail' \in BOOLEAN
         /\ misread' \in BOOLEAN /\ breaks' \in 0 .. MaxBreaks
<1> USE TcpAssumption
<1>1. CASE Connect("none", unread) /\ fail /\ sendFail' = ConnectedFlag(FALSE, fail)
           /\ UNCHANGED <<sendLen, misread, breaks>>
  BY <1>1 DEF TcpInv, TcpTypeOK, SendInv, Connect, ConnectedFlag
<1>2. CASE Connect("up", unread) /\ sendFail' = ConnectedFlag(TRUE, fail)
           /\ Resent(sendLen, TRUE) /\ UNCHANGED breaks
  BY <1>2 DEF TcpInv, TcpTypeOK, SendInv, Connect, ConnectedFlag, Resent, LenAfter
<1>3. CASE /\ sendLen # NoRequest /\ breaks < MaxBreaks /\ breaks' = breaks + 1
           /\ Connect("shut", unread) /\ sendFail' = TRUE /\ Resent(sendLen, FALSE)
  BY <1>3 DEF TcpInv, TcpTypeOK, SendInv, Connect, Resent, LenAfter
<1>4. CASE /\ ~(fail /\ now) /\ sendFail' = fail /\ due' = next /\ stream' = rest
           /\ UNCHANGED <<socket, sendLen, misread, breaks, cut>>
  BY <1>4 DEF TcpInv, TcpTypeOK, SendInv
<1> QED BY <1>1, <1>2, <1>3, <1>4 DEF Retry

\* recv has found the end of the connection, or nothing.
LEMMA RetryNow ==
  ASSUME TcpInv, tries = 0, UNCHANGED <<sendBuf, overwritten, recvVars, tries, packets, gaveUp>>,
         Retry(TRUE, TRUE, recvBuf, due, stream)
  PROVE  TcpInv'
<1>1. PICK made \in {"up", "shut", "none"} : Connect(made, recvBuf)
  BY DEF Retry
<1>2. /\ SendInv'
      /\ sendLen' \in Requests \cup {NoRequest} /\ sendFail' \in BOOLEAN
      /\ misread' \in BOOLEAN /\ breaks' \in 0 .. MaxBreaks
  BY RetrySends
<1>3. TcpTypeOK'
  BY <1>1, <1>2, ConnectType DEF TcpInv, TcpTypeOK, recvVars
<1>4. ~cut' => StreamInv'
  <2>1. ~cut' => ~cut
    BY <1>1 DEF Connect, TcpInv, TcpTypeOK
  <2>2. ~cut' => mangled' = FALSE
    BY <2>1 DEF TcpInv, StreamInv, recvVars, TcpTypeOK
  <2> QED BY <2>2, <1>1, ConnectStream DEF recvVars
<1> QED BY <1>2, <1>3, <1>4 DEF TcpInv

\* What is left is the end of the buffer, whatever was in it.
LEMMA ParsedType ==
  ASSUME NEW buf \in Seq(Halves), NEW d \in 1 .. MaxPackets + 1, NEW p \in Parsed(buf, d)
  PROVE  /\ p.left \in Seq(Halves) /\ Len(p.left) <= Len(buf)
         /\ p.due \in 1 .. MaxPackets + 1 /\ p.good \in BOOLEAN
<1> USE TcpAssumption
<1> DEFINE good == {k \in 0 .. Len(buf) : Begins(buf, d, k)}
<1>1. ASSUME NEW i \in 0 .. Len(buf)
      PROVE  From(buf, i + 1) \in Seq(Halves) /\ Len(From(buf, i + 1)) <= Len(buf)
  BY SubSeqProperties DEF From
<1>2. ASSUME NEW k \in good PROVE 2 * k \in 0 .. Len(buf) /\ d + k \in 1 .. MaxPackets + 1
  <2>1. CASE k = 0
    BY <2>1
  <2>2. CASE k # 0
    <3>1. k \in 1 .. k /\ 2 * k <= Len(buf) /\ SubSeq(buf, 2 * k - 1, 2 * k) = Packet(d + k - 1)
      BY <2>2 DEF Begins
    <3>2. SubSeq(buf, 2 * k - 1, 2 * k)[1] = buf[2 * k - 1]
      BY <3>1, SubSeqProperties
    <3>3. buf[2 * k - 1] = [n |-> d + k - 1, half |-> 1]
      <4>1. Packet(d + k - 1)[1] = [n |-> d + k - 1, half |-> 1]
        BY DEF Packet
      <4> QED BY ONLY <4>1, <3>1, <3>2
    <3>4. buf[2 * k - 1] \in Halves
      BY <3>1
    <3>5. d + k - 1 \in 1 .. MaxPackets
      BY <3>3, <3>4 DEF Halves
    <3> QED BY <3>1, <3>5
  <2> QED BY <2>1, <2>2
<1>3. CASE \E k \in good : p = [left |-> From(buf, 2 * k + 1), due |-> d + k, good |-> TRUE]
  BY <1>1, <1>2, <1>3
<1>4. CASE \E j \in 1 .. Len(buf) : p = [left |-> From(buf, j + 1), due |-> d, good |-> FALSE]
  BY <1>1, <1>4
<1> QED BY <1>3, <1>4 DEF Parsed

\* recv and parse_recv_packets, and the retry behind them.
LEMMA ReceiveInv ==
  ASSUME TcpInv, Receive
  PROVE  TcpInv'
<1> USE TcpAssumption
<1>1. PICK k \in 1 .. Len(stream) :
        /\ k <= Space(recvBuf)
        /\ \E p \in Parsed(recvBuf \o SubSeq(stream, 1, k), due) :
             /\ recvBuf' = p.left /\ mangled' = (mangled \/ ~p.good)
             /\ Retry(sendFail, FALSE, p.left, p.due, SubSeq(stream, k + 1, Len(stream)))
  BY DEF Receive
<1> DEFINE buf == recvBuf \o SubSeq(stream, 1, k)
           rest == SubSeq(stream, k + 1, Len(stream))
<1>2. PICK p \in Parsed(buf, due) :
        /\ recvBuf' = p.left /\ mangled' = (mangled \/ ~p.good)
        /\ Retry(sendFail, FALSE, p.left, p.due, rest)
  BY <1>1
<1>3. tries = 0 /\ UNCHANGED <<sendBuf, overwritten, tries, packets, gaveUp>>
  BY DEF Receive
<1>4. /\ SubSeq(stream, 1, k) \in Seq(Halves) /\ Len(SubSeq(stream, 1, k)) = k
      /\ rest \in Seq(Halves) /\ Len(rest) = Len(stream) - k
  BY SubSeqProperties DEF TcpInv, TcpTypeOK
<1>5. /\ buf \in Seq(Halves) /\ Len(buf) = Len(recvBuf) + k
      /\ Len(buf) <= BufLen
  BY <1>1, <1>4, ConcatProperties DEF TcpInv, TcpTypeOK, Space
<1> HIDE DEF buf, rest
<1>6. /\ p.left \in Seq(Halves) /\ Len(p.left) <= Len(buf)
      /\ p.due \in 1 .. MaxPackets + 1 /\ p.good \in BOOLEAN
  BY <1>5, ParsedType DEF TcpInv, TcpTypeOK
<1>7. /\ SendInv'
      /\ sendLen' \in Requests \cup {NoRequest} /\ sendFail' \in BOOLEAN
      /\ misread' \in BOOLEAN /\ breaks' \in 0 .. MaxBreaks
  BY <1>2, <1>3, RetrySends DEF TcpInv, TcpTypeOK
<1>8. \/ \E made \in {"up", "shut", "none"} : Connect(made, p.left)
      \/ due' = p.due /\ stream' = rest /\ UNCHANGED <<socket, cut>>
  BY <1>2 DEF Retry
<1>9. TcpTypeOK'
  <2>1. recvBuf' \in Seq(Halves) /\ Len(recvBuf') <= BufLen
    BY <1>2, <1>5, <1>6 DEF TcpInv, TcpTypeOK
  <2>2. socket' \in {"up", "shut", "none"} /\ cut' \in BOOLEAN
        /\ stream' \in Seq(Halves) /\ due' \in 1 .. MaxPackets + 1
    BY <1>4, <1>6, <1>8, ConnectType DEF TcpInv, TcpTypeOK
  <2>3. mangled' \in BOOLEAN
    BY <1>2, <1>6 DEF TcpInv, TcpTypeOK
  <2> QED BY <2>1, <2>2, <2>3, <1>3, <1>7 DEF TcpInv, TcpTypeOK
<1>10. ~cut' => StreamInv'
  <2> SUFFICES ASSUME ~cut' PROVE StreamInv'
    OBVIOUS
  <2>1. ~cut
    BY <1>8 DEF Connect, TcpInv, TcpTypeOK
  <2>2. StreamInv
    BY <2>1 DEF TcpInv
  <2>3. Row(buf, due, 0)
    BY <2>2, RowJoin DEF StreamInv, TcpInv, TcpTypeOK, buf
  <2>4. PICK m \in Nat :
          /\ 2 * m <= Len(buf) /\ p.left = From(buf, 2 * m + 1) /\ p.due = due + m /\ p.good
          /\ Len(p.left) = Len(buf) - 2 * m /\ Len(p.left) <= 1
    <3>1. due \in Int
      BY DEF TcpInv, TcpTypeOK
    <3> QED BY ONLY <2>3, <3>1, <1>5, ParsedRow, p \in Parsed(buf, due)
  <2>5. mangled' = FALSE
    BY <1>2, <2>2, <2>4 DEF StreamInv, TcpInv, TcpTypeOK
  <2>6. ASSUME NEW made \in {"up", "shut", "none"}, Connect(made, p.left) PROVE StreamInv'
    BY <2>5, <2>6, <1>2, <1>3, ConnectStream
  <2>7. CASE due' = p.due /\ stream' = rest /\ UNCHANGED <<socket, cut>>
    <3>1. Row(p.left, p.due, 0)
      BY <2>3, <2>4, <1>5, RowFrom DEF TcpInv, TcpTypeOK
    <3>2. PICK o \in Nat : o = Len(p.left) /\ o + 2 * m = Len(recvBuf) + k
      BY <2>4, <1>5, <1>6
    <3>3. Row(rest, due, Len(recvBuf) + k)
      BY <2>2, RowCut DEF StreamInv, TcpInv, TcpTypeOK, rest
    <3>4. Row(rest, due, o + 2 * m)
      BY ONLY <3>2, <3>3
    <3>5. Row(rest, due + m, o)
      BY <3>4, <1>4, RowShift DEF TcpInv, TcpTypeOK
    <3>6. socket' = "up" => Len(recvBuf') + Len(stream') = 2 * (packets' + 1 - due')
      <4> SUFFICES ASSUME socket' = "up" PROVE Len(recvBuf') + Len(stream') = 2 * (packets' + 1 - due')
        OBVIOUS
      <4>1. packets \in Int /\ due \in Int /\ Len(recvBuf) \in Nat /\ Len(stream) \in Nat
        BY DEF TcpInv, TcpTypeOK
      <4>2. Len(recvBuf) + Len(stream) = 2 * (packets + 1 - due)
        BY <2>2, <2>7 DEF StreamInv
      <4>3. Len(recvBuf') = o /\ Len(stream') = Len(stream) - k
        BY ONLY <3>2, <2>7, <1>2, <1>4
      <4>4. packets' = packets /\ due' = due + m
        BY <1>3, <2>4, <2>7
      <4>5. PICK a \in Nat, l \in Nat, n \in Int, e \in Int, j \in Int :
              a = Len(recvBuf) /\ l = Len(stream) /\ n = packets /\ e = due /\ j = k
        BY ONLY <4>1, k \in 1 .. Len(stream)
      <4>6. a + l = 2 * (n + 1 - e) /\ o + 2 * m = a + j
        BY ONLY <4>2, <4>5, <3>2
      <4>7. o + (l - j) = 2 * (n + 1 - (e + m))
        BY ONLY <4>6, m \in Nat, o \in Nat, a \in Nat, l \in Nat, n \in Int, e \in Int, j \in Int
      <4> QED BY ONLY <4>3, <4>4, <4>5, <4>7
    <3>7. Row(recvBuf', due', 0) /\ Row(stream', due', Len(recvBuf'))
      BY ONLY <3>1, <3>2, <3>5, <2>4, <2>7, <1>2 DEF Row
    <3> QED BY <2>4, <2>5, <3>6, <3>7, <1>2 DEF StreamInv, Row
  <2> QED BY <2>6, <2>7, <1>8
<1> QED BY <1>7, <1>9, <1>10 DEF TcpInv

\* tcp_update as a whole.
LEMMA UpdateInv ==
  ASSUME TcpInv, Update
  PROVE  TcpInv'
<1>1. CASE ReceiveEnd
  BY <1>1, RetryNow DEF ReceiveEnd
<1>2. CASE ReceiveNothing
  BY <1>2, RetryNow DEF ReceiveNothing
<1> QED BY <1>1, <1>2, ReceiveInv DEF Update

\* The server goes on with the next packet.
LEMMA ServerSendsInv ==
  ASSUME TcpInv, ServerSends
  PROVE  TcpInv'
<1> USE TcpAssumption
<1> DEFINE p == packets + 1
           more == <<[n |-> p, half |-> 1], [n |-> p, half |-> 2]>>
<1>1. /\ socket = "up" /\ p \in 1 .. MaxPackets /\ packets' = p
      /\ stream' = stream \o more
      /\ UNCHANGED <<socket, sendVars, sendFail, recvVars, tries, breaks, due, cut, gaveUp>>
  BY DEF ServerSends, TcpInv, TcpTypeOK
<1>2. more \in Seq(Halves) /\ Len(more) = 2
  BY <1>1 DEF Halves
<1>3. stream' \in Seq(Halves) /\ Len(stream') = Len(stream) + 2
  BY <1>1, <1>2, ConcatProperties DEF TcpInv, TcpTypeOK
<1>4. \A i \in 1 .. Len(stream) + 2 :
        stream'[i] = IF i <= Len(stream) THEN stream[i] ELSE more[i - Len(stream)]
  BY <1>1, <1>2, ConcatProperties DEF TcpInv, TcpTypeOK
<1>5. TcpTypeOK'
  BY <1>1, <1>3 DEF TcpInv, TcpTypeOK, sendVars, recvVars
<1>6. ~cut' => StreamInv'
  <2> SUFFICES ASSUME ~cut' PROVE StreamInv'
    OBVIOUS
  <2>1. StreamInv
    BY <1>1 DEF TcpInv
  <2>2. PICK a \in Nat : a = Len(recvBuf)
    BY DEF TcpInv, TcpTypeOK
  <2>3. PICK l \in Nat : l = Len(stream)
    BY DEF TcpInv, TcpTypeOK
  <2>4. due \in Int /\ packets \in Int /\ a + l = 2 * (p - due)
    BY <2>1, <2>2, <2>3, <1>1 DEF StreamInv, TcpInv, TcpTypeOK
  <2>5. PICK g \in Int : g = p - due /\ due + g = p
    BY <2>4
  <2>6. Half(due, a + (l + 1)) = more[1] /\ Half(due, a + (l + 2)) = more[2]
    <3>1. a + (l + 1) = 1 + 2 * g /\ a + (l + 2) = 2 + 2 * g
      BY <2>4, <2>5
    <3>2. Half(due, 1 + 2 * g) = Half(due + g, 1) /\ Half(due, 2 + 2 * g) = Half(due + g, 2)
      <4>1. due \in Int /\ 1 \in Int /\ 2 \in Int
        BY <2>4
      <4>2. Half(due, 1 + 2 * g) = Half(due + g, 1)
        BY ONLY HalfShift, g \in Int, <4>1
      <4>3. Half(due, 2 + 2 * g) = Half(due + g, 2)
        BY ONLY HalfShift, g \in Int, <4>1
      <4> QED BY ONLY <4>2, <4>3
    <3>3. Half(p, 1) = more[1] /\ Half(p, 2) = more[2]
      BY <2>4, HalfFirst
    <3> QED BY ONLY <3>1, <3>2, <3>3, <2>5
  <2>7. Row(stream', due, a)
    <3> SUFFICES ASSUME NEW i \in 1 .. l + 2 PROVE stream'[i] = Half(due, a + i)
      BY <1>3, <2>3 DEF Row
    <3>1. CASE i <= l
      BY <3>1, <1>4, <2>1, <2>2, <2>3 DEF StreamInv, Row
    <3>2. CASE i = l + 1
      BY <3>2, <1>4, <2>3, <2>6
    <3>3. CASE i = l + 2
      BY <3>3, <1>4, <2>3, <2>6
    <3> QED BY <3>1, <3>2, <3>3
  <2>8. Row(recvBuf', due', 0) /\ Row(stream', due', Len(recvBuf'))
    BY <1>1, <2>1, <2>2, <2>7 DEF StreamInv, Row, recvVars
  <2>9. Len(recvBuf') + Len(stream') = 2 * (packets' + 1 - due')
    <3>1. Len(recvBuf') = a /\ Len(stream') = l + 2 /\ packets' = p /\ due' = due
      BY <1>1, <1>3, <2>2, <2>3 DEF recvVars
    <3>2. a + (l + 2) = 2 * (p + 1 - due)
      BY <2>4, <1>1
    <3> QED BY ONLY <3>1, <3>2
  <2> QED BY <1>1, <2>1, <2>8, <2>9 DEF StreamInv, Row, recvVars
<1>7. SendInv'
  BY <1>1 DEF TcpInv, TcpTypeOK, SendInv, sendVars
<1> QED BY <1>5, <1>6, <1>7 DEF TcpInv

\* The end of a connection takes from the end of the stream.
LEMMA BreakInv ==
  ASSUME TcpInv, Break
  PROVE  TcpInv'
<1> USE TcpAssumption
<1>1. PICK k \in 0 .. Len(stream) : stream' = SubSeq(stream, 1, k)
  BY DEF Break
<1>2. /\ socket' = "shut" /\ breaks' \in 0 .. MaxBreaks
      /\ UNCHANGED <<sendVars, sendFail, recvVars, tries, packets, due, cut, gaveUp>>
  BY DEF Break, TcpInv, TcpTypeOK
<1>3. /\ stream' \in Seq(Halves) /\ Len(stream') = k
      /\ \A i \in 1 .. k : stream'[i] = stream[i]
  BY <1>1, SubSeqProperties DEF TcpInv, TcpTypeOK
<1>4. TcpTypeOK'
  BY <1>2, <1>3 DEF TcpInv, TcpTypeOK, sendVars, recvVars
<1>5. ~cut' => StreamInv'
  BY <1>2, <1>3 DEF TcpInv, TcpTypeOK, StreamInv, Row, recvVars
<1>6. SendInv'
  BY <1>2 DEF TcpInv, TcpTypeOK, SendInv, sendVars
<1> QED BY <1>4, <1>5, <1>6 DEF TcpInv

\* Nothing else is named by the invariant.
LEMMA StutterInv ==
  ASSUME TcpInv, UNCHANGED tcpVars
  PROVE  TcpInv'
BY DEF TcpInv, TcpTypeOK, StreamInv, SendInv, Row, tcpVars, sendVars, recvVars, outside

\* Every step of the connection keeps the invariant.
THEOREM TcpInvariant == TcpSpec => []TcpInv
<1>1. TcpInv /\ [TcpNext]_tcpVars => TcpInv'
  BY RequestInv, StartDirectInv, DirectSentInv, DirectFailsInv, UpdateInv,
     ServerSendsInv, BreakInv, StutterInv DEF TcpNext
<1> QED BY <1>1, TcpInitInv, PTL DEF TcpSpec

\* The buffers of the connection keep to their length, and all else to its type.
THEOREM TcpTypeCorrect == TcpSpec => []TcpTypeOK
BY TcpInvariant, PTL DEF TcpInv

\* What parse_recv_packets handles as a packet is the next one the server sent,
\* and the buffer does not fill up, unless a connection was replaced in the middle
\* of a packet; and no request is sent with the length of another, unless a direct
\* request was written over it.
THEOREM StreamStaysWhole == TcpSpec => []StreamsWhole
<1>1. TcpInv => StreamsWhole
  BY TcpAssumption DEF TcpInv, TcpTypeOK, StreamInv, SendInv, StreamsWhole
<1> QED BY <1>1, TcpInvariant, PTL

\* send_fail is up whenever a request waits or there is no socket: what a direct
\* request leaves behind is all that can be missed.
THEOREM FailureNoticed == TcpSpec => []FailureIsNoticed
<1>1. TcpInv => FailureIsNoticed
  BY DEF TcpInv, SendInv, FailureIsNoticed
<1> QED BY <1>1, TcpInvariant, PTL
=============================================================================
