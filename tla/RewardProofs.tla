---------------------------- MODULE RewardProofs ----------------------------
(***************************************************************************)
(* Proofs about Reward, for any results between any players, and any       *)
(* number of connections and faults.                                       *)
(***************************************************************************)
EXTENDS Reward, SequenceTheorems, TLAPS

-----------------------------------------------------------------------------
(* What the definitions of Reward are made of.                             *)

\* What a goroutine has in its hands.
Work == [pc : {"closed", "read", "get", "set", "lease", "write"},
         r : Results \cup {None}, i : Both, old : [Both -> Rating], db : Db]

\* The two players of a result are two users.
LEMMA Players ==
  ASSUME NEW r \in Results
  PROVE  /\ PlayersOf(r) = {PlayerOf(r, 1), PlayerOf(r, 2)}
         /\ PlayersOf(r) \subseteq Users
         /\ PlayerOf(r, 1) # PlayerOf(r, 2)
<1>1. PlayersOf(r) = {PlayerOf(r, 1), PlayerOf(r, 2)}
  BY DEF PlayersOf, Both
<1>2. PlayersOf(r) \subseteq Users
  BY DEF Users
<1> QED BY <1>1, <1>2, RewardAssumption DEF RewardAssumption

\* A goroutine before and after a packet is one, and has no result.
LEMMA IdleWork ==
  /\ Closed \in Work /\ Reading \in Work
  /\ Closed.pc = "closed" /\ Reading.pc = "read" /\ Reading.i = 1
BY DEF Closed, Reading, Work, Both, Rating, Db, NewDb

\* A file that was never written is one.
LEMMA NewFile == NewDb \in Db /\ NewDb.rating = {} /\ {} \in Rating
BY DEF NewDb, Db, Rating

\* The calls are made for player 1, and then for player 2.
LEMMA CallOrder ==
  ASSUME NEW h \in Work,
         NEW pc \in {"closed", "read", "get", "set", "lease", "write"}
  PROVE  /\ Then(h, pc) \in Work
         /\ Then(h, pc).r = h.r /\ Then(h, pc).old = h.old
         /\ Then(h, pc).db = h.db
         /\ \/ h.i = 1 /\ Then(h, pc).i = 2 /\ Then(h, pc).pc = h.pc
            \/ h.i = 2 /\ Then(h, pc).i = 1 /\ Then(h, pc).pc = pc
<1>1. CASE h.i = 1
  BY <1>1 DEF Then, Work, Both
<1>2. CASE h.i = 2
  BY <1>2 DEF Then, Work, Both
<1> QED BY <1>1, <1>2 DEF Work, Both

\* A part of a sequence has some of its elements, in their order.
LEMMA Part ==
  ASSUME NEW S, NEW s \in Seq(S),
         NEW m \in 1 .. Len(s) + 1, NEW n \in m - 1 .. Len(s)
  PROVE  /\ SubSeq(s, m, n) \in Seq(S)
         /\ Elements(SubSeq(s, m, n)) = {s[j] : j \in m .. n}
<1> DEFINE p == SubSeq(s, m, n)
<1>1. m \in Nat \ {0} /\ n \in Nat /\ Len(s) \in Nat /\ DOMAIN s = 1 .. Len(s)
      /\ \A j \in m .. n : s[j] \in S
  BY LenProperties, ElementOfSeq
<1>2. /\ p \in Seq(S)
      /\ Len(p) = n - m + 1
      /\ \A j \in 1 .. n - m + 1 : p[j] = s[m + j - 1]
  BY <1>1, SubSeqProperties
<1>3. DOMAIN p = 1 .. n - m + 1
  BY <1>2, LenProperties
<1> HIDE DEF p
<1>4. Elements(p) = {s[j] : j \in m .. n}
  <2>1. ASSUME NEW j \in DOMAIN p PROVE \E k \in m .. n : p[j] = s[k]
    <3>1. m + j - 1 \in m .. n
      BY <1>1, <1>3
    <3> QED BY <1>2, <1>3, <3>1
  <2>2. ASSUME NEW k \in m .. n PROVE \E j \in DOMAIN p : p[j] = s[k]
    <3>1. k - m + 1 \in 1 .. n - m + 1 /\ m + (k - m + 1) - 1 = k
      BY <1>1
    <3> QED BY <1>2, <1>3, <3>1
  <2> QED BY <2>1, <2>2 DEF Elements
<1> QED BY <1>2, <1>4 DEF p

\* Nothing is twice in s.
Once(s) == \A j, k \in DOMAIN s : s[j] = s[k] => j = k

\* A part of a sequence without repetitions has none.
LEMMA PartOnce ==
  ASSUME NEW S, NEW s \in Seq(S), Once(s),
         NEW m \in 1 .. Len(s) + 1, NEW n \in m - 1 .. Len(s)
  PROVE  Once(SubSeq(s, m, n))
<1> DEFINE p == SubSeq(s, m, n)
<1>1. m \in Nat \ {0} /\ n \in Nat /\ Len(s) \in Nat /\ DOMAIN s = 1 .. Len(s)
      /\ \A j \in m .. n : s[j] \in S
  BY LenProperties, ElementOfSeq
<1>2. /\ p \in Seq(S)
      /\ Len(p) = n - m + 1
      /\ \A j \in 1 .. n - m + 1 : p[j] = s[m + j - 1]
  BY <1>1, SubSeqProperties
<1>3. DOMAIN p = 1 .. n - m + 1
  BY <1>2, LenProperties
<1> HIDE DEF p
<1>4. ASSUME NEW j \in DOMAIN p, NEW k \in DOMAIN p, p[j] = p[k]
      PROVE  j = k
  <2>1. m + j - 1 \in DOMAIN s /\ m + k - 1 \in DOMAIN s
    BY <1>1, <1>3
  <2>2. s[m + j - 1] = s[m + k - 1]
    BY <1>2, <1>3, <1>4
  <2>3. m + j - 1 = m + k - 1
    BY <2>1, <2>2 DEF Once
  <2> QED BY <1>1, <1>3, <2>3
<1> QED BY <1>4 DEF p, Once

\* Two parts of such a sequence, one behind the other, share nothing.
LEMMA PartsApart ==
  ASSUME NEW S, NEW s \in Seq(S), Once(s), NEW m \in 1 .. Len(s) + 1,
         NEW n \in m - 1 .. Len(s), NEW k, k = n + 1, NEW l, l = Len(s)
  PROVE  /\ SubSeq(s, m, n) \in Seq(S) /\ Once(SubSeq(s, m, n))
         /\ SubSeq(s, k, l) \in Seq(S) /\ Once(SubSeq(s, k, l))
         /\ Elements(SubSeq(s, m, n)) \subseteq Elements(s)
         /\ Elements(SubSeq(s, k, l)) \subseteq Elements(s)
         /\ Elements(SubSeq(s, m, n)) \cap Elements(SubSeq(s, k, l)) = {}
         /\ m > 1 => s[1] \notin Elements(SubSeq(s, m, n))
         /\ n > 0 => /\ s[1] \in Elements(s)
                     /\ s[1] \notin Elements(SubSeq(s, k, l))
<1>1. Len(s) \in Nat /\ DOMAIN s = 1 .. Len(s)
  BY LenProperties
<1>2. k \in 1 .. Len(s) + 1 /\ l \in k - 1 .. Len(s)
  BY <1>1
<1>3. /\ SubSeq(s, m, n) \in Seq(S)
      /\ Elements(SubSeq(s, m, n)) = {s[j] : j \in m .. n}
  BY Part
<1>7. /\ SubSeq(s, k, l) \in Seq(S)
      /\ Elements(SubSeq(s, k, l)) = {s[j] : j \in k .. l}
  BY ONLY <1>2, s \in Seq(S), Part
<1>4. Once(SubSeq(s, m, n)) /\ Once(SubSeq(s, k, l))
  BY <1>2, PartOnce
<1>5. Elements(s) = {s[j] : j \in 1 .. l}
  BY <1>1 DEF Elements
<1>6. \A i, j \in 1 .. l : s[i] = s[j] => i = j
  BY <1>1 DEF Once
<1> QED BY <1>1, <1>2, <1>3, <1>4, <1>5, <1>6, <1>7

-----------------------------------------------------------------------------
(* A result that was sent is in one place: on the wire of one connection,  *)
(* in the hands of one goroutine, handled, or lost.                        *)

Pending(c) ==
  Elements(wire[c]) \cup IF Busy(c) THEN {hnd[c].r} ELSE {}

OnePlace(c) ==
  /\ Once(wire[c])
  /\ Busy(c) => hnd[c].r \notin Elements(wire[c])
  /\ Pending(c) \cap (done \cup lost) = {}

\* The connections there have not been yet.
Unused(c) == c > conn => hnd[c] = Closed /\ wire[c] = << >>

Placed ==
  /\ TypeOK
  /\ \A c \in Conns : Busy(c) => hnd[c].r \in sent
  /\ \A c \in Conns : OnePlace(c) /\ Unused(c)
  /\ \A c, d \in Conns : c # d => Pending(c) \cap Pending(d) = {}


\* What is pending was sent.
LEMMA PendingSent ==
  ASSUME Placed, NEW c \in Conns
  PROVE  /\ Elements(wire[c]) \subseteq sent /\ Pending(c) \subseteq sent
         /\ wire[c] \in Seq(sent) /\ Len(wire[c]) \in Nat
         /\ DOMAIN wire[c] = 1 .. Len(wire[c])
<1>1. wire[c] \in Seq(sent)
  BY DEF Placed, TypeOK
<1>2. DOMAIN wire[c] = 1 .. Len(wire[c]) /\ Len(wire[c]) \in Nat
  BY <1>1, LenProperties
<1>3. Elements(wire[c]) \subseteq sent
  BY <1>1, <1>2, ElementOfSeq DEF Elements
<1> QED BY <1>1, <1>2, <1>3 DEF Placed, Pending

\* The start has nothing on the wire.
LEMMA PlacedInit == Init => Placed
<1> SUFFICES ASSUME Init PROVE Placed
  OBVIOUS
<1>1. << >> \in Seq(sent) /\ DOMAIN << >> = {}
  BY EmptySeq
<1>2. hnd \in [Conns -> Work] /\ \A c \in Conns : ~Busy(c)
  BY IdleWork DEF Init, Busy
<1>3. Elements(<< >>) = {}
  BY DEF Elements
<1>4. \A c \in Conns : Pending(c) = {}
  BY <1>2, <1>3 DEF Init, Pending
<1>5. TypeOK
  <2>1. conn \in Conns /\ faults \in 0 .. MaxFaults
    BY RewardAssumption DEF Init, RewardAssumption, Conns
  <2>2. wire \in [Conns -> Seq(sent)]
    BY <1>1 DEF Init
  <2>3. /\ rank \in [Users -> Rating] /\ file \in [Users -> Db]
        /\ lease \in [Users -> Conns \cup {None}]
    BY NewFile DEF Init
  <2> QED BY <1>2, <2>1, <2>2, <2>3 DEF Init, TypeOK, Work
<1>6. \A c \in Conns : OnePlace(c) /\ Unused(c)
  BY <1>1, <1>2, <1>4 DEF Init, OnePlace, Once, Unused, Conns
<1> QED BY <1>2, <1>4, <1>5, <1>6 DEF Placed

\* What is pending at c was, and has neither been handled nor lost.
Follows(c) ==
  /\ Pending(c)' \subseteq Pending(c)
  /\ (Busy(c) => hnd[c].r \in sent)'
  /\ OnePlace(c)' /\ Unused(c)'

\* No result gets to a second place if none gets to another connection.
LEMMA PlacedKept ==
  ASSUME Placed, TypeOK', \A c \in Conns : Follows(c)
  PROVE  Placed'
BY DEF Placed, Follows

\* A connection is not concerned with the results pending at another.
LEMMA OthersFollow ==
  ASSUME Placed, TypeOK', NEW c \in Conns, NEW d \in Conns, c # d,
         wire'[d] = wire[d], hnd'[d] = hnd[d], sent' = sent, conn' >= conn,
         (done \cup lost)' \subseteq done \cup lost \cup Pending(c)
  PROVE  Follows(d)
<1>1. Pending(d)' = Pending(d) /\ (Busy(d)' <=> Busy(d))
  BY DEF Pending, Busy
<1>2. OnePlace(d)'
  BY <1>1 DEF Placed, OnePlace
<1>3. Unused(d)'
  BY DEF Placed, Unused, TypeOK, Conns
<1> QED BY <1>1, <1>2, <1>3 DEF Follows, Placed

\* A goroutine that works on a result keeps it or has handled it.
LEMMA HandStep ==
  ASSUME Placed, NEW c \in Conns, Busy(c), NEW h \in Work,
         hnd' = [hnd EXCEPT ![c] = h], UNCHANGED <<battleVars, wire, lost>>,
         rank' \in [Users -> Rating], file' \in [Users -> Db],
         lease' \in [Users -> Conns \cup {None}], faults' \in 0 .. MaxFaults,
         causes' \subseteq {"overlap", "call", "restart", "crash"},
         \/ /\ h.pc \in {"get", "set", "lease", "write"}
            /\ h.r = hnd[c].r /\ done' = done
         \/ h = Reading /\ done' = done \cup {hnd[c].r}
  PROVE  Placed'
<1>1. /\ hnd \in [Conns -> Work] /\ hnd'[c] = h
      /\ \A d \in Conns \ {c} : hnd'[d] = hnd[d]
  BY DEF Placed, TypeOK, Work
<1>2. hnd[c].r \in sent /\ hnd[c].r \notin done \cup lost
      /\ hnd[c].r \in Pending(c)
  BY DEF Placed, OnePlace, Pending
<1>3. TypeOK'
  BY <1>1, <1>2 DEF Placed, TypeOK, battleVars, Work
<1>4. Unused(c)'
  BY <1>1 DEF Placed, Unused, battleVars, Busy, Closed
<1>5. Follows(c)
  <2>1. CASE /\ h.pc \in {"get", "set", "lease", "write"}
             /\ h.r = hnd[c].r /\ done' = done
    <3>1. Busy(c)' /\ Pending(c)' = Pending(c)
      BY <1>1, <2>1 DEF Busy, Pending
    <3>2. OnePlace(c)'
      BY <1>1, <2>1, <3>1 DEF Placed, OnePlace
    <3> QED BY <1>1, <1>2, <1>4, <2>1, <3>1, <3>2 DEF Follows, battleVars
  <2>2. CASE h = Reading /\ done' = done \cup {hnd[c].r}
    <3>1. ~Busy(c)' /\ Pending(c)' = Elements(wire[c])
      BY <1>1, <2>2, IdleWork DEF Busy, Pending
    <3>2. OnePlace(c)' /\ Pending(c)' \subseteq Pending(c)
      BY <2>2, <3>1 DEF Placed, OnePlace, Pending
    <3> QED BY <1>4, <3>1, <3>2 DEF Follows
  <2> QED BY <2>1, <2>2
<1>6. ASSUME NEW d \in Conns \ {c} PROVE Follows(d)
  <2>1. conn' >= conn /\ sent' = sent
    BY DEF battleVars, Placed, TypeOK, Conns
  <2>2. (done \cup lost)' \subseteq done \cup lost \cup Pending(c)
    BY <1>2
  <2> QED BY <1>1, <1>3, <2>1, <2>2, OthersFollow
<1> QED BY <1>3, <1>5, <1>6, PlacedKept

\* The calls and the leases of a goroutine have values of their types.
LEMMA HandTypes ==
  ASSUME Placed, NEW c \in Conns, Busy(c)
  PROVE  /\ hnd[c] \in Work /\ hnd[c].r \in Results
         /\ \A i \in Both : PlayerOf(hnd[c].r, i) \in Users
         /\ User(hnd[c]) \in Users
         /\ NewRating(hnd[c]) \in Rating /\ Record(hnd[c]) \in Db
<1>1. hnd[c] \in Work /\ hnd[c].r \in Results
  BY DEF Placed, TypeOK, Work
<1>2. \A i \in Both : PlayerOf(hnd[c].r, i) \in Users
  BY <1>1, Players DEF Both
<1>3. hnd[c].i \in Both /\ hnd[c].old[hnd[c].i] \in Rating /\ hnd[c].db \in Db
  BY <1>1 DEF Work
<1>4. NewRating(hnd[c]) \in Rating
  BY <1>1, <1>3 DEF NewRating, Rating
<1>5. Record(hnd[c]) \in Db
  BY <1>1, <1>3, <1>4 DEF Record, Db
<1> QED BY <1>1, <1>2, <1>3, <1>4, <1>5 DEF User

\* When a goroutine is done with a file it goes to the next player, or is done
\* with the result.
LEMMA LeaveHand ==
  ASSUME Placed, NEW c \in Conns, Busy(c), Leave(c)
  PROVE  \E h \in Work :
           /\ hnd' = [hnd EXCEPT ![c] = h]
           /\ \/ /\ h.pc \in {"get", "set", "lease", "write"}
                 /\ h.r = hnd[c].r /\ done' = done
              \/ h = Reading /\ done' = done \cup {hnd[c].r}
<1>1. hnd[c] \in Work
  BY HandTypes
<1>2. CASE hnd[c].i = 2
  BY <1>2, IdleWork DEF Leave, Goes
<1>3. CASE hnd[c].i # 2
  <2> DEFINE h == [hnd[c] EXCEPT !.i = 2, !.pc = "lease"]
  <2>1. h \in Work /\ h.pc = "lease" /\ h.r = hnd[c].r
    BY <1>1 DEF Work, Both
  <2>2. hnd' = [hnd EXCEPT ![c] = h] /\ done' = done
    BY <1>3 DEF Leave, Goes
  <2> QED BY <2>1, <2>2
<1> QED BY <1>2, <1>3

\* Get, Set, Lease and Write leave every result in one place.
LEMMA PlacedHand ==
  ASSUME Placed, NEW c \in Conns, Get(c) \/ Set(c) \/ Lease(c) \/ LeaseFails(c) \/ Write(c)
  PROVE  Placed'
<1> DEFINE h == hnd[c]
<1>0. Busy(c)
  BY DEF Get, Set, Lease, LeaseFails, Write, Busy
<1>1. /\ h \in Work /\ h.r \in Results /\ User(h) \in Users
      /\ NewRating(h) \in Rating /\ Record(h) \in Db
  BY <1>0, HandTypes
<1>2. /\ rank \in [Users -> Rating] /\ file \in [Users -> Db]
      /\ lease \in [Users -> Conns \cup {None}] /\ faults \in 0 .. MaxFaults
      /\ causes \subseteq {"overlap", "call", "restart", "crash"}
  BY DEF Placed, TypeOK
<1>3. Fault => faults' \in 0 .. MaxFaults
  BY <1>2, RewardAssumption DEF Fault, RewardAssumption
<1>4. h.pc \in {"get", "set", "lease", "write"}
  BY <1>0 DEF Busy
<1>5. CASE Get(c)
  <2>1. PICK x \in Rating : hnd' = [hnd EXCEPT ![c] =
                                      Then([h EXCEPT !.old[h.i] = x], "set")]
    BY <1>1, <1>2, <1>5 DEF Get, Goes, Rating
  <2> DEFINE g == [h EXCEPT !.old[h.i] = x]
  <2>2. g \in Work /\ g.r = h.r /\ g.pc = h.pc
    BY <1>1 DEF Work
  <2> HIDE DEF g
  <2>3. /\ Then(g, "set") \in Work /\ Then(g, "set").r = h.r
        /\ Then(g, "set").pc \in {"get", "set", "lease", "write"}
    BY <1>4, <2>2, CallOrder
  <2>4. /\ UNCHANGED <<battleVars, wire, lost, dataVars, done>>
        /\ faults' \in 0 .. MaxFaults
        /\ causes' \subseteq {"overlap", "call", "restart", "crash"}
    BY <1>2, <1>3, <1>5 DEF Get
  <2>5. hnd' = [hnd EXCEPT ![c] = Then(g, "set")]
    BY <2>1 DEF g
  <2> QED BY <1>0, <1>2, <2>3, <2>4, <2>5, HandStep DEF dataVars
<1>6. CASE Set(c)
  <2>1. /\ Then(h, "lease") \in Work /\ Then(h, "lease").r = h.r
        /\ Then(h, "lease").pc \in {"get", "set", "lease", "write"}
    BY <1>1, <1>4, CallOrder
  <2>2. /\ hnd' = [hnd EXCEPT ![c] = Then(h, "lease")]
        /\ UNCHANGED <<battleVars, wire, lost, file, lease, done>>
    BY <1>6 DEF Set, Goes
  <2>3. faults' \in 0 .. MaxFaults
        /\ causes' \subseteq {"overlap", "call", "restart", "crash"}
    BY <1>2, <1>3, <1>6 DEF Set
  <2>4. rank' \in [Users -> Rating]
    BY <1>1, <1>2, <1>6 DEF Set
  <2> QED BY <1>0, <1>2, <2>1, <2>2, <2>3, <2>4, HandStep
<1>7. CASE Lease(c)
  <2> DEFINE g == [h EXCEPT !.pc = "write", !.db = file[User(h)]]
  <2>1. g \in Work /\ g.r = h.r /\ g.pc = "write"
    BY <1>1, <1>2 DEF Work
  <2>2. /\ hnd' = [hnd EXCEPT ![c] = g]
        /\ UNCHANGED <<battleVars, wire, lost, rank, file, faults, causes, done>>
    BY <1>7 DEF Lease, Goes
  <2>3. lease' \in [Users -> Conns \cup {None}]
    BY <1>1, <1>2, <1>7 DEF Lease
  <2> HIDE DEF g
  <2> QED BY <1>0, <1>2, <2>1, <2>2, <2>3, HandStep
<1>8. CASE LeaseFails(c)
  <2>1. /\ Leave(c) /\ UNCHANGED <<battleVars, wire, dataVars, lost>>
        /\ faults' \in 0 .. MaxFaults
        /\ causes' \subseteq {"overlap", "call", "restart", "crash"}
    BY <1>2, <1>3, <1>8 DEF LeaseFails
  <2> QED BY <1>0, <1>2, <2>1, LeaveHand, HandStep DEF dataVars
<1>9. CASE Write(c)
  <2>1. /\ Leave(c) /\ UNCHANGED <<battleVars, wire, rank, lost>>
        /\ faults' \in 0 .. MaxFaults
        /\ causes' \subseteq {"overlap", "call", "restart", "crash"}
    BY <1>2, <1>3, <1>9 DEF Write
  <2>2. /\ file' \in [Users -> Db]
        /\ lease' \in [Users -> Conns \cup {None}]
    BY <1>1, <1>2, <1>9 DEF Write
  <2> QED BY <1>0, <1>2, <2>1, <2>2, LeaveHand, HandStep
<1> QED BY <1>5, <1>6, <1>7, <1>8, <1>9

\* Every step leaves a result in one place.
LEMMA PlacedStep == Placed /\ [Next]_vars => Placed'
<1> SUFFICES ASSUME Placed, [Next]_vars PROVE Placed'
  OBVIOUS
<1>0. /\ TypeOK /\ conn \in Conns /\ hnd \in [Conns -> Work]
      /\ wire \in [Conns -> Seq(sent)] /\ sent \subseteq Results
      /\ rank \in [Users -> Rating] /\ file \in [Users -> Db]
      /\ lease \in [Users -> Conns \cup {None}] /\ faults \in 0 .. MaxFaults
      /\ done \subseteq sent /\ lost \subseteq sent /\ done \cap lost = {}
      /\ causes \subseteq {"overlap", "call", "restart", "crash"}
  BY DEF Placed, TypeOK, Work
<1>1. Fault => faults' \in 0 .. MaxFaults
  BY <1>0, RewardAssumption DEF Fault, RewardAssumption
<1>2. ASSUME NEW r \in Results, Send(r) PROVE Placed'
  <2>1. /\ r \notin sent /\ sent' = sent \cup {r}
        /\ UNCHANGED <<conn, open, hnd, dataVars, faults, done, causes>>
    BY <1>2 DEF Send
  <2>2. \A c \in Conns : (Busy(c)' <=> Busy(c)) /\ hnd'[c] = hnd[c]
    BY <2>1 DEF Busy
  <2>3. CASE ~open
    <3>1. lost' = lost \cup {r} /\ wire' = wire
      BY <1>2, <2>3 DEF Send
    <3>2. wire \in [Conns -> Seq(sent')]
      BY <1>0, <2>1, SeqMonotonic
    <3>3. TypeOK'
      BY <1>0, <2>1, <3>1, <3>2 DEF TypeOK, dataVars, Work
    <3>4. \A c \in Conns : Pending(c)' = Pending(c) /\ r \notin Pending(c)
      BY <2>1, <2>2, <3>1, PendingSent DEF Pending
    <3>5. ASSUME NEW c \in Conns PROVE OnePlace(c)' /\ Unused(c)'
      <4>1. OnePlace(c) /\ Unused(c)
        BY DEF Placed
      <4> QED BY <2>1, <2>2, <3>1, <3>4, <4>1 DEF OnePlace, Unused
    <3> QED BY <2>1, <2>2, <3>3, <3>4, <3>5 DEF Placed
  <2>4. CASE open
    <3> PICK k \in Conns : k = conn
      BY <1>0
    <3>1. lost' = lost /\ wire' = [wire EXCEPT ![k] = Append(@, r)]
      BY <1>2, <2>4 DEF Send
    <3>2. wire[k] \in Seq(sent') /\ r \in sent'
      BY <1>0, <2>1, SeqMonotonic
    <3> DEFINE q == Append(wire[k], r)
    <3>3. /\ q \in Seq(sent') /\ Len(q) = Len(wire[k]) + 1
          /\ \A j \in 1 .. Len(wire[k]) : q[j] = wire[k][j]
          /\ q[Len(wire[k]) + 1] = r
          /\ DOMAIN q = 1 .. Len(wire[k]) + 1
      BY <3>2, AppendProperties, LenProperties
    <3>4. /\ wire'[k] = q
          /\ \A c \in Conns \ {k} : wire'[c] = wire[c]
      BY <1>0, <3>1
    <3> HIDE DEF q
    <3>5. wire' \in [Conns -> Seq(sent')]
      <4>1. \A c \in Conns : wire[c] \in Seq(sent')
        BY <1>0, <2>1, SeqMonotonic
      <4> QED BY <1>0, <3>1, <3>3, <3>4, <4>1
    <3>6. TypeOK'
      BY <1>0, <2>1, <3>1, <3>5 DEF TypeOK, dataVars, Work
    <3>7. /\ DOMAIN wire[k] = 1 .. Len(wire[k]) /\ Len(wire[k]) \in Nat
          /\ Elements(wire[k]) \subseteq sent
      BY <1>0, PendingSent
    <3>8. Elements(q) = Elements(wire[k]) \cup {r}
      BY <3>3, <3>7 DEF Elements
    <3>9. /\ Pending(k)' = Pending(k) \cup {r}
          /\ \A c \in Conns \ {k} : Pending(c)' = Pending(c)
          /\ \A c \in Conns : r \notin Pending(c)
      BY <1>0, <2>1, <2>2, <3>4, <3>8, PendingSent DEF Pending
    <3>10. ASSUME NEW c \in Conns \ {k} PROVE OnePlace(c)' /\ Unused(c)'
      <4>1. OnePlace(c) /\ Unused(c)
        BY DEF Placed
      <4> QED BY <2>1, <2>2, <3>1, <3>4, <3>9, <4>1 DEF OnePlace, Unused
    <3>11. OnePlace(k)' /\ Unused(k)'
      <4>1. OnePlace(k)
        BY <1>0 DEF Placed
      <4>2. Once(q)
        <5> SUFFICES ASSUME NEW j \in DOMAIN q, NEW l \in DOMAIN q, q[j] = q[l]
                     PROVE  j = l
          BY DEF Once
        <5>1. \A x \in 1 .. Len(wire[k]) : q[x] \in sent
          BY <3>3, <3>7 DEF Elements
        <5>2. CASE j \in 1 .. Len(wire[k]) /\ l \in 1 .. Len(wire[k])
          BY <3>3, <3>7, <4>1, <5>2 DEF OnePlace, Once
        <5> QED BY <2>1, <3>3, <3>7, <5>1, <5>2
      <4>3. Busy(k)' => hnd'[k].r \notin Elements(wire'[k])
        BY <1>0, <2>1, <2>2, <3>4, <3>8, <4>1 DEF OnePlace, Placed
      <4>4. Pending(k)' \cap (done' \cup lost') = {}
        BY <1>0, <2>1, <3>1, <3>9, <4>1 DEF OnePlace
      <4>5. Unused(k)'
        BY <1>0, <2>1 DEF Unused, Conns
      <4> QED BY <3>4, <4>2, <4>3, <4>4, <4>5 DEF OnePlace
    <3>12. \A c \in Conns : Busy(c)' => hnd'[c].r \in sent'
      BY <2>1, <2>2 DEF Placed
    <3>13. \A c, d \in Conns : c # d => Pending(c)' \cap Pending(d)' = {}
      <4> SUFFICES ASSUME NEW c \in Conns, NEW d \in Conns, c # d
                   PROVE  Pending(c)' \cap Pending(d)' = {}
        OBVIOUS
      <4>1. Pending(c) \cap Pending(d) = {}
        BY DEF Placed
      <4> QED BY <3>9, <4>1
    <3> QED BY <1>0, <3>6, <3>10, <3>11, <3>12, <3>13 DEF Placed
  <2> QED BY <2>3, <2>4
<1>3. CASE Break
  <2> PICK k \in Conns : k = conn
    BY <1>0
  <2>1. /\ UNCHANGED <<sent, conn, hnd, dataVars, done, causes>>
        /\ open' = FALSE /\ faults' \in 0 .. MaxFaults
    BY <1>1, <1>3 DEF Break
  <2>2. PICK n \in 0 .. Len(wire[k]) :
          /\ wire' = [wire EXCEPT ![k] = SubSeq(@, 1, n)]
          /\ lost' = lost \cup Elements(SubSeq(wire[k], n + 1, Len(wire[k])))
    BY <1>3 DEF Break
  <2> DEFINE p == SubSeq(wire[k], 1, n)
             q == SubSeq(wire[k], n + 1, Len(wire[k]))
  <2>3. /\ wire[k] \in Seq(sent) /\ Len(wire[k]) \in Nat
        /\ Elements(wire[k]) \subseteq sent /\ OnePlace(k)
    BY PendingSent DEF Placed
  <2>4. 1 \in 1 .. Len(wire[k]) + 1 /\ n \in 1 - 1 .. Len(wire[k])
    BY <2>3
  <2>5. /\ wire'[k] = p /\ lost' = lost \cup Elements(q)
        /\ \A c \in Conns \ {k} : wire'[c] = wire[c]
    BY <1>0, <2>2
  <2>6. /\ p \in Seq(sent) /\ Once(p)
        /\ Elements(p) \subseteq Elements(wire[k])
        /\ Elements(q) \subseteq Elements(wire[k])
        /\ Elements(p) \cap Elements(q) = {}
    <3>1. wire[k] \in Seq(sent) /\ Once(wire[k])
      BY <2>3 DEF OnePlace
    <3> QED BY <2>4, <3>1, PartsApart
  <2> HIDE DEF p, q
  <2>7. Elements(wire[k]) \cap done = {}
    BY <2>3 DEF OnePlace, Pending
  <2>8. TypeOK'
    <3>1. wire' \in [Conns -> Seq(sent)]
      BY <1>0, <2>2, <2>6 DEF p
    <3>2. lost' \subseteq sent /\ done \cap lost' = {}
      BY <1>0, <2>3, <2>5, <2>6, <2>7
    <3> QED BY <1>0, <2>1, <3>1, <3>2 DEF TypeOK, dataVars, Work
  <2>9. \A c \in Conns : Busy(c)' <=> Busy(c)
    BY <2>1 DEF Busy
  <2>10. Follows(k)
    <3>1. Pending(k)' \subseteq Pending(k)
      BY <2>1, <2>5, <2>6, <2>9 DEF Pending
    <3>2. Pending(k)' \cap (done' \cup lost') = {}
      BY <2>1, <2>3, <2>5, <2>6, <2>9 DEF Pending, OnePlace
    <3>3. OnePlace(k)'
      BY <2>1, <2>3, <2>5, <2>6, <2>9, <3>2 DEF OnePlace
    <3>4. Unused(k)' /\ (Busy(k)' => hnd'[k].r \in sent')
      BY <1>0, <2>1, <2>9 DEF Placed, Unused, Conns
    <3> QED BY <3>1, <3>3, <3>4 DEF Follows
  <2>11. ASSUME NEW d \in Conns \ {k} PROVE Follows(d)
    <3>1. (done \cup lost)' \subseteq done \cup lost \cup Pending(k)
      BY <2>1, <2>5, <2>6 DEF Pending
    <3>2. conn' >= conn
      BY <1>0, <2>1 DEF Conns
    <3> QED BY <2>1, <2>5, <2>8, <3>1, <3>2, OthersFollow
  <2> QED BY <2>8, <2>10, <2>11, PlacedKept
<1>4. CASE Reconnect
  <2>0. conn + 1 \in Conns
    BY <1>0, <1>4, RewardAssumption DEF Reconnect, Conns, RewardAssumption
  <2> PICK k \in Conns : k = conn + 1
    BY <2>0
  <2>1. /\ conn' = k /\ open' = TRUE /\ hnd' = [hnd EXCEPT ![k] = Reading]
        /\ UNCHANGED <<sent, wire, dataVars, faults, done, lost, causes>>
    BY <1>4 DEF Reconnect
  <2>2. /\ hnd'[k] = Reading /\ \A d \in Conns \ {k} : hnd'[d] = hnd[d]
    BY <1>0, <2>1
  <2>3. TypeOK'
    BY <1>0, <2>1, IdleWork DEF TypeOK, dataVars, Work
  <2>4. k > conn /\ wire[k] = << >> /\ OnePlace(k)
    BY <1>0 DEF Placed, Unused, Conns
  <2>5. ~Busy(k)' /\ Pending(k)' \subseteq Pending(k)
    BY <2>1, <2>2, IdleWork DEF Busy, Pending
  <2>6. Unused(k)'
    BY <2>1 DEF Unused, Conns
  <2>7. Follows(k)
    BY <2>1, <2>4, <2>5, <2>6 DEF Follows, OnePlace
  <2>8. conn' >= conn
    BY <1>0, <2>1 DEF Conns
  <2>9. ASSUME NEW d \in Conns \ {k} PROVE Follows(d)
    BY <2>1, <2>2, <2>3, <2>8, OthersFollow
  <2> QED BY <2>3, <2>7, <2>9, PlacedKept
<1>5. ASSUME NEW c \in Conns, Read(c) PROVE Placed'
  <2> DEFINE r == wire[c][1]
             g == [Reading EXCEPT !.pc = "get", !.r = r]
  <2>1. /\ hnd[c].pc = "read" /\ wire[c] # << >>
        /\ hnd' = [hnd EXCEPT ![c] = g]
        /\ UNCHANGED <<battleVars, dataVars, faults, done>>
        /\ causes' \subseteq causes \cup {"overlap"}
    BY <1>5 DEF Read, Readable
  <2>2. PICK n \in 1 .. Len(wire[c]) :
          /\ wire' = [wire EXCEPT ![c] = SubSeq(@, n + 1, Len(@))]
          /\ lost' = lost \cup Elements(SubSeq(wire[c], 2, n))
    BY <1>5 DEF Read
  <2> DEFINE p == SubSeq(wire[c], n + 1, Len(wire[c]))
             q == SubSeq(wire[c], 2, n)
  <2>3. /\ wire[c] \in Seq(sent) /\ Len(wire[c]) \in Nat
        /\ Elements(wire[c]) \subseteq sent /\ OnePlace(c)
    BY PendingSent DEF Placed
  <2>4. 2 \in 1 .. Len(wire[c]) + 1 /\ n \in 2 - 1 .. Len(wire[c]) /\ n > 0
    BY <2>3
  <2>5. /\ wire'[c] = p /\ lost' = lost \cup Elements(q)
        /\ \A d \in Conns \ {c} : wire'[d] = wire[d]
    BY <1>0, <2>2
  <2>6. /\ p \in Seq(sent) /\ Once(p)
        /\ Elements(p) \subseteq Elements(wire[c])
        /\ Elements(q) \subseteq Elements(wire[c])
        /\ Elements(p) \cap Elements(q) = {}
        /\ r \in Elements(wire[c]) /\ r \notin Elements(p) \cup Elements(q)
    <3>1. wire[c] \in Seq(sent) /\ Once(wire[c])
      BY <2>3 DEF OnePlace
    <3> QED BY <2>4, <3>1, PartsApart
  <2> HIDE DEF p, q
  <2>7. g \in Work /\ g.pc = "get" /\ g.r = r
    <3>1. r \in Results
      BY <1>0, <2>3, <2>6
    <3> QED BY <3>1, IdleWork DEF Work
  <2>9. Elements(wire[c]) \cap (done \cup lost) = {}
    BY <2>3 DEF OnePlace, Pending
  <2>10. TypeOK'
    <3>1. wire' \in [Conns -> Seq(sent)]
      BY <1>0, <2>2, <2>6 DEF p
    <3>2. lost' \subseteq sent /\ done \cap lost' = {}
      BY <1>0, <2>3, <2>5, <2>6, <2>9
    <3> HIDE DEF g
    <3>3. hnd' \in [Conns -> Work]
      BY <1>0, <2>1, <2>7
    <3> QED BY <1>0, <2>1, <3>1, <3>2, <3>3 DEF TypeOK, dataVars, battleVars, Work
  <2> HIDE DEF g, r
  <2>11. /\ hnd'[c] = g /\ \A d \in Conns \ {c} : hnd'[d] = hnd[d]
    BY <1>0, <2>1
  <2>12. Busy(c)' /\ Pending(c)' = Elements(p) \cup {r}
    BY <2>5, <2>7, <2>11 DEF Busy, Pending
  <2>13. Follows(c)
    <3>1. Pending(c)' \subseteq Pending(c)
      BY <2>6, <2>12 DEF Pending
    <3>2. Pending(c)' \cap (done' \cup lost') = {}
      BY <2>1, <2>5, <2>6, <2>9, <2>12
    <3>3. OnePlace(c)'
      BY <2>5, <2>6, <2>7, <2>11, <3>2 DEF OnePlace
    <3>4. hnd'[c].r \in sent'
      BY <2>1, <2>3, <2>6, <2>7, <2>11 DEF battleVars
    <3>5. Unused(c)'
      BY <2>1 DEF Placed, Unused, battleVars
    <3> QED BY <3>1, <3>3, <3>4, <3>5 DEF Follows
  <2>14. ASSUME NEW d \in Conns \ {c} PROVE Follows(d)
    <3>1. (done \cup lost)' \subseteq done \cup lost \cup Pending(c)
      BY <2>1, <2>5, <2>6 DEF Pending
    <3>2. conn' >= conn /\ sent' = sent
      BY <1>0, <2>1 DEF Conns, battleVars
    <3> QED BY <2>5, <2>10, <2>11, <3>1, <3>2, OthersFollow
  <2> QED BY <2>10, <2>13, <2>14, PlacedKept
<1>6. ASSUME NEW c \in Conns, Close(c) PROVE Placed'
  <2>1. /\ hnd[c].pc = "read" /\ hnd' = [hnd EXCEPT ![c] = Closed]
        /\ UNCHANGED <<battleVars, wire, dataVars, faults, done, lost, causes>>
    BY <1>6 DEF Close
  <2>2. /\ hnd'[c] = Closed /\ \A d \in Conns \ {c} : hnd'[d] = hnd[d]
    BY <1>0, <2>1
  <2>3. TypeOK'
    BY <1>0, <2>1, IdleWork DEF TypeOK, dataVars, battleVars, Work
  <2>4. ~Busy(c)' /\ ~Busy(c) /\ Pending(c)' = Pending(c)
    BY <2>1, <2>2, IdleWork DEF Busy, Pending
  <2>5. OnePlace(c)' /\ Unused(c)'
    BY <2>1, <2>2, <2>4 DEF Placed, OnePlace, Unused, battleVars
  <2>6. Follows(c)
    BY <2>4, <2>5 DEF Follows
  <2>7. conn' >= conn /\ sent' = sent
    BY <1>0, <2>1 DEF Conns, battleVars
  <2>8. ASSUME NEW d \in Conns \ {c} PROVE Follows(d)
    BY <2>1, <2>2, <2>3, <2>7, OthersFollow
  <2> QED BY <2>3, <2>6, <2>8, PlacedKept
<1>7. CASE RankRestart
  <2>1. /\ UNCHANGED <<battleVars, wire, hnd, file, lease, done, lost>>
        /\ faults' \in 0 .. MaxFaults
        /\ causes' \subseteq causes \cup {"restart"}
    BY <1>1, <1>7 DEF RankRestart
  <2>2. rank' \in [Users -> Rating]
    BY <1>0, <1>7 DEF RankRestart, Loaded, Db
  <2>3. TypeOK'
    BY <1>0, <2>1, <2>2 DEF TypeOK, battleVars, Work
  <2>4. \A c \in Conns : (Busy(c)' <=> Busy(c)) /\ Pending(c)' = Pending(c)
    BY <2>1 DEF Busy, Pending
  <2>5. \A c \in Conns : OnePlace(c)' /\ Unused(c)'
    BY <2>1, <2>4 DEF Placed, OnePlace, Unused, battleVars
  <2> QED BY <2>1, <2>3, <2>4, <2>5 DEF Placed, battleVars
<1>8. CASE Crash
  <2>1. /\ open' = FALSE /\ faults' \in 0 .. MaxFaults
        /\ hnd' = [c \in Conns |-> Closed] /\ wire' = [c \in Conns |-> << >>]
        /\ causes' \subseteq causes \cup {"crash"}
        /\ UNCHANGED <<sent, conn, dataVars, done>>
    BY <1>1, <1>8 DEF Crash
  <2>2. ASSUME NEW x \in lost' \ lost PROVE \E c \in Conns : x \in Pending(c)
    <3> DEFINE onWire == UNION {Elements(wire[c]) : c \in Conns}
               inHand == {hnd[c].r : c \in {d \in Conns : Busy(d)}}
    <3>1. lost' = lost \cup onWire \cup inHand
      BY <1>8 DEF Crash
    <3>2. onWire \subseteq UNION {Pending(c) : c \in Conns}
      BY DEF Pending
    <3>3. inHand \subseteq UNION {Pending(c) : c \in Conns}
      BY DEF Pending
    <3> HIDE DEF onWire, inHand
    <3>4. x \in UNION {Pending(c) : c \in Conns}
      BY <2>2, <3>1, <3>2, <3>3
    <3> QED BY <3>4
  <2>3. lost' \subseteq sent /\ done \cap lost' = {}
    <3>1. \A c \in Conns : Pending(c) \subseteq sent /\ Pending(c) \cap done = {}
      BY PendingSent DEF Placed, OnePlace
    <3> QED BY <1>0, <2>2, <3>1
  <2>4. << >> \in Seq(sent) /\ DOMAIN << >> = {} /\ Elements(<< >>) = {}
    BY EmptySeq DEF Elements
  <2>5. TypeOK'
    <3>1. hnd' \in [Conns -> Work] /\ wire' \in [Conns -> Seq(sent)]
      BY <2>1, <2>4, IdleWork
    <3> QED BY <1>0, <2>1, <2>3, <3>1 DEF TypeOK, dataVars, Work
  <2>6. ASSUME NEW c \in Conns PROVE Follows(c)
    <3>1. ~Busy(c)' /\ Pending(c)' = {}
      BY <2>1, <2>4, IdleWork DEF Busy, Pending
    <3>2. OnePlace(c)' /\ Unused(c)'
      BY <2>1, <2>4, <3>1 DEF OnePlace, Once, Unused
    <3> QED BY <3>1, <3>2 DEF Follows
  <2> QED BY <2>5, <2>6, PlacedKept
<1>9. CASE UNCHANGED vars
  <2>1. UNCHANGED <<sent, conn, open, wire, hnd, rank, file, lease, faults,
                    done, lost, causes>>
    BY <1>9 DEF vars, battleVars, dataVars
  <2>2. TypeOK'
    BY <1>0, <2>1 DEF TypeOK, Work
  <2>3. \A c \in Conns : (Busy(c)' <=> Busy(c)) /\ Pending(c)' = Pending(c)
    BY <2>1 DEF Busy, Pending
  <2>4. \A c \in Conns : OnePlace(c)' /\ Unused(c)'
    BY <2>1, <2>3 DEF Placed, OnePlace, Unused
  <2> QED BY <2>1, <2>2, <2>3, <2>4 DEF Placed
<1> QED
  BY <1>2, <1>3, <1>4, <1>5, <1>6, <1>7, <1>8, <1>9, PlacedHand DEF Next, Handler

\* The variables always have their types; a result that was handled is not
\* lost as well.
THEOREM TypeCorrect == Spec => []TypeOK
<1>1. Placed => TypeOK
  BY DEF Placed
<1> QED BY <1>1, PlacedInit, PlacedStep, PTL DEF Spec

-----------------------------------------------------------------------------
(* How far a goroutine has come with each player of its result.  It holds  *)
(* for as long as nothing has spoilt a rating.                             *)

\* No two goroutines work on one player.
Apart ==
  \A c, d \in Conns : c # d /\ Busy(c) /\ Busy(d) =>
    PlayersOf(hnd[c].r) \cap PlayersOf(hnd[d].r) = {}

\* The rating ra, the file f and the lease l of player i of the result that
\* goroutine c is entering as h.  Calls are made for player 1 first.
Standing(c, h, i, ra, f, l) ==
  LET past == i < h.i
      new == h.old[i] \cup {h.r}
  IN  /\ h.pc = "get" => ra = f.rating /\ (past => h.old[i] = ra)
      /\ h.pc = "set" =>
           f.rating = h.old[i] /\ ra = IF past THEN new ELSE h.old[i]
      /\ h.pc \in {"lease", "write"} =>
           /\ ra = new
           /\ f.rating = IF past THEN new ELSE h.old[i]
           /\ past => h.r \in f.stat
      /\ h.pc = "write" /\ i = h.i => h.db = f
      /\ l = IF h.pc = "write" /\ i = h.i THEN c ELSE None

InHand(c, i) ==
  LET u == PlayerOf(hnd[c].r, i)
  IN  Standing(c, hnd[c], i, rank[u], file[u], lease[u])

\* A user no goroutine works on.
Idle(u) == \A c \in Conns : Busy(c) => u \notin PlayersOf(hnd[c].r)

Rewarded(r) ==
  \A u \in PlayersOf(r) : r \in rank[u] \cap file[u].rating \cap file[u].stat

Unspoilt ==
  /\ Apart
  /\ \A c \in Conns : Busy(c) => \A i \in Both : InHand(c, i)
  /\ \A u \in Users : Idle(u) => rank[u] = file[u].rating /\ lease[u] = None
  /\ \A r \in done : Rewarded(r)

Inv == Placed /\ (causes = {} => Unspoilt)

\* Nothing has been spoilt at the start.
LEMMA InvInit == Init => Inv
<1> SUFFICES ASSUME Init PROVE Inv
  OBVIOUS
<1>1. Placed /\ \A c \in Conns : ~Busy(c)
  BY PlacedInit, IdleWork DEF Init, Busy
<1>2. Unspoilt
  BY <1>1, NewFile DEF Init, Unspoilt, Apart
<1> QED BY <1>1, <1>2 DEF Inv

\* A step that changes neither data nor goroutines at work spoils nothing.
LEMMA DataKept ==
  ASSUME Unspoilt, UNCHANGED <<dataVars, done>>,
         \A c \in Conns : /\ Busy(c)' <=> Busy(c)
                          /\ Busy(c) => hnd'[c] = hnd[c]
  PROVE  Unspoilt'
<1>1. Apart'
  BY DEF Unspoilt, Apart
<1>2. ASSUME NEW c \in Conns, Busy(c)', NEW i \in Both PROVE InHand(c, i)'
  <2>1. InHand(c, i) /\ hnd'[c] = hnd[c]
    BY <1>2 DEF Unspoilt
  <2> QED BY <2>1 DEF InHand, dataVars
<1>3. \A u \in Users : Idle(u)' => Idle(u)
  BY DEF Idle
<1>4. \A r \in done : Rewarded(r)'
  BY DEF Unspoilt, Rewarded, dataVars
<1> QED BY <1>1, <1>2, <1>3, <1>4 DEF Unspoilt, dataVars

\* A step of goroutine c with one of the players of its result r spoils nothing
\* for the others, if it goes on with both in hand or has rewarded both.
LEMMA HandKept ==
  ASSUME Placed, Unspoilt, NEW c \in Conns, Busy(c),
         \A d \in Conns \ {c} : hnd'[d] = hnd[d],
         NEW r, r = hnd[c].r, NEW u \in PlayersOf(r),
         \A v \in Users \ {u} : /\ rank'[v] = rank[v] /\ file'[v] = file[v]
                                /\ lease'[v] = lease[v],
         /\ rank[u] \subseteq rank'[u]
         /\ file[u].rating \subseteq file'[u].rating
         /\ file[u].stat \subseteq file'[u].stat,
         \/ /\ Busy(c)' /\ hnd'[c].r = r /\ done' = done
            /\ \A i \in Both : InHand(c, i)'
         \/ /\ hnd'[c] = Reading /\ done' = done \cup {r} /\ Rewarded(r)'
            /\ \A v \in PlayersOf(r) :
                 rank'[v] = file'[v].rating /\ lease'[v] = None
  PROVE  Unspoilt'
<1>0. \A d \in Conns : Busy(d) => hnd[d].r \in Results
  BY HandTypes
<1>1. \A d \in Conns : Busy(d)' => Busy(d) /\ hnd'[d].r = hnd[d].r
  BY IdleWork DEF Busy
<1>2. Apart'
  BY <1>1 DEF Unspoilt, Apart
<1>3. ASSUME NEW d \in Conns, Busy(d)', NEW i \in Both PROVE InHand(d, i)'
  <2>1. CASE d = c
    BY <1>3, <2>1, IdleWork DEF Busy
  <2>2. CASE d # c
    <3>1. Busy(d) /\ InHand(d, i) /\ hnd'[d] = hnd[d]
      BY <1>1, <1>3, <2>2 DEF Unspoilt
    <3>2. PlayerOf(hnd[d].r, i) \in PlayersOf(hnd[d].r)
      BY DEF PlayersOf
    <3>3. PlayerOf(hnd[d].r, i) \in Users \ {u}
      BY <1>0, <2>2, <3>1, <3>2, Players DEF Unspoilt, Apart
    <3> QED BY <3>1, <3>3 DEF InHand
  <2> QED BY <2>1, <2>2
<1>4. ASSUME NEW v \in Users, Idle(v)'
      PROVE  rank'[v] = file'[v].rating /\ lease'[v] = None
  <2>1. CASE v \in PlayersOf(hnd[c].r)
    <3>1. ~Busy(c)'
      BY <1>1, <1>4, <2>1 DEF Idle
    <3> QED BY <2>1, <3>1
  <2>2. CASE v \notin PlayersOf(hnd[c].r)
    <3>1. Idle(v)
      BY <1>4, <2>2 DEF Idle, Busy
    <3> QED BY <2>2, <3>1 DEF Unspoilt
  <2> QED BY <2>1, <2>2
<1>5. ASSUME NEW x \in done PROVE Rewarded(x)'
  <2>1. x \in Results /\ Rewarded(x)
    BY DEF Placed, TypeOK, Unspoilt
  <2>2. ASSUME NEW v \in PlayersOf(x)
        PROVE  x \in rank'[v] \cap file'[v].rating \cap file'[v].stat
    <3>1. v \in Users /\ x \in rank[v] \cap file[v].rating \cap file[v].stat
      BY <2>1, Players DEF Rewarded
    <3> QED BY <3>1
  <2> QED BY <2>2 DEF Rewarded
<1>6. \A x \in done' : Rewarded(x)'
  BY <1>5
<1> QED BY <1>2, <1>3, <1>4, <1>6 DEF Unspoilt

\* The calls, leases and writes of a goroutine bring both players from one
\* rating to the next, in the leaderboard and then in the file.
LEMMA HandUnspoilt ==
  ASSUME Placed, Unspoilt, causes' = {}, NEW c \in Conns,
         Get(c) \/ Set(c) \/ Lease(c) \/ LeaseFails(c) \/ Write(c)
  PROVE  Unspoilt'
<1>0. Busy(c)
  BY DEF Get, Set, Lease, LeaseFails, Write, Busy
<1> PICK h \in Work : h = hnd[c]
  BY <1>0, HandTypes
<1> PICK r \in Results : r = h.r
  BY <1>0, HandTypes
<1>1. User(h) \in PlayersOf(r) /\ User(h) \in Users
  BY <1>0, HandTypes DEF Work, User, PlayersOf
<1> PICK u \in Users : u = User(h)
  BY <1>1
<1>2. /\ h.i \in Both /\ u = PlayerOf(r, h.i) /\ u \in PlayersOf(r)
      /\ PlayersOf(r) = {PlayerOf(r, 1), PlayerOf(r, 2)}
      /\ PlayersOf(r) \subseteq Users /\ PlayerOf(r, 1) # PlayerOf(r, 2)
  BY <1>1, Players DEF User, Work
<1> DEFINE Before(i, v) == Standing(c, h, i, rank[v], file[v], lease[v])
           After(g, i, v) == Standing(c, g, i, rank'[v], file'[v], lease'[v])
<1> PICK v \in Users, o \in Users : v = PlayerOf(r, 1) /\ o = PlayerOf(r, 2)
  BY <1>2
<1>3. Before(1, v) /\ Before(2, o)
  BY <1>0 DEF Unspoilt, InHand, Both
<1>5. /\ rank \in [Users -> Rating] /\ file \in [Users -> Db]
      /\ lease \in [Users -> Conns \cup {None}] /\ hnd \in [Conns -> Work]
  BY DEF Placed, TypeOK, Work
\* What is left to show while the result is in hand.
<1>12. ASSUME NEW g \in Work, hnd' = [hnd EXCEPT ![c] = g], g.r = r,
              g.pc \in {"get", "set", "lease", "write"}, done' = done,
              \A x \in Users \ {u} : /\ rank'[x] = rank[x] /\ file'[x] = file[x]
                                     /\ lease'[x] = lease[x],
              /\ rank[u] \subseteq rank'[u]
              /\ file[u].rating \subseteq file'[u].rating
              /\ file[u].stat \subseteq file'[u].stat,
              After(g, 1, v), After(g, 2, o)
       PROVE  Unspoilt'
  <2>1. hnd'[c] = g /\ \A d \in Conns \ {c} : hnd'[d] = hnd[d]
    BY <1>5, <1>12
  <2>2. InHand(c, 1)' /\ InHand(c, 2)'
    BY <1>12, <2>1 DEF InHand
  <2>3. Busy(c)' /\ hnd'[c].r = r
    BY <1>12, <2>1 DEF Busy
  <2> QED BY <1>0, <1>2, <1>12, <2>1, <2>2, <2>3, HandKept DEF Both
<1>4. \A x : causes' # causes \cup {x}
  OBVIOUS
<1>7. CASE Get(c)
  <2> DEFINE f == [h EXCEPT !.old[h.i] = rank[u]]
             g == Then(f, "set")
  <2>1. hnd' = [hnd EXCEPT ![c] = g] /\ UNCHANGED <<dataVars, done>>
    BY <1>4, <1>7 DEF Get, Goes
  <2>2. /\ h.pc = "get" /\ f \in Work /\ f.i = h.i /\ f.r = r /\ f.pc = "get"
        /\ f.old[h.i] = rank[u]
        /\ \A i \in Both \ {h.i} : f.old[i] = h.old[i]
    BY <1>2, <1>5, <1>7 DEF Get, Work
  <2> HIDE DEF f
  <2>3. /\ g \in Work /\ g.r = r /\ g.old = f.old
        /\ \/ h.i = 1 /\ g.i = 2 /\ g.pc = "get"
           \/ h.i = 2 /\ g.i = 1 /\ g.pc = "set"
    BY <2>2, CallOrder
  <2> HIDE DEF g
  <2>6. rank' = rank /\ file' = file /\ lease' = lease
    BY <2>1 DEF dataVars
  <2>4. After(g, 1, v)
    <3>1. CASE h.i = 1
      <4>1. g.old[1] = rank[v] /\ g.i = 2 /\ g.pc = "get"
        BY <1>2, <2>2, <2>3, <3>1 DEF Both
      <4> QED BY <1>2, <1>3, <2>2, <2>6, <3>1, <4>1 DEF Standing
    <3>2. CASE h.i = 2
      <4>1. g.old[1] = h.old[1] /\ g.i = 1 /\ g.pc = "set"
        BY <2>2, <2>3, <3>2 DEF Both
      <4> QED BY <1>2, <1>3, <2>2, <2>6, <3>2, <4>1 DEF Standing
    <3> QED BY <1>2, <3>1, <3>2 DEF Both
  <2>5. After(g, 2, o)
    <3>1. CASE h.i = 1
      <4>1. g.i = 2 /\ g.pc = "get"
        BY <2>3, <3>1
      <4> QED BY <1>2, <1>3, <2>2, <2>6, <3>1, <4>1 DEF Standing
    <3>2. CASE h.i = 2
      <4>1. g.old[2] = rank[o] /\ g.i = 1 /\ g.pc = "set"
        BY <1>2, <2>2, <2>3, <3>2 DEF Both
      <4> QED BY <1>2, <1>3, <2>2, <2>6, <3>2, <4>1 DEF Standing
    <3> QED BY <1>2, <3>1, <3>2 DEF Both
  <2> QED BY <1>12, <2>1, <2>3, <2>4, <2>5, <2>6
<1>8. CASE Set(c)
  <2> DEFINE g == Then(h, "lease")
  <2>1. /\ hnd' = [hnd EXCEPT ![c] = g] /\ UNCHANGED <<file, lease, done>>
        /\ rank' = [rank EXCEPT ![u] = NewRating(h)] /\ h.pc = "set"
    BY <1>4, <1>8 DEF Set, Goes
  <2>2. /\ g \in Work /\ g.r = r /\ g.old = h.old
        /\ \/ h.i = 1 /\ g.i = 2 /\ g.pc = "set"
           \/ h.i = 2 /\ g.i = 1 /\ g.pc = "lease"
    BY <2>1, CallOrder
  <2> HIDE DEF g
  <2>3. /\ rank'[u] = h.old[h.i] \cup {r}
        /\ \A x \in Users \ {u} : rank'[x] = rank[x]
    BY <1>5, <2>1 DEF NewRating
  <2>4. rank[u] = h.old[h.i]
    BY <1>2, <1>3, <2>1 DEF Standing, Both
  <2>5. After(g, 1, v)
    <3>1. CASE h.i = 1
      <4>1. v = u /\ file[v].rating = h.old[1] /\ lease[v] = None
        BY <1>2, <1>3, <2>1, <3>1 DEF Standing
      <4>2. /\ g.i = 2 /\ g.pc = "set" /\ g.old[1] = h.old[1] /\ g.r = r
            /\ file' = file /\ lease' = lease /\ rank'[u] = h.old[1] \cup {r}
        BY <2>1, <2>2, <2>3, <3>1
      <4> QED BY <4>1, <4>2 DEF Standing
    <3>2. CASE h.i = 2
      <4>1. /\ v # u /\ rank[v] = h.old[1] \cup {r}
            /\ file[v].rating = h.old[1] /\ lease[v] = None
        BY <1>2, <1>3, <2>1, <3>2 DEF Standing
      <4>2. /\ g.i = 1 /\ g.pc = "lease" /\ g.old[1] = h.old[1] /\ g.r = r
            /\ file' = file /\ lease' = lease
        BY <2>1, <2>2, <3>2
      <4>3. rank'[v] = rank[v]
        BY <1>2, <2>3, <4>1
      <4> QED BY <4>1, <4>2, <4>3 DEF Standing
    <3> QED BY <1>2, <3>1, <3>2 DEF Both
  <2>6. After(g, 2, o)
    <3>1. CASE h.i = 1
      <4>1. /\ o # u /\ rank[o] = h.old[2]
            /\ file[o].rating = h.old[2] /\ lease[o] = None
        BY <1>2, <1>3, <2>1, <3>1 DEF Standing
      <4>2. /\ g.i = 2 /\ g.pc = "set" /\ g.old[2] = h.old[2] /\ g.r = r
            /\ file' = file /\ lease' = lease
        BY <2>1, <2>2, <3>1
      <4>3. rank'[o] = rank[o]
        BY <1>2, <2>3, <4>1
      <4> QED BY <4>1, <4>2, <4>3 DEF Standing
    <3>2. CASE h.i = 2
      <4>1. o = u /\ file[o].rating = h.old[2] /\ lease[o] = None
        BY <1>2, <1>3, <2>1, <3>2 DEF Standing
      <4>2. /\ g.i = 1 /\ g.pc = "lease" /\ g.old[2] = h.old[2] /\ g.r = r
            /\ file' = file /\ lease' = lease /\ rank'[u] = h.old[2] \cup {r}
        BY <2>1, <2>2, <2>3, <3>2
      <4> QED BY <4>1, <4>2 DEF Standing
    <3> QED BY <1>2, <3>1, <3>2 DEF Both
  <2> QED BY <1>12, <2>1, <2>2, <2>3, <2>4, <2>5, <2>6
<1>9. CASE Lease(c)
  <2> DEFINE g == [h EXCEPT !.pc = "write", !.db = file[u]]
  <2>1. /\ hnd' = [hnd EXCEPT ![c] = g] /\ UNCHANGED <<rank, file, done>>
        /\ lease' = [lease EXCEPT ![u] = c] /\ h.pc = "lease"
    BY <1>9 DEF Lease, Goes
  <2>2. /\ g \in Work /\ g.r = r /\ g.old = h.old /\ g.i = h.i
        /\ g.pc = "write" /\ g.db = file[u]
    BY <1>5 DEF Work
  <2> HIDE DEF g
  <2>3. lease'[u] = c /\ \A x \in Users \ {u} : lease'[x] = lease[x]
    BY <1>5, <2>1
  <2>6. rank' = rank /\ file' = file
    BY <2>1
  <2>4. After(g, 1, v)
    <3>1. CASE h.i = 1
      <4>1. u = v /\ g.i = 1
        BY <1>2, <2>2, <3>1
      <4> QED BY <1>3, <2>1, <2>2, <2>3, <2>6, <3>1, <4>1 DEF Standing
    <3>2. CASE h.i = 2
      <4>1. u # v /\ g.i = 2
        BY <1>2, <2>2, <3>2
      <4>2. lease'[v] = lease[v]
        BY <2>3, <4>1
      <4> QED BY <1>3, <2>1, <2>2, <2>6, <3>2, <4>1, <4>2 DEF Standing
    <3> QED BY <1>2, <3>1, <3>2 DEF Both
  <2>5. After(g, 2, o)
    <3>1. CASE h.i = 1
      <4>1. u # o /\ g.i = 1
        BY <1>2, <2>2, <3>1
      <4>2. lease'[o] = lease[o]
        BY <2>3, <4>1
      <4> QED BY <1>3, <2>1, <2>2, <2>6, <3>1, <4>1, <4>2 DEF Standing
    <3>2. CASE h.i = 2
      <4>1. u = o /\ g.i = 2
        BY <1>2, <2>2, <3>2
      <4> QED BY <1>3, <2>1, <2>2, <2>3, <2>6, <3>2, <4>1 DEF Standing
    <3> QED BY <1>2, <3>1, <3>2 DEF Both
  <2> QED BY <1>12, <2>1, <2>2, <2>3, <2>4, <2>5
<1>10. CASE LeaseFails(c)
  <2>1. h.pc = "lease" /\ lease[u] # None
    BY <1>4, <1>10 DEF LeaseFails
  <2>2. CASE h.i = 1
    BY <1>2, <1>3, <2>1, <2>2 DEF Standing
  <2>3. CASE h.i = 2
    BY <1>2, <1>3, <2>1, <2>3 DEF Standing
  <2> QED BY <1>2, <2>2, <2>3 DEF Both
<1>11. CASE Write(c)
  <2>1. h.pc = "write" /\ lease[u] = c
    <3>1. h.pc = "write"
      BY <1>11 DEF Write
    <3>2. CASE h.i = 1
      BY <1>2, <1>3, <3>1, <3>2 DEF Standing
    <3>3. CASE h.i = 2
      BY <1>2, <1>3, <3>1, <3>3 DEF Standing
    <3> QED BY <1>2, <3>1, <3>2, <3>3 DEF Both
  <2>2. /\ file' = [file EXCEPT ![u] = Record(h)]
        /\ lease' = [lease EXCEPT ![u] = None]
        /\ rank' = rank /\ Leave(c)
    BY <1>4, <1>11, <2>1 DEF Write
  <2>3. h.db = file[u] /\ rank[u] = h.old[h.i] \cup {r}
        /\ file[u].rating = h.old[h.i]
    <3>1. CASE h.i = 1
      BY <1>2, <1>3, <2>1, <3>1 DEF Standing
    <3>2. CASE h.i = 2
      BY <1>2, <1>3, <2>1, <3>2 DEF Standing
    <3> QED BY <1>2, <3>1, <3>2 DEF Both
  <2>4. /\ file'[u].rating = h.old[h.i] \cup {r}
        /\ file'[u].stat = file[u].stat \cup {r}
        /\ lease'[u] = None
        /\ \A x \in Users \ {u} : file'[x] = file[x] /\ lease'[x] = lease[x]
    BY <1>5, <2>2, <2>3 DEF Record, NewRating
  <2>5. CASE h.i = 1
    <3> DEFINE g == [h EXCEPT !.i = 2, !.pc = "lease"]
    <3>1. hnd' = [hnd EXCEPT ![c] = g] /\ done' = done
      BY <2>2, <2>5 DEF Leave, Goes
    <3>2. /\ g \in Work /\ g.r = r /\ g.old = h.old /\ g.i = 2
          /\ g.pc = "lease"
      BY DEF Work, Both
    <3> HIDE DEF g
    <3>3. After(g, 1, v)
      BY <1>2, <2>2, <2>3, <2>4, <2>5, <3>2 DEF Standing
    <3>4. After(g, 2, o)
      <4>1. o \in Users \ {u}
        BY <1>2, <2>5
      <4>2. /\ rank[o] = h.old[2] \cup {r} /\ file[o].rating = h.old[2]
            /\ lease[o] = None
        BY <1>3, <2>1, <2>5 DEF Standing
      <4>3. rank'[o] = rank[o] /\ file'[o] = file[o] /\ lease'[o] = lease[o]
        BY <2>2, <2>4, <4>1
      <4> QED BY <3>2, <4>2, <4>3 DEF Standing
    <3> QED BY <1>12, <2>2, <2>3, <2>4, <3>1, <3>2, <3>3, <3>4
  <2>6. CASE h.i = 2
    <3>1. hnd' = [hnd EXCEPT ![c] = Reading] /\ done' = done \cup {r}
      BY <2>2, <2>6 DEF Leave, Goes
    <3>2. hnd'[c] = Reading /\ \A d \in Conns \ {c} : hnd'[d] = hnd[d]
      BY <1>5, <3>1, IdleWork
    <3>3. /\ rank'[u] = file'[u].rating /\ lease'[u] = None
          /\ r \in rank'[u] /\ r \in file'[u].stat
      BY <2>2, <2>3, <2>4
    <3>4. /\ rank'[v] = file'[v].rating /\ lease'[v] = None
          /\ r \in rank'[v] /\ r \in file'[v].stat
      <4>1. v \in Users \ {u}
        BY <1>2, <2>6
      <4>2. /\ rank[v] = h.old[1] \cup {r} /\ r \in file[v].stat
            /\ file[v].rating = h.old[1] \cup {r}
        BY <1>3, <2>1, <2>6 DEF Standing
      <4>3. lease[v] = None
        BY <1>3, <2>1, <2>6 DEF Standing
      <4> QED BY <2>2, <2>4, <4>1, <4>2, <4>3
    <3>5. PlayersOf(r) = {v, u}
      BY <1>2, <2>6
    <3>6. Rewarded(r)'
      <4>1. \A x \in {v, u} : /\ rank'[x] = file'[x].rating
                            /\ r \in rank'[x] /\ r \in file'[x].stat
        BY <3>3, <3>4
      <4> QED BY <3>5, <4>1 DEF Rewarded
    <3>7. \A x \in PlayersOf(r) : rank'[x] = file'[x].rating /\ lease'[x] = None
      BY <3>3, <3>4, <3>5
    <3>8. /\ rank[u] \subseteq rank'[u]
          /\ file[u].rating \subseteq file'[u].rating
          /\ file[u].stat \subseteq file'[u].stat
          /\ \A x \in Users \ {u} : /\ rank'[x] = rank[x] /\ file'[x] = file[x]
                                   /\ lease'[x] = lease[x]
      BY <2>2, <2>3, <2>4
    <3>9. r = hnd[c].r /\ u \in PlayersOf(r)
      BY <1>2
    <3>10. \A x \in Users \ {u} : /\ rank'[x] = rank[x] /\ file'[x] = file[x]
                                  /\ lease'[x] = lease[x]
      BY ONLY <3>8
    <3> QED BY ONLY Placed, Unspoilt, c \in Conns, <1>0, <3>1, <3>2, <3>6, <3>7, <3>8,
                    <3>9, <3>10, HandKept
  <2> QED BY <1>2, <2>5, <2>6 DEF Both
<1> QED BY <1>7, <1>8, <1>9, <1>10, <1>11

\* Every step of the battle server, the network, the goroutines and the rank
\* server keeps the invariant, or is noted as a cause.
LEMMA InvStep == Inv /\ [Next]_vars => Inv'
<1> SUFFICES ASSUME Inv, [Next]_vars, causes' = {} PROVE Unspoilt'
  BY PlacedStep DEF Inv
<1>0. /\ Placed /\ hnd \in [Conns -> Work] /\ rank \in [Users -> Rating]
      /\ conn \in Conns
  BY DEF Inv, Placed, TypeOK, Work
<1>1. causes = {} => Unspoilt
  BY DEF Inv
<1>2. ASSUME NEW r \in Results, Send(r) PROVE Unspoilt'
  BY <1>1, <1>2, DataKept DEF Send, Busy
<1>3. CASE Break
  BY <1>1, <1>3, DataKept DEF Break, Busy
<1>4. CASE Reconnect
  <2> PICK k \in Nat : k = conn + 1
    BY <1>0 DEF Conns
  <2>1. /\ conn < MaxConns /\ hnd' = [hnd EXCEPT ![k] = Reading]
        /\ UNCHANGED <<dataVars, done, causes>>
    BY <1>4 DEF Reconnect
  <2>2. k \in Conns /\ hnd[k] = Closed
    BY <1>0, <2>1, RewardAssumption
    DEF Conns, RewardAssumption, Placed, Unused
  <2>3. ~Busy(k) /\ ~Busy(k)'
    BY <1>0, <2>1, <2>2, IdleWork DEF Busy
  <2>4. \A d \in Conns \ {k} : hnd'[d] = hnd[d]
    BY <1>0, <2>1
  <2> QED BY <1>1, <2>1, <2>3, <2>4, DataKept DEF Busy
<1>5. ASSUME NEW c \in Conns, Read(c) PROVE Unspoilt'
  <2> PICK r \in Results : r = wire[c][1]
    <3>1. wire[c] \in Seq(sent) /\ wire[c] # << >> /\ sent \subseteq Results
      BY <1>0, <1>5 DEF Read, Readable, Placed, TypeOK
    <3> QED BY <3>1
  <2> DEFINE g == [Reading EXCEPT !.pc = "get", !.r = r]
  <2>1. /\ hnd[c].pc = "read" /\ hnd' = [hnd EXCEPT ![c] = g]
        /\ UNCHANGED <<dataVars, done>>
    BY <1>5 DEF Read
  <2>2. /\ causes = {}
        /\ \A d \in Conns \ {c} :
             Busy(d) => PlayersOf(hnd[d].r) \cap PlayersOf(r) = {}
    BY <1>5 DEF Read
  <2>3. g \in Work /\ g.pc = "get" /\ g.r = r /\ g.i = 1
    BY IdleWork DEF Work
  <2> HIDE DEF g
  <2>4. hnd'[c] = g /\ \A d \in Conns \ {c} : hnd'[d] = hnd[d]
    BY <1>0, <2>1
  <2>5. ~Busy(c) /\ Busy(c)' /\ \A d \in Conns \ {c} : Busy(d)' <=> Busy(d)
    BY <2>1, <2>3, <2>4 DEF Busy
  <2>6. Apart'
    <3> SUFFICES ASSUME NEW d \in Conns, NEW e \in Conns, d # e,
                        Busy(d)', Busy(e)'
                 PROVE  PlayersOf(hnd'[d].r) \cap PlayersOf(hnd'[e].r) = {}
      BY DEF Apart
    <3>1. CASE d = c
      BY <2>2, <2>3, <2>4, <2>5, <3>1
    <3>2. CASE e = c
      BY <2>2, <2>3, <2>4, <2>5, <3>2
    <3>3. CASE d # c /\ e # c
      BY <1>1, <2>2, <2>4, <2>5, <3>3 DEF Unspoilt, Apart
    <3> QED BY <3>1, <3>2, <3>3
  <2>7. ASSUME NEW d \in Conns, Busy(d)', NEW i \in Both PROVE InHand(d, i)'
    <3>1. CASE d # c
      <4>1. InHand(d, i)
        BY <1>1, <2>2, <2>5, <2>7, <3>1 DEF Unspoilt
      <4> QED BY <2>1, <2>4, <3>1, <4>1 DEF InHand, dataVars
    <3>2. CASE d = c
      <4> PICK u \in Users : u = PlayerOf(r, i) /\ u \in PlayersOf(r)
        BY Players DEF PlayersOf
      <4>1. Idle(u)
        BY <2>2, <2>5 DEF Idle
      <4>2. rank[u] = file[u].rating /\ lease[u] = None
        BY <1>1, <2>2, <4>1 DEF Unspoilt
      <4> QED BY <2>1, <2>3, <2>4, <3>2, <4>2 DEF InHand, Standing, dataVars, Both
    <3> QED BY <3>1, <3>2
  <2>8. \A u \in Users : Idle(u)' => Idle(u)
    BY <2>4, <2>5 DEF Idle
  <2>9. \A x \in done' : Rewarded(x)'
    BY <1>1, <2>1, <2>2 DEF Unspoilt, Rewarded, dataVars
  <2> QED BY <1>1, <2>1, <2>2, <2>6, <2>7, <2>8, <2>9 DEF Unspoilt, dataVars
<1>6. ASSUME NEW c \in Conns, Close(c) PROVE Unspoilt'
  <2>1. /\ hnd[c].pc = "read" /\ hnd' = [hnd EXCEPT ![c] = Closed]
        /\ UNCHANGED <<dataVars, done, causes>>
    BY <1>6 DEF Close
  <2>2. ~Busy(c) /\ ~Busy(c)' /\ \A d \in Conns \ {c} : hnd'[d] = hnd[d]
    BY <1>0, <2>1, IdleWork DEF Busy
  <2> QED BY <1>1, <2>1, <2>2, DataKept DEF Busy
<1>7. ASSUME NEW c \in Conns, Get(c) \/ Set(c) \/ Lease(c) \/ LeaseFails(c) \/ Write(c)
      PROVE  Unspoilt'
  <2>1. causes = {}
    BY <1>7 DEF Get, Set, Lease, LeaseFails, Write
  <2> QED BY <1>0, <1>1, <1>7, <2>1, HandUnspoilt
<1>8. CASE RankRestart
  <2>1. /\ rank' = [u \in Users |-> file[u].rating]
        /\ UNCHANGED <<hnd, file, lease, done>> /\ causes = {}
        /\ \A c \in Conns : ~Ahead(c)
    BY <1>8 DEF RankRestart, Loaded
  <2>2. ASSUME NEW u \in Users PROVE rank[u] = file[u].rating
    <3>1. CASE Idle(u)
      BY <1>1, <2>1, <3>1 DEF Unspoilt
    <3>2. CASE ~Idle(u)
      <4>1. PICK c \in Conns : Busy(c) /\ u \in PlayersOf(hnd[c].r)
        BY <3>2 DEF Idle
      <4>2. PICK i \in Both : u = PlayerOf(hnd[c].r, i)
        BY <4>1 DEF PlayersOf
      <4>3. InHand(c, i) /\ hnd[c] \in Work
        BY <1>0, <1>1, <2>1, <4>1 DEF Unspoilt
      <4>4. hnd[c].pc = "get" \/ (hnd[c].pc = "set" /\ ~(i < hnd[c].i))
        BY <2>1, <4>1, <4>3 DEF Ahead, Busy, Work, Both
      <4> QED BY <4>2, <4>3, <4>4 DEF InHand, Standing
    <3> QED BY <3>1, <3>2
  <2>3. rank' = rank
    BY <1>0, <2>1, <2>2
  <2> QED BY <1>1, <2>1, <2>3, DataKept DEF dataVars, Busy
<1>9. CASE Crash
  <2>1. /\ causes = {} /\ \A c \in Conns : ~Busy(c)
        /\ hnd' = [c \in Conns |-> Closed] /\ UNCHANGED <<dataVars, done>>
    BY <1>9 DEF Crash
  <2>2. \A c \in Conns : ~Busy(c)'
    BY <2>1, IdleWork DEF Busy
  <2> QED BY <1>1, <2>1, <2>2, DataKept
<1>10. CASE UNCHANGED vars
  BY <1>1, <1>10, DataKept DEF vars, Busy
<1> QED
  BY <1>2, <1>3, <1>4, <1>5, <1>6, <1>7, <1>8, <1>9, <1>10 DEF Next, Handler

\* While nothing has spoilt a rating, a result that was handled to the end
\* counts for both players in the leaderboard, in the rating of the file and in
\* the statistics, whatever connections and restarts there were.
THEOREM HandledCounts == Spec => []RewardedInFull
<1>1. Inv => RewardedInFull
  BY DEF Inv, Unspoilt, Rewarded, RewardedInFull
<1> QED BY <1>1, InvInit, InvStep, PTL DEF Spec

\* Then a file differs from the leaderboard only for a player of a result that
\* is being entered.
THEOREM FileAndRankAgree == Spec => []FileFollowsRank
<1>1. Inv => FileFollowsRank
  <2> SUFFICES ASSUME Inv, causes = {}, NEW u \in Users,
                      \A c \in Conns : Ahead(c) => u \notin PlayersOf(hnd[c].r)
               PROVE  file[u].rating = rank[u]
    BY DEF FileFollowsRank
  <2>1. CASE Idle(u)
    BY <2>1 DEF Inv, Unspoilt
  <2>2. CASE ~Idle(u)
    <3>1. PICK c \in Conns : Busy(c) /\ u \in PlayersOf(hnd[c].r)
      BY <2>2 DEF Idle
    <3>2. PICK i \in Both : u = PlayerOf(hnd[c].r, i)
      BY <3>1 DEF PlayersOf
    <3>3. InHand(c, i) /\ hnd[c] \in Work
      BY <3>1 DEF Inv, Unspoilt, Placed, TypeOK, Work
    <3>4. hnd[c].pc = "get" \/ (hnd[c].pc = "set" /\ ~(i < hnd[c].i))
      BY <3>1, <3>3 DEF Ahead, Busy, Work, Both
    <3> QED BY <3>2, <3>3, <3>4 DEF InHand, Standing
  <2> QED BY <2>1, <2>2
<1> QED BY <1>1, InvInit, InvStep, PTL DEF Spec
=============================================================================
