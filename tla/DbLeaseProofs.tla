--------------------------- MODULE DbLeaseProofs ---------------------------
(***************************************************************************)
(* Proofs about DbLease, for every number of users, clients, retries,      *)
(* leases and crashes.                                                     *)
(***************************************************************************)
EXTENDS DbLease, TLAPS

USE BoundsAreNaturals DEF BoundsAreNaturals

\* The server comes up, and the clients idle, with values of their types.
LEMMA TypeInit == Init => TypeOK
BY DEF Init, TypeOK, LeaseIds, NoLease

\* A client that has been given a record has a lease id.
HolderHasLease ==
  \A c \in Clients : pc[c] \in {"hold", "write"} => lid[c] # 0

Typed == TypeOK /\ HolderHasLease

\* A retry or a return keeps the types of what it changes.
LEMMA RetryType ==
  ASSUME TypeOK, NEW c \in Clients, pc[c] \in {"lease", "write"},
         NEW again \in BOOLEAN, NEW ls \in SUBSET LeaseReq, NEW ws \in SUBSET WriteReq,
         HolderHasLease,
         RetryOrGiveUp(c, again, ls, ws)
  PROVE  /\ leaseReqs' \in SUBSET LeaseReq
         /\ writeReqs' \in SUBSET WriteReq
         /\ pc' \in [Clients -> {"idle", "lease", "hold", "write"}]
         /\ tries' \in [Clients -> 0 .. MaxTries]
         /\ seq' \in [Clients -> 0 .. MaxRpc]
         /\ broken' \in SUBSET Clients
         /\ \A d \in Clients :
              pc'[d] \in {"hold", "write"} => pc[d] \in {"hold", "write"}
<1>1. CASE again /\ tries[c] > 0 /\ seq[c] < MaxRpc
  <2>1. LeaseReqOf(c) \in LeaseReq
    BY <1>1 DEF TypeOK, LeaseReqOf, LeaseReq
  <2>2. pc[c] = "write" => WriteReqOf(c) \in WriteReq
    BY <1>1 DEF TypeOK, WriteReqOf, WriteReq, HolderHasLease
  <2>3. /\ leaseReqs' \in SUBSET LeaseReq
        /\ writeReqs' \in SUBSET WriteReq
    BY <1>1, <2>1, <2>2 DEF RetryOrGiveUp, MayResend
  <2>4. tries[c] - 1 \in 0 .. MaxTries /\ seq[c] + 1 \in 0 .. MaxRpc
    BY <1>1 DEF TypeOK
  <2>5. /\ tries' \in [Clients -> 0 .. MaxTries]
        /\ seq' \in [Clients -> 0 .. MaxRpc]
    BY <1>1, <2>4 DEF RetryOrGiveUp, MayResend, TypeOK
  <2> QED BY <1>1, <2>3, <2>5 DEF RetryOrGiveUp, MayResend, TypeOK
<1>2. CASE ~(again /\ tries[c] > 0 /\ seq[c] < MaxRpc)
  <2>1. /\ pc' = [pc EXCEPT ![c] = "idle"] /\ tries' = [tries EXCEPT ![c] = 0]
        /\ leaseReqs' = ls /\ writeReqs' = ws /\ seq' = seq
        /\ broken' = broken \ {c}
    BY <1>2 DEF RetryOrGiveUp, MayResend
  <2>2. tries' \in [Clients -> 0 .. MaxTries]
    BY <2>1 DEF TypeOK
  <2> QED BY <2>1, <2>2 DEF TypeOK
<1> QED BY <1>1, <1>2

\* An error answer keeps the types, whether or not anybody waits for it.
LEMMA AnswerType ==
  ASSUME Typed, NEW m \in LeaseReq \cup WriteReq,
         NEW again \in BOOLEAN, NEW ls \in SUBSET LeaseReq, NEW ws \in SUBSET WriteReq,
         AnswerError(m, again, ls, ws)
  PROVE  /\ leaseReqs' \in SUBSET LeaseReq
         /\ writeReqs' \in SUBSET WriteReq
         /\ pc' \in [Clients -> {"idle", "lease", "hold", "write"}]
         /\ tries' \in [Clients -> 0 .. MaxTries]
         /\ seq' \in [Clients -> 0 .. MaxRpc]
         /\ broken' \in SUBSET Clients
         /\ HolderHasLease'
         /\ UNCHANGED <<who, lid, copy, blank>>
<1>1. m.client \in Clients
  BY DEF LeaseReq, WriteReq
<1>2. UNCHANGED <<who, lid, copy, blank>>
  BY DEF AnswerError
<1>3. CASE Awaited(m)
  <2>1. RetryOrGiveUp(m.client, again, ls, ws)
    BY <1>3 DEF AnswerError
  <2>2. pc[m.client] \in {"lease", "write"}
    BY <1>3 DEF Awaited
  <2> QED BY <1>1, <1>2, <2>1, <2>2, RetryType DEF Typed, HolderHasLease
<1>4. CASE ~Awaited(m)
  BY <1>2, <1>4 DEF AnswerError, Typed, TypeOK, HolderHasLease
<1> QED BY <1>3, <1>4

\* Every handler, retry, crash and save of the web form keeps the types.
LEMMA TypeStep == Typed /\ [Next]_vars => Typed'
<1> SUFFICES ASSUME Typed, [Next]_vars PROVE Typed'
  OBVIOUS
<1> USE DEF Typed
<1>1. ASSUME NEW m \in leaseReqs, GrantLease(m) PROVE Typed'
  <2>1. m \in LeaseReq /\ m.client \in Clients /\ m.user \in Users
    BY DEF TypeOK, LeaseReq
  <2>2. nextLease \in LeaseIds /\ nextLease # 0
        /\ nextLease + 1 \in 1 .. (MaxLease + 1)
    BY <1>1 DEF GrantLease, TypeOK, LeaseIds
  <2>3. leaseMap' \in [Users -> [id : {0} \cup LeaseIds, old : BOOLEAN]]
    BY <1>1, <2>1, <2>2 DEF GrantLease, TypeOK
  <2>4. /\ pc' \in [Clients -> {"idle", "lease", "hold", "write"}]
        /\ lid' \in [Clients -> {0} \cup LeaseIds]
        /\ copy' \in [Clients -> SUBSET LeaseIds]
        /\ blank' \in [Clients -> BOOLEAN]
    <3>1. disk[m.user] \in SUBSET LeaseIds /\ (m.user \in torn) \in BOOLEAN
      BY <2>1 DEF TypeOK
    <3>2. CASE Awaited(m)
      <4>1. /\ pc' = [pc EXCEPT ![m.client] = "hold"]
            /\ lid' = [lid EXCEPT ![m.client] = nextLease]
            /\ copy' = [copy EXCEPT ![m.client] = disk[m.user]]
        BY <1>1, <3>2 DEF GrantLease
      <4>2. blank' = [blank EXCEPT ![m.client] = m.user \in torn]
        BY <1>1, <3>2 DEF GrantLease
      <4>3. blank' \in [Clients -> BOOLEAN]
        BY <3>1, <4>2, Zenon DEF TypeOK
      <4> QED BY <2>1, <2>2, <3>1, <4>1, <4>3 DEF TypeOK
    <3>3. CASE ~Awaited(m)
      BY <1>1, <3>3 DEF GrantLease, TypeOK
    <3> QED BY <3>2, <3>3
  <2>5. HolderHasLease'
    <3>1. CASE Awaited(m)
      <4>1. /\ pc' = [pc EXCEPT ![m.client] = "hold"]
            /\ lid' = [lid EXCEPT ![m.client] = nextLease]
        BY <1>1, <3>1 DEF GrantLease
      <4> QED BY <2>1, <2>2, <4>1 DEF TypeOK, HolderHasLease
    <3>2. CASE ~Awaited(m)
      BY <1>1, <3>2 DEF GrantLease, HolderHasLease
    <3> QED BY <3>1, <3>2
  <2>6. tries' \in [Clients -> 0 .. MaxTries]
    BY <1>1, <2>1 DEF GrantLease, TypeOK
  <2> QED
    BY <1>1, <2>1, <2>2, <2>3, <2>4, <2>5, <2>6
       DEF GrantLease, TypeOK, fileVars, historyVars
<1>2. ASSUME NEW m \in leaseReqs, RefuseLease(m) PROVE Typed'
  <2>1. /\ m \in LeaseReq
        /\ leaseReqs \ {m} \in SUBSET LeaseReq /\ writeReqs \in SUBSET WriteReq
    BY DEF TypeOK
  <2> QED BY <1>2, <2>1, AnswerType
             DEF RefuseLease, TypeOK, fileVars, historyVars
<1>2a. ASSUME NEW m \in leaseReqs, FailLease(m) PROVE Typed'
  <2>1. /\ m \in LeaseReq /\ m.user \in Users
        /\ leaseReqs \ {m} \in SUBSET LeaseReq /\ writeReqs \in SUBSET WriteReq
    BY DEF TypeOK, LeaseReq
  <2>2. leaseMap' \in [Users -> [id : {0} \cup LeaseIds, old : BOOLEAN]]
    BY <1>2a, <2>1 DEF FailLease, NoLease, TypeOK
  <2> PICK again \in BOOLEAN : AnswerError(m, again, leaseReqs \ {m}, writeReqs)
    BY <1>2a DEF FailLease
  <2>3. /\ leaseReqs' \in SUBSET LeaseReq /\ writeReqs' \in SUBSET WriteReq
        /\ pc' \in [Clients -> {"idle", "lease", "hold", "write"}]
        /\ tries' \in [Clients -> 0 .. MaxTries]
        /\ seq' \in [Clients -> 0 .. MaxRpc] /\ broken' \in SUBSET Clients
        /\ HolderHasLease' /\ UNCHANGED <<who, lid, copy, blank>>
    BY <2>1, AnswerType
  <2>4. UNCHANGED <<nextLease, writing, fileVars, historyVars, admin, touched,
                    crashes>>
    BY <1>2a DEF FailLease
  <2> QED BY <2>2, <2>3, <2>4 DEF TypeOK, fileVars, historyVars
<1>3. ASSUME NEW m \in writeReqs, BeginWrite(m) PROVE Typed'
  <2>1. m \in WriteReq /\ m.user \in Users
    BY DEF TypeOK, WriteReq
  <2> QED BY <1>3, <2>1
             DEF BeginWrite, TypeOK, HolderHasLease, clientVars, historyVars
<1>4. ASSUME NEW m \in writeReqs, RefuseWrite(m) PROVE Typed'
  <2>1. /\ m \in WriteReq
        /\ leaseReqs \in SUBSET LeaseReq /\ writeReqs \ {m} \in SUBSET WriteReq
    BY DEF TypeOK
  <2> QED BY <1>4, <2>1, AnswerType
             DEF RefuseWrite, TypeOK, fileVars, historyVars
<1>5. CASE EndWrite
  <2> DEFINE m == writing
  <2>1. /\ m \in WriteReq /\ m.user \in Users /\ m.client \in Clients
        /\ m.lid \in LeaseIds /\ m.copy \in SUBSET LeaseIds
    BY <1>5 DEF EndWrite, TypeOK, WriteReq
  <2>2. leaseMap' \in [Users -> [id : {0} \cup LeaseIds, old : BOOLEAN]]
    BY <1>5, <2>1 DEF EndWrite, LeasesAfter, NoLease, TypeOK
  <2>3. /\ pc' \in [Clients -> {"idle", "lease", "hold", "write"}]
        /\ acked' \in [Users -> SUBSET LeaseIds]
        /\ HolderHasLease'
    <3>1. CASE Awaited(m)
      <4>1. /\ pc' = [pc EXCEPT ![m.client] = "idle"]
            /\ acked' = [acked EXCEPT ![m.user] = @ \cup {m.lid}]
            /\ lid' = lid
        BY <1>5, <3>1 DEF EndWrite
      <4>2. acked[m.user] \cup {m.lid} \in SUBSET LeaseIds
        BY <2>1 DEF TypeOK
      <4> HIDE DEF m
      <4> QED BY <2>1, <4>1, <4>2 DEF TypeOK, HolderHasLease
    <3>2. CASE ~Awaited(m)
      BY <1>5, <3>2 DEF EndWrite, TypeOK, HolderHasLease
    <3> QED BY <3>1, <3>2
  <2>4. /\ disk' \in [Users -> SUBSET LeaseIds]
        /\ committed' \in [Users -> SUBSET LeaseIds]
        /\ torn' \in SUBSET Users
    <3>1. committed[m.user] \cup {m.lid} \in SUBSET LeaseIds
      BY <2>1 DEF TypeOK
    <3>2. /\ disk' = [disk EXCEPT ![m.user] = m.copy]
          /\ torn' = torn \ {m.user}
          /\ committed' = [committed EXCEPT ![m.user] = @ \cup {m.lid}]
      BY <1>5 DEF EndWrite
    <3> HIDE DEF m
    <3> QED BY <2>1, <3>1, <3>2 DEF TypeOK
  <2>5. writing' = None
        /\ UNCHANGED <<nextLease, leaseReqs, writeReqs, who, lid, copy, blank,
                       seq, broken, admin, touched, crashes>>
    BY <1>5 DEF EndWrite
  <2>6. tries' \in [Clients -> 0 .. MaxTries]
    BY <1>5, <2>1 DEF EndWrite, TypeOK
  <2> HIDE DEF m
  <2> QED BY <2>2, <2>3, <2>4, <2>5, <2>6 DEF TypeOK
<1>6. ASSUME NEW c \in Clients, NEW u \in Users, StartLease(c, u)
      PROVE Typed'
  <2>1. seq[c] + 1 \in 1 .. MaxRpc
    BY <1>6 DEF StartLease, TypeOK
  <2>2. leaseReqs' \in SUBSET LeaseReq
    BY <1>6, <2>1 DEF StartLease, TypeOK, LeaseReq
  <2>3. seq' \in [Clients -> 0 .. MaxRpc] /\ MaxTries \in 0 .. MaxTries
    BY <1>6, <2>1 DEF StartLease, TypeOK
  <2> QED BY <1>6, <2>1, <2>2, <2>3
             DEF StartLease, TypeOK, HolderHasLease, fileVars, historyVars
<1>7. ASSUME NEW c \in Clients, StartWrite(c) PROVE Typed'
  <2>1. seq[c] + 1 \in 1 .. MaxRpc
    BY <1>7 DEF StartWrite, TypeOK
  <2>2. lid[c] \in LeaseIds
    BY <1>7 DEF StartWrite, TypeOK, HolderHasLease
  <2>3. writeReqs' \in SUBSET WriteReq
    BY <1>7, <2>1, <2>2 DEF StartWrite, TypeOK, WriteReq, WriteReqOf
  <2>4. seq' \in [Clients -> 0 .. MaxRpc] /\ MaxTries \in 0 .. MaxTries
    BY <1>7, <2>1 DEF StartWrite, TypeOK
  <2> QED BY <1>7, <2>1, <2>3, <2>4
             DEF StartWrite, TypeOK, HolderHasLease, fileVars, historyVars
<1>8. ASSUME NEW c \in Clients, Abandon(c) PROVE Typed'
  BY <1>8 DEF Abandon, TypeOK, HolderHasLease, serverVars, fileVars,
              historyVars
<1>9. ASSUME NEW c \in Clients, CallFails(c) PROVE Typed'
  <2>1. leaseReqs \in SUBSET LeaseReq /\ writeReqs \in SUBSET WriteReq
    BY DEF TypeOK
  <2> QED BY <1>9, <2>1, RetryType
             DEF CallFails, TypeOK, HolderHasLease, fileVars, historyVars
<1>10. ASSUME NEW u \in Users, LeaseAges(u) PROVE Typed'
  <2>1. leaseMap' \in [Users -> [id : {0} \cup LeaseIds, old : BOOLEAN]]
    BY <1>10 DEF LeaseAges, TypeOK
  <2> QED BY <1>10, <2>1 DEF LeaseAges, TypeOK, HolderHasLease, clientVars,
                             fileVars, historyVars
<1>11. ASSUME NEW u \in Users, AdminLoad(u) PROVE Typed'
  BY <1>11 DEF AdminLoad, AdminSave, TypeOK, HolderHasLease, clientVars,
               serverVars, fileVars, historyVars
<1>12. CASE AdminTruncate
  <2>1. admin \in AdminSave
    BY <1>12 DEF AdminTruncate, TypeOK
  <2> QED BY <1>12, <2>1
             DEF AdminTruncate, AdminSave, TypeOK, HolderHasLease,
                 clientVars, serverVars, historyVars
<1>13. CASE AdminEncode
  <2>1. admin \in AdminSave
    BY <1>13 DEF AdminEncode, TypeOK
  <2> QED BY <1>13, <2>1
             DEF AdminEncode, AdminSave, TypeOK, HolderHasLease,
                 clientVars, serverVars, historyVars
<1>14. CASE Crash
  BY <1>14 DEF Crash, NoLease, TypeOK, HolderHasLease, fileVars, historyVars
<1>15. CASE UNCHANGED vars
  BY <1>15 DEF vars, TypeOK, HolderHasLease, clientVars, serverVars,
               fileVars, historyVars
<1> QED BY <1>1, <1>2, <1>3, <1>4, <1>5, <1>6, <1>7, <1>8, <1>9, <1>10,
           <1>11, <1>12, <1>13, <1>14, <1>15, <1>2a DEF Next, Server

\* Type correctness.
THEOREM TypeCorrect == Spec => []TypeOK
<1>1. Init => Typed
  BY TypeInit DEF Init, Typed, HolderHasLease
<1>2. Typed => TypeOK
  BY DEF Typed
<1> QED BY <1>1, <1>2, TypeStep, PTL DEF Spec

-----------------------------------------------------------------------------
unchangedByRetry == <<who, lid, copy, blank, nextLease, writing,
                      fileVars, historyVars, admin, touched, crashes>>

\* Leases are forgotten, if anything.
LeasesDropped ==
  \A u \in Users : leaseMap'[u].id = leaseMap[u].id \/ leaseMap'[u].id = 0

\* A retry or a return preserves the invariant: what it sends is what the
\* client's state already vouches for.
LEMMA RetryInv ==
  ASSUME Typed, Typed', IInv,
         NEW c \in Clients, pc[c] \in {"lease", "write"},
         NEW again \in BOOLEAN, NEW ls \in SUBSET leaseReqs, NEW ws \in SUBSET writeReqs,
         RetryOrGiveUp(c, again, ls, ws), UNCHANGED unchangedByRetry, LeasesDropped
  PROVE  IInv'
<1> USE DEF unchangedByRetry, fileVars, historyVars
<1>1. /\ seq \in [Clients -> 0 .. MaxRpc] /\ pc \in [Clients -> {"idle", "lease", "hold", "write"}]
      /\ leaseReqs \in SUBSET LeaseReq /\ writeReqs \in SUBSET WriteReq
  BY DEF Typed, TypeOK
<1>4. \A d \in Clients : pc'[d] \in {"hold", "write"} /\ leaseMap'[who[d]].id = lid[d]
        => leaseMap[who[d]].id = lid[d]
  BY DEF Typed, TypeOK, HolderHasLease, LeasesDropped
<1>5. \A m \in writeReqs : leaseMap'[m.user].id = m.lid => leaseMap[m.user].id = m.lid
  BY DEF Typed, TypeOK, LeasesDropped, WriteReq, LeaseIds
<1>6. \A u \in Users : leaseMap'[u].id < nextLease
  <2>1. nextLease \in Nat /\ nextLease > 0
    BY DEF Typed, TypeOK
  <2>2. \A u \in Users : leaseMap[u].id < nextLease
    BY DEF IInv, IdsHandedOut
  <2> QED BY <2>1, <2>2 DEF LeasesDropped
<1>2. CASE again /\ tries[c] > 0 /\ seq[c] < MaxRpc
  <2>1. /\ pc' = pc /\ seq' = [seq EXCEPT ![c] = @ + 1]
        /\ leaseReqs' = ls \cup (IF pc[c] = "lease" THEN {LeaseReqOf(c)} ELSE {})
        /\ writeReqs' = ws \cup (IF pc[c] = "write" THEN {WriteReqOf(c)} ELSE {})
    BY <1>2 DEF RetryOrGiveUp, MayResend
  <2>2. IdsHandedOut'
    BY <1>6, <2>1 DEF IInv, IdsHandedOut, WriteReqOf
  <2>3. RequestsMatch'
    <3>1. \A m \in ls : m.client \in Clients /\ m.seq \in Nat
      BY <1>1 DEF LeaseReq
    <3>2. LeaseReqOf(c).client = c /\ LeaseReqOf(c).seq = seq[c] + 1
          /\ LeaseReqOf(c).user = who[c]
      BY DEF LeaseReqOf
    <3> QED BY <1>1, <2>1, <3>1, <3>2 DEF IInv, RequestsMatch
  <2>4. HoldersCurrent'
    BY <1>4, <2>1 DEF IInv, HoldersCurrent, HoldsLive, Writing
  <2>5. RequestsCurrent'
    <3>1. ASSUME NEW m \in ws PROVE RequestsCurrent!(m)'
      BY <1>5, <3>1, <2>1 DEF IInv, RequestsCurrent, Writing
    <3>2. ASSUME pc[c] = "write", NEW m, m = WriteReqOf(c)
          PROVE  RequestsCurrent!(m)'
      BY <1>4, <3>2, <2>1 DEF IInv, WriteReqOf, HoldersCurrent, HoldsLive, Writing
    <3> QED BY <2>1, <3>1, <3>2 DEF RequestsCurrent
  <2> QED BY <2>1, <2>2, <2>3, <2>4, <2>5
          DEF IInv, WritingCurrent, TornForAReason, Writing, FileIsCommitted,
              LeasedRecordIntact
<1>3. CASE ~(again /\ tries[c] > 0 /\ seq[c] < MaxRpc)
  <2>1. /\ pc' = [pc EXCEPT ![c] = "idle"] /\ seq' = seq
        /\ leaseReqs' = ls /\ writeReqs' = ws
    BY <1>3 DEF RetryOrGiveUp, MayResend
  <2>2. RequestsMatch'
    BY <1>1, <2>1 DEF IInv, RequestsMatch, LeaseReq
  <2>3. RequestsCurrent'
    BY <1>5, <2>1 DEF IInv, RequestsCurrent, Writing
  <2>4. IdsHandedOut' /\ HoldersCurrent'
    BY <1>1, <1>4, <1>6, <2>1 DEF IInv, IdsHandedOut, HoldersCurrent, HoldsLive, Writing
  <2> QED BY <2>1, <2>2, <2>3, <2>4
          DEF IInv, WritingCurrent, TornForAReason, Writing, FileIsCommitted,
              LeasedRecordIntact
<1> QED BY <1>2, <1>3

\* An answer from the server changes no more than its client's own state, so it
\* keeps what the leases, the requests and the file already satisfy.
LEMMA AnswerInv ==
  ASSUME Typed, Typed', IInv, NEW m \in LeaseReq \cup WriteReq,
         NEW again \in BOOLEAN, NEW ls \in SUBSET leaseReqs, NEW ws \in SUBSET writeReqs,
         AnswerError(m, again, ls, ws), UNCHANGED unchangedByRetry, LeasesDropped
  PROVE  IInv'
<1>1. m.client \in Clients
  BY DEF LeaseReq, WriteReq
<1>2. CASE Awaited(m)
  BY <1>1, <1>2, RetryInv DEF AnswerError, Awaited
<1>3. CASE ~Awaited(m)
  <2> USE <1>3 DEF AnswerError, unchangedByRetry, fileVars, historyVars
  <2>1. IdsHandedOut' /\ RequestsMatch'
    BY DEF Typed, TypeOK, LeasesDropped, IInv, IdsHandedOut, RequestsMatch
  <2>2. HoldersCurrent'
    BY DEF Typed, TypeOK, HolderHasLease, LeasesDropped, IInv, HoldersCurrent,
           HoldsLive, Writing
  <2>3. RequestsCurrent'
    BY DEF Typed, TypeOK, LeasesDropped, WriteReq, LeaseIds, IInv, RequestsCurrent,
           Writing
  <2> QED BY <2>1, <2>2, <2>3
          DEF IInv, WritingCurrent, TornForAReason, Writing, FileIsCommitted,
              LeasedRecordIntact
<1> QED BY <1>2, <1>3

\* The empty lease table and the intact files of the start satisfy the invariant.
LEMMA InvInit == Init => IInv
BY DEF Init, IInv, IdsHandedOut, RequestsMatch, HoldersCurrent, HoldsLive,
       RequestsCurrent, WritingCurrent, TornForAReason, Writing,
       FileIsCommitted, LeasedRecordIntact, NoLease

\* Every step of server.go, of the clients and of the web form keeps the
\* strengthened invariant: who holds, asks for or writes under the remembered
\* lease has the record as it is stored.
LEMMA InvStep == Typed /\ Typed' /\ IInv /\ [Next]_vars => IInv'
<1> SUFFICES ASSUME Typed, Typed', IInv, [Next]_vars PROVE IInv'
  OBVIOUS
<1> USE DEF fileVars, historyVars
<1>1. ASSUME NEW m \in leaseReqs, GrantLease(m) PROVE IInv'
  <2>1. /\ m \in LeaseReq /\ m.client \in Clients /\ m.user \in Users
        /\ writing = None /\ writing' = None
    BY <1>1 DEF Typed, TypeOK, LeaseReq, GrantLease, Receiving
  <2>2. /\ leaseMap' = [leaseMap EXCEPT ![m.user] = [id |-> nextLease, old |-> FALSE]]
        /\ nextLease' = nextLease + 1 /\ leaseReqs' = leaseReqs \ {m}
        /\ UNCHANGED <<who, seq, broken, writeReqs, disk, torn,
                       committed, admin, touched, crashes>>
    BY <1>1 DEF GrantLease
  <2>3. nextLease \in Nat /\ \A r \in writeReqs : r.lid \in Nat
    BY DEF Typed, TypeOK, WriteReq, LeaseIds
  <2>4. /\ \A c \in Clients : lid[c] \in Nat
        /\ \A u \in Users : leaseMap[u].id \in Nat
    BY DEF Typed, TypeOK, LeaseIds
  <2>5. CASE Awaited(m)
    <3>1. /\ pc' = [pc EXCEPT ![m.client] = "hold"]
          /\ lid' = [lid EXCEPT ![m.client] = nextLease]
          /\ copy' = [copy EXCEPT ![m.client] = disk[m.user]]
      BY <1>1, <2>5 DEF GrantLease
    <3>2. blank' = [blank EXCEPT ![m.client] = m.user \in torn]
      BY <1>1, <2>5 DEF GrantLease
    <3>3. m.user = who[m.client]
      BY <2>5 DEF Awaited, IInv, RequestsMatch
    <3>4. /\ blank'[m.client] <=> m.user \in torn
          /\ \A c \in Clients \ {m.client} : blank'[c] = blank[c]
      BY <2>1, <3>2, Zenon DEF Typed, TypeOK
    <3>5. IdsHandedOut'
      BY <2>1, <2>2, <2>3, <2>4, <3>1 DEF IInv, IdsHandedOut, Typed, TypeOK
    <3>6. RequestsMatch'
      <4>1. \A r \in leaseReqs : r.client = m.client /\ r.seq = seq[m.client]
                                 => r = m
        <5>1. m.seq = seq[m.client]
          BY <2>5 DEF Awaited
        <5>2. ASSUME NEW r \in leaseReqs, r.client = m.client,
                     r.seq = seq[m.client]
              PROVE  r = m
          <6>1. r.user = m.user
            BY <5>2, <3>3 DEF IInv, RequestsMatch
          <6>2. r \in LeaseReq
            BY DEF Typed, TypeOK
          <6> QED BY <2>1, <5>1, <5>2, <6>1, <6>2 DEF LeaseReq
        <5> QED BY <5>2
      <4> QED BY <2>1, <2>2, <3>1, <4>1
              DEF IInv, RequestsMatch, Typed, TypeOK, LeaseReq
    <3>7. HoldersCurrent'
      <4>1. ASSUME NEW c \in Clients, c # m.client,
                   HoldsLive(c)', who'[c] \notin touched', ~Writing(who[c])'
            PROVE  (blank[c] <=> who[c] \in torn) /\ copy[c] = disk[who[c]]
        <5>1. pc[c] \in {"hold", "write"} /\ who[c] \in Users /\ lid[c] < nextLease
          BY <4>1, <2>1, <2>2, <3>1
             DEF HoldsLive, IInv, IdsHandedOut, Typed, TypeOK
        <5>2. leaseMap'[who[c]].id = lid[c]
          BY <4>1, <2>2, <3>1, <2>1 DEF HoldsLive, Typed, TypeOK
        <5>3. who[c] # m.user
          BY <5>1, <5>2, <2>1, <2>2, <2>3, <2>4 DEF Typed, TypeOK
        <5>4. HoldsLive(c)
          BY <5>1, <5>2, <5>3, <2>1, <2>2 DEF HoldsLive, Typed, TypeOK
        <5> QED BY <5>4, <4>1, <2>1, <2>2 DEF IInv, HoldersCurrent, Writing
      <4>2. \A c \in Clients \ {m.client} : copy'[c] = copy[c]
        BY <3>1 DEF Typed, TypeOK
      <4>3. copy'[m.client] = disk[m.user]
        BY <2>1, <3>1 DEF Typed, TypeOK
      <4> SUFFICES ASSUME NEW c \in Clients, HoldsLive(c)',
                          who'[c] \notin touched', ~Writing(who[c])'
                   PROVE  /\ blank'[c] <=> who[c] \in torn
                          /\ copy'[c] = disk[who[c]]
        BY <2>2, Zenon DEF HoldersCurrent
      <4>4. CASE c = m.client
        BY <3>3, <3>4, <4>3, <4>4
      <4>5. CASE c # m.client
        <5>1. (blank[c] <=> who[c] \in torn) /\ copy[c] = disk[who[c]]
          BY <4>1, <4>5
        <5> QED BY <3>4, <4>2, <4>5, <5>1
      <4> QED BY <4>4, <4>5
    <3>8. LeasedRecordIntact'
      <4>1. m.user \in torn => crashes > 0 \/ touched # {}
        BY <2>1 DEF IInv, TornForAReason, Writing
      <4> QED BY <2>2, <3>4, <4>1 DEF IInv, LeasedRecordIntact
    <3>9. RequestsCurrent'
      BY <2>1, <2>2, <2>3
         DEF IInv, RequestsCurrent, IdsHandedOut, Writing, Typed, TypeOK, WriteReq
    <3> QED BY <2>1, <2>2, <3>5, <3>6, <3>7, <3>8, <3>9
            DEF IInv, WritingCurrent, TornForAReason, Writing, FileIsCommitted
  <2>6. CASE ~Awaited(m)
    <3>1. UNCHANGED <<pc, lid, copy, blank>>
      BY <1>1, <2>6 DEF GrantLease
    <3>2. IdsHandedOut'
      BY <2>1, <2>2, <2>3, <2>4, <3>1 DEF IInv, IdsHandedOut, Typed, TypeOK
    <3>3. RequestsMatch' /\ LeasedRecordIntact'
      BY <2>1, <2>2, <3>1 DEF IInv, RequestsMatch, LeasedRecordIntact
    <3>4. RequestsCurrent'
      BY <2>1, <2>2, <2>3
         DEF IInv, RequestsCurrent, IdsHandedOut, Writing, Typed, TypeOK, WriteReq
    <3>5. HoldersCurrent'
      BY <2>1, <2>2, <2>3, <2>4, <3>1
         DEF IInv, HoldersCurrent, HoldsLive, IdsHandedOut, Writing, Typed, TypeOK
    <3> QED BY <2>1, <2>2, <3>1, <3>2, <3>3, <3>4, <3>5
            DEF IInv, WritingCurrent, TornForAReason, Writing, FileIsCommitted
  <2> QED BY <2>5, <2>6
<1>2. ASSUME NEW m \in leaseReqs, RefuseLease(m) PROVE IInv'
  BY <1>2, AnswerInv DEF RefuseLease, Typed, TypeOK, unchangedByRetry,
                         AnswerError, LeasesDropped
<1>2a. ASSUME NEW m \in leaseReqs, FailLease(m) PROVE IInv'
  <2>1. /\ m \in LeaseReq \cup WriteReq /\ m.user \in Users
        /\ leaseReqs \ {m} \in SUBSET leaseReqs /\ writeReqs \in SUBSET writeReqs
    BY DEF Typed, TypeOK, LeaseReq
  <2>2. LeasesDropped
    BY <1>2a, <2>1 DEF FailLease, NoLease, LeasesDropped, Typed, TypeOK
  <2> PICK again \in BOOLEAN : AnswerError(m, again, leaseReqs \ {m}, writeReqs)
    BY <1>2a DEF FailLease
  <2>3. UNCHANGED unchangedByRetry
    BY <1>2a DEF FailLease, unchangedByRetry, AnswerError
  <2> QED BY <2>1, <2>2, <2>3, AnswerInv
<1>3. ASSUME NEW m \in writeReqs, BeginWrite(m) PROVE IInv'
  <2>1. /\ m \in WriteReq /\ m.user \in Users /\ m # None
        /\ writing = None /\ writing' = m /\ writeReqs' = writeReqs \ {m}
        /\ torn' = torn \cup {m.user}
        /\ disk' = [disk EXCEPT ![m.user] = {}]
        /\ leaseMap[m.user].id = m.lid /\ ~m.blank
        /\ UNCHANGED <<leaseMap, nextLease, leaseReqs, pc, who, lid, copy,
                       blank, seq, committed, admin, touched, crashes>>
    BY <1>3, NoneIsNoRecord
       DEF BeginWrite, Receiving, LeaseMatches, Typed, TypeOK, WriteReq, clientVars
  <2>2. WritingCurrent'
    <3>1. m.user \notin touched =>
            m.user \notin torn /\ m.copy = disk[m.user] \cup {m.lid}
      BY <2>1 DEF IInv, RequestsCurrent, Writing
    <3>2. m.user \notin touched => m.copy = committed[m.user] \cup {m.lid}
      BY <2>1, <3>1 DEF IInv, FileIsCommitted
    <3> QED BY <2>1, <3>2 DEF WritingCurrent
  <2>3. HoldersCurrent'
    BY <2>1 DEF IInv, HoldersCurrent, HoldsLive, Writing, Typed, TypeOK
  <2>4. RequestsCurrent'
    BY <2>1 DEF IInv, RequestsCurrent, Writing, Typed, TypeOK, WriteReq
  <2>5. TornForAReason' /\ FileIsCommitted' /\ LeasedRecordIntact'
    BY <2>1 DEF IInv, TornForAReason, Writing, FileIsCommitted,
                LeasedRecordIntact, Typed, TypeOK
  <2>6. IdsHandedOut' /\ RequestsMatch'
    BY <2>1 DEF IInv, IdsHandedOut, RequestsMatch
  <2> QED BY <2>2, <2>3, <2>4, <2>5, <2>6 DEF IInv
<1>4. ASSUME NEW m \in writeReqs, RefuseWrite(m) PROVE IInv'
  <2>1. /\ m \in LeaseReq \cup WriteReq
        /\ leaseReqs \in SUBSET leaseReqs
        /\ writeReqs \ {m} \in SUBSET writeReqs
    BY DEF Typed, TypeOK
  <2>2. AnswerError(m, TRUE, leaseReqs, writeReqs \ {m}) /\ UNCHANGED unchangedByRetry
    BY <1>4 DEF RefuseWrite, unchangedByRetry, AnswerError
  <2>3. LeasesDropped
    BY <1>4 DEF RefuseWrite, LeasesDropped
  <2> QED BY <2>1, <2>2, <2>3, AnswerInv
<1>5. CASE EndWrite
  <2> DEFINE m == writing
  <2>1. /\ m \in WriteReq /\ m.user \in Users /\ m.client \in Clients
        /\ m.lid \in LeaseIds
    BY <1>5 DEF EndWrite, Typed, TypeOK, WriteReq
  <2>2. /\ writing # None /\ writing' = None
        /\ disk' = [disk EXCEPT ![m.user] = m.copy]
        /\ torn' = torn \ {m.user}
        /\ leaseMap' = [leaseMap EXCEPT ![m.user] = NoLease]
        /\ committed' = [committed EXCEPT ![m.user] = @ \cup {m.lid}]
        /\ UNCHANGED <<nextLease, leaseReqs, writeReqs, who, lid, copy, blank,
                       seq, admin, touched, crashes>>
    BY <1>5 DEF EndWrite, LeasesAfter
  <2>3. /\ pc' \in [Clients -> {"idle", "lease", "hold", "write"}]
        /\ \A c \in Clients : pc'[c] = pc[c] \/ pc'[c] = "idle"
    <3>1. CASE Awaited(m)
      <4>1. pc' = [pc EXCEPT ![m.client] = "idle"]
        BY <1>5, <3>1 DEF EndWrite
      <4> QED BY <2>1, <4>1 DEF Typed, TypeOK
    <3>2. CASE ~Awaited(m)
      BY <1>5, <3>2 DEF EndWrite, Typed, TypeOK
    <3> QED BY <3>1, <3>2
  <2>4. FileIsCommitted'
    <3>1. m.user \notin touched => m.copy = committed[m.user] \cup {m.lid}
      BY <2>2 DEF IInv, WritingCurrent
    <3>2. ASSUME NEW u \in Users, u \notin torn', u \notin touched
          PROVE  disk'[u] = committed'[u]
      <4>1. CASE u = m.user
        BY <2>2, <3>1, <3>2, <4>1 DEF Typed, TypeOK
      <4>2. CASE u # m.user
        BY <2>2, <3>2, <4>2 DEF IInv, FileIsCommitted, Typed, TypeOK
      <4> QED BY <4>1, <4>2
    <3> QED BY <3>2, <2>2 DEF FileIsCommitted
  <2>5. /\ \A u \in Users : u # m.user => ~Writing(u)
        /\ \A u \in Users : ~Writing(u)'
        /\ leaseMap'[m.user].id = 0
    BY <2>1, <2>2 DEF Writing, Typed, TypeOK, NoLease
  <2>frame. ASSUME NEW u \in Users, u # m.user
         PROVE  /\ leaseMap'[u] = leaseMap[u]
                /\ disk'[u] = disk[u]
                /\ u \in torn' <=> u \in torn
    BY <2>2, <2>frame DEF Typed, TypeOK
  <2> HIDE DEF m
  <2>6. HoldersCurrent'
    <3>1. ASSUME NEW c \in Clients, HoldsLive(c)', who[c] \notin touched
          PROVE  (blank[c] <=> who[c] \in torn') /\ copy[c] = disk'[who[c]]
      <4>1. /\ pc[c] \in {"hold", "write"} /\ lid[c] # 0 /\ who[c] \in Users
            /\ leaseMap'[who[c]].id = lid[c]
        BY <3>1, <2>2, <2>3 DEF HoldsLive, Typed, HolderHasLease, TypeOK
      <4>2. who[c] # m.user
        BY <4>1, <2>5
      <4>3. /\ leaseMap'[who[c]] = leaseMap[who[c]]
            /\ disk'[who[c]] = disk[who[c]]
            /\ who[c] \in torn' <=> who[c] \in torn
        BY <4>1, <4>2, <2>frame
      <4>4. ~Writing(who[c])
        BY <4>1, <4>2, <2>5
      <4>5. HoldsLive(c)
        BY <4>1, <4>3 DEF HoldsLive
      <4>6. (blank[c] <=> who[c] \in torn) /\ copy[c] = disk[who[c]]
        BY <3>1, <4>4, <4>5 DEF IInv, HoldersCurrent
      <4> QED BY <4>3, <4>6
    <3> QED BY <3>1, <2>2 DEF HoldersCurrent
  <2>7. RequestsCurrent'
    <3>1. ASSUME NEW r \in writeReqs, leaseMap'[r.user].id = r.lid,
                 r.user \notin touched
          PROVE  (r.blank <=> r.user \in torn')
                 /\ r.copy = disk'[r.user] \cup {r.lid}
      <4>1. r.lid # 0 /\ r.user \in Users
        BY DEF Typed, TypeOK, WriteReq, LeaseIds
      <4>2. r.user # m.user
        BY <3>1, <4>1, <2>5
      <4>3. /\ leaseMap'[r.user] = leaseMap[r.user]
            /\ disk'[r.user] = disk[r.user]
            /\ r.user \in torn' <=> r.user \in torn
        BY <4>1, <4>2, <2>frame
      <4>4. ~Writing(r.user)
        BY <4>1, <4>2, <2>5
      <4>5. (r.blank <=> r.user \in torn) /\ r.copy = disk[r.user] \cup {r.lid}
        BY <3>1, <4>3, <4>4 DEF IInv, RequestsCurrent
      <4> QED BY <4>3, <4>5
    <3> QED BY <3>1, <2>2 DEF RequestsCurrent
  <2>8. IdsHandedOut'
    <3>1. nextLease \in Nat /\ nextLease > 0
      BY DEF Typed, TypeOK
    <3> QED BY <3>1, <2>2, <2>3, <2>5, <2>frame DEF IInv, IdsHandedOut
  <2>9. RequestsMatch'
    BY <2>2, <2>3 DEF IInv, RequestsMatch, Typed, TypeOK, LeaseReq
  <2>10. TornForAReason'
    BY <2>2, <2>5, <2>frame DEF IInv, TornForAReason, Typed, TypeOK
  <2> QED BY <2>2, <2>4, <2>6, <2>7, <2>8, <2>9, <2>10
          DEF IInv, WritingCurrent, LeasedRecordIntact
<1>6. ASSUME NEW c \in Clients, NEW u \in Users, StartLease(c, u)
      PROVE IInv'
  <2>1. /\ pc' = [pc EXCEPT ![c] = "lease"] /\ who' = [who EXCEPT ![c] = u]
        /\ seq' = [seq EXCEPT ![c] = @ + 1]
        /\ leaseReqs' = leaseReqs \cup
             {[client |-> c, seq |-> seq[c] + 1, user |-> u]}
        /\ UNCHANGED <<lid, copy, blank, leaseMap, nextLease, writeReqs,
                       writing, disk, torn, committed, admin, touched, crashes>>
    BY <1>6 DEF StartLease
  <2>2. RequestsMatch'
    BY <2>1 DEF IInv, RequestsMatch, Typed, TypeOK, LeaseReq
  <2>3. HoldersCurrent' /\ IdsHandedOut'
    BY <2>1 DEF IInv, HoldersCurrent, HoldsLive, IdsHandedOut, Writing,
                Typed, TypeOK
  <2> QED BY <2>1, <2>2, <2>3
          DEF IInv, RequestsCurrent, WritingCurrent, TornForAReason, Writing,
              FileIsCommitted, LeasedRecordIntact
<1>7. ASSUME NEW c \in Clients, StartWrite(c) PROVE IInv'
  <2>1. /\ pc[c] = "hold" /\ pc' = [pc EXCEPT ![c] = "write"]
        /\ seq' = [seq EXCEPT ![c] = @ + 1]
        /\ writeReqs' = writeReqs \cup {WriteReqOf(c)}
        /\ UNCHANGED <<who, lid, copy, blank, leaseMap, nextLease, leaseReqs,
                       writing, disk, torn, committed, admin, touched, crashes>>
    BY <1>7 DEF StartWrite
  <2>2. RequestsMatch'
    BY <2>1 DEF IInv, RequestsMatch, Typed, TypeOK, LeaseReq
  <2>3. HoldersCurrent' /\ IdsHandedOut'
    BY <2>1 DEF IInv, HoldersCurrent, HoldsLive, IdsHandedOut, Writing,
                Typed, TypeOK, WriteReqOf
  <2>4. RequestsCurrent'
    <3>1. ASSUME NEW m \in writeReqs PROVE RequestsCurrent!(m)'
      BY <3>1, <2>1 DEF IInv, RequestsCurrent, Writing
    <3>2. ASSUME NEW m, m = WriteReqOf(c) PROVE RequestsCurrent!(m)'
      BY <3>2, <2>1 DEF IInv, WriteReqOf, HoldersCurrent, HoldsLive, Writing
    <3> QED BY <2>1, <3>1, <3>2 DEF RequestsCurrent
  <2> QED BY <2>1, <2>2, <2>3, <2>4
          DEF IInv, WritingCurrent, TornForAReason, Writing,
              FileIsCommitted, LeasedRecordIntact
<1>8. ASSUME NEW c \in Clients, Abandon(c) PROVE IInv'
  <2>1. /\ pc' = [pc EXCEPT ![c] = "idle"]
        /\ UNCHANGED <<who, lid, copy, blank, seq, leaseMap, nextLease,
                       leaseReqs, writeReqs, writing, disk, torn, committed,
                       admin, touched, crashes>>
    BY <1>8 DEF Abandon, serverVars
  <2>2. RequestsMatch' /\ HoldersCurrent' /\ IdsHandedOut'
    BY <2>1 DEF IInv, RequestsMatch, HoldersCurrent, HoldsLive, IdsHandedOut,
                Writing, Typed, TypeOK
  <2> QED BY <2>1, <2>2
          DEF IInv, RequestsCurrent, WritingCurrent, TornForAReason, Writing,
              FileIsCommitted, LeasedRecordIntact
<1>9. ASSUME NEW c \in Clients, CallFails(c) PROVE IInv'
  BY <1>9, RetryInv DEF CallFails, unchangedByRetry, LeasesDropped
<1>10. ASSUME NEW u \in Users, LeaseAges(u) PROVE IInv'
  <2>1. /\ \A v \in Users : leaseMap'[v].id = leaseMap[v].id
        /\ UNCHANGED <<pc, who, lid, copy, blank, seq, nextLease, leaseReqs,
                       writeReqs, writing, disk, torn, committed, admin,
                       touched, crashes>>
    BY <1>10 DEF LeaseAges, clientVars, Typed, TypeOK
  <2>2. /\ \A c \in Clients : who[c] \in Users
        /\ \A m \in writeReqs : m.user \in Users
    BY DEF Typed, TypeOK, WriteReq
  <2> QED BY <2>1, <2>2
          DEF IInv, RequestsMatch, HoldersCurrent, HoldsLive, IdsHandedOut,
              RequestsCurrent, WritingCurrent, TornForAReason, Writing,
              FileIsCommitted, LeasedRecordIntact
<1>11. ASSUME NEW u \in Users, AdminLoad(u) PROVE IInv'
  BY <1>11 DEF AdminLoad, serverVars, clientVars,
              IInv, RequestsMatch, HoldersCurrent, HoldsLive, IdsHandedOut,
              RequestsCurrent, WritingCurrent, TornForAReason, Writing,
              FileIsCommitted, LeasedRecordIntact
<1>12. CASE AdminTruncate
  <2>1. /\ admin # None /\ admin \in AdminSave /\ admin.user \in Users
        /\ admin' = [admin EXCEPT !.truncated = TRUE]
        /\ torn' = torn \cup {admin.user}
        /\ disk' = [disk EXCEPT ![admin.user] = {}]
        /\ touched' = touched \cup {admin.user}
        /\ UNCHANGED <<pc, who, lid, copy, blank, seq, leaseMap, nextLease,
                       leaseReqs, writeReqs, writing, committed, crashes>>
    BY <1>12 DEF AdminTruncate, Typed, TypeOK, AdminSave, serverVars, clientVars
  <2>2. HoldersCurrent' /\ RequestsCurrent' /\ WritingCurrent'
    BY <2>1 DEF IInv, HoldersCurrent, HoldsLive, RequestsCurrent,
                WritingCurrent, Writing, Typed, TypeOK, WriteReq
  <2>3. TornForAReason' /\ FileIsCommitted' /\ LeasedRecordIntact'
    BY <2>1 DEF IInv, TornForAReason, Writing, FileIsCommitted,
                LeasedRecordIntact, Typed, TypeOK, AdminSave
  <2> QED BY <2>1, <2>2, <2>3 DEF IInv, IdsHandedOut, RequestsMatch
<1>13. CASE AdminEncode
  <2>1. /\ admin # None /\ admin.user \in touched /\ admin' = None
        /\ torn' = torn \ {admin.user}
        /\ disk' = [disk EXCEPT ![admin.user] = admin.copy]
        /\ UNCHANGED <<pc, who, lid, copy, blank, seq, leaseMap, nextLease,
                       leaseReqs, writeReqs, writing, committed, touched,
                       crashes>>
    BY <1>13 DEF AdminEncode, serverVars, clientVars, IInv, TornForAReason
  <2>2. HoldersCurrent' /\ RequestsCurrent' /\ WritingCurrent'
    BY <2>1 DEF IInv, HoldersCurrent, HoldsLive, RequestsCurrent,
                WritingCurrent, Writing, Typed, TypeOK, WriteReq
  <2>3. TornForAReason' /\ FileIsCommitted' /\ LeasedRecordIntact'
    BY <2>1 DEF IInv, TornForAReason, Writing, FileIsCommitted,
                LeasedRecordIntact, Typed, TypeOK
  <2> QED BY <2>1, <2>2, <2>3 DEF IInv, IdsHandedOut, RequestsMatch
<1>14. CASE Crash
  <2>1. /\ crashes' = crashes + 1 /\ crashes' > 0
        /\ leaseMap' = [u \in Users |-> NoLease]
        /\ leaseReqs' = {} /\ writeReqs' = {} /\ writing' = None /\ admin' = None
        /\ UNCHANGED <<nextLease, pc, who, lid, copy, blank, seq, disk, torn,
                       committed, touched>>
    BY <1>14 DEF Crash, Typed, TypeOK
  <2>2. HoldersCurrent' /\ IdsHandedOut'
    BY <2>1 DEF HoldersCurrent, HoldsLive, IdsHandedOut, IInv, NoLease,
                Typed, TypeOK, HolderHasLease
  <2> QED BY <2>1, <2>2
          DEF IInv, RequestsMatch, RequestsCurrent, WritingCurrent,
              TornForAReason, Writing, FileIsCommitted, LeasedRecordIntact
<1>15. CASE UNCHANGED vars
  BY <1>15 DEF vars, serverVars, clientVars,
              IInv, RequestsMatch, HoldersCurrent, HoldsLive, IdsHandedOut,
              RequestsCurrent, WritingCurrent, TornForAReason, Writing,
              FileIsCommitted, LeasedRecordIntact
<1> QED BY <1>1, <1>2, <1>3, <1>4, <1>5, <1>6, <1>7, <1>8, <1>9, <1>10,
           <1>11, <1>12, <1>13, <1>14, <1>15, <1>2a DEF Next, Server

\* The types and the strengthened invariant hold in every reachable state.
LEMMA Inductive == Spec => [](Typed /\ IInv)
<1>1. Init => Typed
  BY TypeInit DEF Init, Typed, HolderHasLease
<1> QED BY <1>1, InvInit, TypeStep, InvStep, PTL DEF Spec

\* No update that db-server accepted is ever lost, unless by a crash in the
\* middle of a write or by the web form.
THEOREM NoLostUpdate == Spec => []FileIsCommitted
<1>1. IInv => FileIsCommitted
  BY DEF IInv
<1> QED BY <1>1, Inductive, PTL

\* Whoever holds the remembered lease works on the record as stored.
THEOREM LeaseSnapshot == Spec => []LiveLeaseIsCurrent
<1>1. Typed /\ IInv => LiveLeaseIsCurrent
  BY DEF Typed, TypeOK, IInv, LiveLeaseIsCurrent, HoldersCurrent, HoldsLive,
         WritingCurrent, Writing
<1> QED BY <1>1, Inductive, PTL

\* A torn file is never handed out without a crash or the web form.
THEOREM NoTornLease == Spec => []LeasedRecordIntact
<1>1. IInv => LeasedRecordIntact
  BY DEF IInv
<1> QED BY <1>1, Inductive, PTL
=============================================================================
