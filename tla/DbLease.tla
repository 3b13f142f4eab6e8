------------------------------ MODULE DbLease ------------------------------
(***************************************************************************)
(* db-server: one file per user, changed only through a lease.  A caller   *)
(* leases the user's record (CommitLease loads the file and remembers a    *)
(* fresh lease id), changes its copy and sends the copy back (CommitWrite  *)
(* accepts it only under the lease id it remembers).  One goroutine,       *)
(* ProcessLeaseWriteRequest, takes the requests one by one; the callers    *)
(* (match-server's SETNICKNAME, reward-server's battle statistics) reach   *)
(* it by an RPC that is sent again after an error, and the web form of     *)
(* dbadmin writes the same files without any lease.                        *)
(*                                                                         *)
(* The contents of a file are the set of updates it reflects; the update   *)
(* made under lease l is named l.  A file whose writer has truncated it    *)
(* and not yet encoded the record is torn: a load ignores the decoding     *)
(* error and returns the zero record, whose Id is nobody's.                *)
(***************************************************************************)
EXTENDS Naturals

CONSTANTS
  Users,     \* the users, one file each
  Clients,   \* goroutines of other servers that lease and write
  None,      \* "nothing", for variables that hold a request or nothing
  MaxTries,  \* how often an RPC is sent again (2 in the code)
  MaxRpc,    \* bound: requests a client sends in a behaviour
  MaxLease,  \* bound: leases granted in a behaviour
  MaxCrash   \* bound: crashes of db-server in a behaviour

ASSUME BoundsAreNaturals ==
  /\ MaxTries \in Nat /\ MaxRpc \in Nat /\ MaxLease \in Nat /\ MaxCrash \in Nat

VARIABLES
  disk,       \* per user, the updates its file reflects
  torn,       \* users whose file is truncated and not yet encoded
  leaseMap,   \* per user, the lease remembered (id 0: none)
  nextLease,  \* the next fresh lease id
  leaseReqs, writeReqs,   \* RPC requests that reached the server
  writing,    \* the write request CommitWrite is in the middle of
  pc, who, lid, copy, blank, tries, seq,   \* each client: see TypeOK
  broken,     \* clients whose connection died under their call
  admin,      \* the save handler of dbadmin
  touched,    \* users dbadmin has written
  crashes,    \* crashes so far
  committed,  \* per user, the updates CommitWrite answered with success
  acked       \* per user, the updates whose client saw that success

serverVars == <<leaseMap, nextLease, leaseReqs, writeReqs, writing>>
clientVars == <<pc, who, lid, copy, blank, tries, seq, broken>>
fileVars == <<disk, torn>>
historyVars == <<committed, acked>>
vars == <<serverVars, clientVars, fileVars, historyVars,
          admin, touched, crashes>>

LeaseIds == 1 .. MaxLease
NoLease == [id |-> 0, old |-> FALSE]
LeaseReq == [client : Clients, seq : 1 .. MaxRpc, user : Users]
WriteReq == [client : Clients, seq : 1 .. MaxRpc, user : Users,
             lid : LeaseIds, copy : SUBSET LeaseIds, blank : BOOLEAN]
AdminSave == [user : Users, copy : SUBSET LeaseIds, truncated : BOOLEAN]

ASSUME NoneIsNoRecord == None \notin WriteReq /\ None \notin AdminSave

TypeOK ==
  /\ disk \in [Users -> SUBSET LeaseIds]
  /\ torn \in SUBSET Users
  /\ leaseMap \in [Users -> [id : {0} \cup LeaseIds, old : BOOLEAN]]
  /\ nextLease \in 1 .. (MaxLease + 1)
  /\ leaseReqs \in SUBSET LeaseReq
  /\ writeReqs \in SUBSET WriteReq
  /\ writing \in WriteReq \cup {None}
  /\ pc \in [Clients -> {"idle", "lease", "hold", "write"}]
  /\ who \in [Clients -> Users]            \* the user it works on
  /\ lid \in [Clients -> {0} \cup LeaseIds]   \* the lease it was given
  /\ copy \in [Clients -> SUBSET LeaseIds]    \* its copy of the record
  /\ blank \in [Clients -> BOOLEAN]        \* the copy is the zero record
  /\ tries \in [Clients -> 0 .. MaxTries]  \* sends left in this call
  /\ seq \in [Clients -> 0 .. MaxRpc]      \* number of its last request
  /\ broken \in SUBSET Clients
  /\ admin \in AdminSave \cup {None}
  /\ touched \in SUBSET Users
  /\ crashes \in 0 .. MaxCrash
  /\ committed \in [Users -> SUBSET LeaseIds]
  /\ acked \in [Users -> SUBSET LeaseIds]

Init ==
  /\ disk = [u \in Users |-> {}]
  /\ torn = {}
  /\ leaseMap = [u \in Users |-> NoLease]
  /\ nextLease = 1
  /\ leaseReqs = {} /\ writeReqs = {} /\ writing = None
  /\ pc = [c \in Clients |-> "idle"]
  /\ who \in [Clients -> Users]
  /\ lid = [c \in Clients |-> 0]
  /\ copy = [c \in Clients |-> {}]
  /\ blank = [c \in Clients |-> FALSE]
  /\ tries = [c \in Clients |-> 0]
  /\ seq = [c \in Clients |-> 0]
  /\ broken = {}
  /\ admin = None /\ touched = {} /\ crashes = 0
  /\ committed = [u \in Users |-> {}]
  /\ acked = [u \in Users |-> {}]

-----------------------------------------------------------------------------
(* The client side of an RPC: rpchelper's callWithRetry.                   *)

\* The requests client c's next send puts in flight.
LeaseReqOf(c) == [client |-> c, seq |-> seq[c] + 1, user |-> who[c]]
WriteReqOf(c) == [client |-> c, seq |-> seq[c] + 1, user |-> who[c],
                  lid |-> lid[c], copy |-> copy[c] \cup {lid[c]},
                  blank |-> blank[c]]

\* The client still waits for the answer to request m.
Awaited(m) == pc[m.client] \in {"lease", "write"} /\ seq[m.client] = m.seq

\* callWithRetry's loop goes on when n of its tries are left.
MayResend(n) == n > 0

\* Client c's call failed and leases, writes are what else is in flight: if
\* the error allows it (again), the request is sent again; otherwise the call
\* gives up and its handler returns.
RetryOrGiveUp(c, again, leases, writes) ==
  /\ broken' = broken \ {c}
  /\ IF again /\ MayResend(tries[c]) /\ seq[c] < MaxRpc
     THEN /\ tries' = [tries EXCEPT ![c] = @ - 1]
          /\ seq' = [seq EXCEPT ![c] = @ + 1]
          /\ leaseReqs' = leases \cup (IF pc[c] = "lease"
                                       THEN {LeaseReqOf(c)} ELSE {})
          /\ writeReqs' = writes \cup (IF pc[c] = "write"
                                       THEN {WriteReqOf(c)} ELSE {})
          /\ UNCHANGED pc
     ELSE /\ pc' = [pc EXCEPT ![c] = "idle"]
          /\ tries' = [tries EXCEPT ![c] = 0]
          /\ leaseReqs' = leases /\ writeReqs' = writes
          /\ UNCHANGED seq

\* Fault: the goroutine drops the request without an answer.
AnswerNothing(m, again, leases, writes) ==
  /\ leaseReqs' = leases /\ writeReqs' = writes
  /\ UNCHANGED clientVars

\* The server answers request m with an error, after which the caller tries
\* again or not.
AnswerError(m, again, leases, writes) ==
  /\ IF Awaited(m) THEN RetryOrGiveUp(m.client, again, leases, writes)
     ELSE /\ leaseReqs' = leases /\ writeReqs' = writes
          /\ UNCHANGED <<pc, tries, seq, broken>>
  /\ UNCHANGED <<who, lid, copy, blank>>

\* A handler starts: it asks for the lease of user u.
StartLease(c, u) ==
  /\ pc[c] = "idle" /\ seq[c] < MaxRpc
  /\ pc' = [pc EXCEPT ![c] = "lease"]
  /\ who' = [who EXCEPT ![c] = u]
  /\ tries' = [tries EXCEPT ![c] = MaxTries]
  /\ seq' = [seq EXCEPT ![c] = @ + 1]
  /\ leaseReqs' = leaseReqs \cup
       {[client |-> c, seq |-> seq[c] + 1, user |-> u]}
  /\ UNCHANGED <<lid, copy, blank, broken, leaseMap, nextLease, writeReqs,
                 writing, fileVars, historyVars, admin, touched, crashes>>

\* The handler has changed its copy and sends it back.
StartWrite(c) ==
  /\ pc[c] = "hold" /\ seq[c] < MaxRpc
  /\ pc' = [pc EXCEPT ![c] = "write"]
  /\ tries' = [tries EXCEPT ![c] = MaxTries]
  /\ seq' = [seq EXCEPT ![c] = @ + 1]
  /\ writeReqs' = writeReqs \cup {WriteReqOf(c)}
  /\ UNCHANGED <<who, lid, copy, blank, broken, leaseMap, nextLease,
                 leaseReqs, writing, fileVars, historyVars, admin, touched, crashes>>

\* SETNICKNAME refuses the new name and returns without giving the lease back.
Abandon(c) ==
  /\ pc[c] = "hold"
  /\ pc' = [pc EXCEPT ![c] = "idle"]
  /\ UNCHANGED <<who, lid, copy, blank, tries, seq, broken, serverVars,
                 fileVars, historyVars, admin, touched, crashes>>

\* The connection breaks under a call.  Its request, if the server has read
\* it, is still served; the answer finds nobody.
CallFails(c) ==
  /\ pc[c] \in {"lease", "write"}
  /\ RetryOrGiveUp(c, TRUE, leaseReqs, writeReqs)
  /\ UNCHANGED <<who, lid, copy, blank, leaseMap, nextLease, writing,
                 fileVars, historyVars, admin, touched, crashes>>

-----------------------------------------------------------------------------
(* The server: one goroutine serves lease and write requests in turn.      *)

\* Fault: requests are served concurrently with a write.
AlwaysReceiving == TRUE

\* The goroutine is at its receive, not inside CommitWrite.
Receiving == writing = None

\* CommitLease: no lease is remembered, or the one there is older than a
\* second and is dropped.
GrantLease(m) ==
  /\ Receiving /\ m \in leaseReqs
  /\ leaseMap[m.user].id = 0 \/ leaseMap[m.user].old
  /\ nextLease <= MaxLease
  /\ leaseMap' = [leaseMap EXCEPT ![m.user] = [id |-> nextLease, old |-> FALSE]]
  /\ nextLease' = nextLease + 1
  /\ leaseReqs' = leaseReqs \ {m}
  /\ IF Awaited(m)
     THEN /\ pc' = [pc EXCEPT ![m.client] = "hold"]
          /\ lid' = [lid EXCEPT ![m.client] = nextLease]
          /\ copy' = [copy EXCEPT ![m.client] = disk[m.user]]
          /\ blank' = [blank EXCEPT ![m.client] = m.user \in torn]
          /\ tries' = [tries EXCEPT ![m.client] = 0]
     ELSE UNCHANGED <<pc, lid, copy, blank, tries>>
  /\ UNCHANGED <<who, seq, broken, writeReqs, writing, fileVars,
                 historyVars, admin, touched, crashes>>

\* CommitLease: "already leased".
RefuseLease(m) ==
  /\ Receiving /\ m \in leaseReqs
  /\ leaseMap[m.user].id # 0 /\ ~leaseMap[m.user].old
  /\ AnswerError(m, TRUE, leaseReqs \ {m}, writeReqs)
  /\ UNCHANGED <<leaseMap, nextLease, writing, fileVars, historyVars,
                 admin, touched, crashes>>

\* CommitLease: the user's file cannot be opened, or is not there, which is
\* the one error that callWithRetry returns at once.  A lease that was too
\* old is gone all the same.
FailLease(m) ==
  /\ Receiving /\ m \in leaseReqs
  /\ leaseMap[m.user].id = 0 \/ leaseMap[m.user].old
  /\ leaseMap' = [leaseMap EXCEPT ![m.user] = NoLease]
  /\ \E again \in BOOLEAN : AnswerError(m, again, leaseReqs \ {m}, writeReqs)
  /\ UNCHANGED <<nextLease, writing, fileVars, historyVars, admin, touched,
                 crashes>>

\* Fault: a record is written under whatever lease.
LeaseUnchecked(m) == ~m.blank

\* CommitWrite looks the lease up under the Id inside the record: a zero
\* record finds none.
LeaseMatches(m) == ~m.blank /\ leaseMap[m.user].id = m.lid

\* CommitWrite, first half: the lease matches and WriteUserDb truncates.
BeginWrite(m) ==
  /\ Receiving /\ m \in writeReqs
  /\ LeaseMatches(m)
  /\ writing' = m
  /\ writeReqs' = writeReqs \ {m}
  /\ torn' = torn \cup {m.user}
  /\ disk' = [disk EXCEPT ![m.user] = {}]
  /\ UNCHANGED <<leaseMap, nextLease, leaseReqs, clientVars, historyVars,
                 admin, touched, crashes>>

\* Fault: the lease stays after the write.
LeasesAfterKept(u) == leaseMap

\* The lease table once user u's record is written.
LeasesAfter(u) == [leaseMap EXCEPT ![u] = NoLease]

\* CommitWrite, second half: the record is encoded, the lease dropped and
\* the caller told.
EndWrite ==
  /\ writing # None
  /\ LET m == writing IN
     /\ disk' = [disk EXCEPT ![m.user] = m.copy]
     /\ torn' = torn \ {m.user}
     /\ leaseMap' = LeasesAfter(m.user)
     /\ committed' = [committed EXCEPT ![m.user] = @ \cup {m.lid}]
     /\ IF Awaited(m)
        THEN /\ pc' = [pc EXCEPT ![m.client] = "idle"]
             /\ acked' = [acked EXCEPT ![m.user] = @ \cup {m.lid}]
             /\ tries' = [tries EXCEPT ![m.client] = 0]
        ELSE UNCHANGED <<pc, acked, tries>>
  /\ writing' = None
  /\ UNCHANGED <<nextLease, leaseReqs, writeReqs, who, lid, copy, blank,
                 seq, broken, admin, touched, crashes>>

\* CommitWrite: "lease not match" or "lease not found".
RefuseWrite(m) ==
  /\ Receiving /\ m \in writeReqs
  /\ ~LeaseMatches(m)
  /\ AnswerError(m, TRUE, leaseReqs, writeReqs \ {m})
  /\ UNCHANGED <<leaseMap, nextLease, writing, fileVars, historyVars,
                 admin, touched, crashes>>

\* More than a second has passed since user u's lease was granted.
LeaseAges(u) ==
  /\ leaseMap[u].id # 0 /\ ~leaseMap[u].old
  /\ leaseMap' = [leaseMap EXCEPT ![u].old = TRUE]
  /\ UNCHANGED <<nextLease, leaseReqs, writeReqs, writing, clientVars,
                 fileVars, historyVars, admin, touched, crashes>>

\* db-server dies and is started again: leases and requests are gone, the
\* files stay as they are.
Crash ==
  /\ crashes < MaxCrash
  /\ crashes' = crashes + 1
  /\ leaseMap' = [u \in Users |-> NoLease]
  /\ leaseReqs' = {} /\ writeReqs' = {} /\ writing' = None
  /\ broken' = {c \in Clients : pc[c] \in {"lease", "write"}}
  /\ admin' = None
  /\ UNCHANGED <<nextLease, pc, who, lid, copy, blank, tries, seq, fileVars, historyVars, touched>>

-----------------------------------------------------------------------------
(* dbadmin's saveHandler: load, change, write, and never a lease.  A torn   *)
(* file loads as the zero record, which is written to another file.         *)

AdminLoad(u) ==
  /\ admin = None /\ u \notin torn
  /\ admin' = [user |-> u, copy |-> disk[u], truncated |-> FALSE]
  /\ UNCHANGED <<serverVars, clientVars, fileVars, historyVars, touched,
                 crashes>>

AdminTruncate ==
  /\ admin # None /\ ~admin.truncated
  /\ admin' = [admin EXCEPT !.truncated = TRUE]
  /\ torn' = torn \cup {admin.user}
  /\ disk' = [disk EXCEPT ![admin.user] = {}]
  /\ touched' = touched \cup {admin.user}
  /\ UNCHANGED <<serverVars, clientVars, historyVars, crashes>>

AdminEncode ==
  /\ admin # None /\ admin.truncated
  /\ torn' = torn \ {admin.user}
  /\ disk' = [disk EXCEPT ![admin.user] = admin.copy]
  /\ admin' = None
  /\ UNCHANGED <<serverVars, clientVars, historyVars, touched, crashes>>

-----------------------------------------------------------------------------
Server ==
  \/ \E m \in leaseReqs : GrantLease(m) \/ RefuseLease(m) \/ FailLease(m)
  \/ \E m \in writeReqs : BeginWrite(m) \/ RefuseWrite(m)
  \/ EndWrite

Next ==
  \/ Server
  \/ \E c \in Clients, u \in Users : StartLease(c, u)
  \/ \E c \in Clients : StartWrite(c) \/ Abandon(c) \/ CallFails(c)
  \/ \E u \in Users : LeaseAges(u) \/ AdminLoad(u)
  \/ AdminTruncate \/ AdminEncode
  \/ Crash

Spec == Init /\ [][Next]_vars

\* The goroutine serves the requests it receives, and a client notices that
\* its connection is dead.
FairSpec ==
  Spec /\ WF_vars(Server) /\ WF_vars(\E c \in broken : CallFails(c))

-----------------------------------------------------------------------------
\* No lost update: unless a crash left the file torn or the web form wrote
\* over it, a file reflects exactly the updates CommitWrite accepted,
\* however leases expire, leak, are asked for twice or are used late.
FileIsCommitted ==
  \A u \in Users \ (torn \cup touched) : disk[u] = committed[u]

\* Client c could commit now: db-server still remembers its lease.  (A
\* waiting writer's copy is the record as leased; its request has the update.)
HoldsLive(c) ==
  pc[c] \in {"hold", "write"} /\ leaseMap[who[c]].id = lid[c]

\* A client whose lease is still remembered works on the record as it is in
\* the file, even after leases before it expired and their holders wrote.
LiveLeaseIsCurrent ==
  \A c \in Clients :
    HoldsLive(c) /\ who[c] \notin touched =>
      IF blank[c] THEN who[c] \in torn
      ELSE who[c] \notin torn => copy[c] = disk[who[c]]

\* CommitLease never loads a file that CommitWrite has truncated and not yet
\* encoded: without a crash and without the web form nobody is ever handed
\* the zero record.
LeasedRecordIntact ==
  \A c \in Clients :
    blank[c] => crashes > 0 \/ touched # {}

-----------------------------------------------------------------------------
(* The inductive invariant behind these three.                             *)

Writing(u) == writing # None /\ writing.user = u

\* Every lease id in use was handed out before.
IdsHandedOut ==
  /\ \A u \in Users : leaseMap[u].id < nextLease
  /\ \A m \in writeReqs : m.lid < nextLease
  /\ \A c \in Clients :
       pc[c] \in {"hold", "write"} => lid[c] < nextLease

\* A lease request that is still the client's last is about its user, and
\* has not been granted.
RequestsMatch ==
  \A m \in leaseReqs :
    /\ m.seq <= seq[m.client]
    /\ m.seq = seq[m.client] => /\ m.user = who[m.client]
                               /\ pc[m.client] \in {"lease", "idle"}

\* A copy taken under the remembered lease is the file as it is.
HoldersCurrent ==
  \A c \in Clients :
    HoldsLive(c) /\ who[c] \notin touched /\ ~Writing(who[c]) =>
      /\ blank[c] <=> who[c] \in torn
      /\ copy[c] = disk[who[c]]

\* So is a write request under the remembered lease, plus its own update.
RequestsCurrent ==
  \A m \in writeReqs :
    /\ leaseMap[m.user].id = m.lid
    /\ m.user \notin touched /\ ~Writing(m.user)
    => /\ m.blank <=> m.user \in torn
       /\ m.copy = disk[m.user] \cup {m.lid}

\* The record being written adds one update to what was committed.
WritingCurrent ==
  writing # None /\ writing.user \notin touched =>
    /\ writing.user \in torn
    /\ writing.copy = committed[writing.user] \cup {writing.lid}

\* A file is torn while it is written, after a crash, or by the web form.
TornForAReason ==
  /\ \A u \in torn \ touched : Writing(u) \/ crashes > 0
  /\ admin # None => (admin.truncated => admin.user \in touched)

IInv ==
  /\ IdsHandedOut
  /\ RequestsMatch
  /\ HoldersCurrent
  /\ RequestsCurrent
  /\ WritingCurrent
  /\ TornForAReason
  /\ FileIsCommitted
  /\ LeasedRecordIntact

-----------------------------------------------------------------------------
\* Every lease or write call returns: no caller is left waiting on the
\* goroutine's reply channel, through crashes and retries.
CallsReturn ==
  \A c \in Clients :
    pc[c] \in {"lease", "write"} ~> pc[c] \in {"idle", "hold"}
=============================================================================
