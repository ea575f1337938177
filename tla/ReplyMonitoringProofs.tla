------------------------ MODULE ReplyMonitoringProofs ------------------------
(***************************************************************************)
(* Proofs about ReplyMonitoring and the PlatformConnections it extends,    *)
(* for every set of clients, connections, platforms and results, any       *)
(* batch, and any number of faults.                                        *)
(*                                                                         *)
(* A request owns the credentials it brings, so the invariant of the       *)
(* connections follows what a row holds back to the answer its client      *)
(* got (StoredInv).                                                        *)
(***************************************************************************)
EXTENDS ReplyMonitoring, FiniteSetTheorems, TLAPS

Storing == {"create", "update", "account"}

Busy == {"read", "check", "write"}

\* A request that asks for a row to be written names its key, one that is about
\* a row names a row there is.
RequestInv ==
    \A k \in Clients :
        /\ request[k].pc \in Busy /\ request[k].op \in Storing => request[k].key \in Adapters
        /\ request[k].op \in {"update", "delete"} =>
              /\ request[k].conn \in Conns
              /\ conn[request[k].conn].life # "unused"

\* The row that a client inserts, and the credentials in a row, are there only
\* when their client was told so or its statement failed; a success that is not
\* stored any more was replaced; and a row that was deleted does not come back.
StoredInv ==
    /\ \A k \in Clients : conn[k].life # "unused" => request[k].pc \in {"ok", "failed"}
    /\ \A c \in Conns, k \in Clients : Kept(c) /\ conn[c].creds = k =>
          request[k].pc \in {"ok", "failed"}
    /\ \A k \in Clients : request[k].pc = "ok" /\ request[k].op \in Storing =>
          \/ \E c \in Conns : Kept(c) /\ conn[c].creds = k
          \/ k \in replaced
    /\ \A k \in Clients : request[k].pc = "ok" /\ request[k].op = "delete" =>
          ~Kept(request[k].conn)

ConnInv == ConnTypeOK /\ RequestInv /\ StoredInv

-----------------------------------------------------------------------------
(***************************************************************************)
(* The connections.                                                        *)
(***************************************************************************)

LEMMA IdleIsRequest == Idle \in RequestState
  BY DEF Idle, RequestState

LEMMA ConnInitial == ConnInit => ConnInv
  <1> SUFFICES ASSUME ConnInit PROVE ConnInv
    OBVIOUS
  <1>1. ConnTypeOK
    BY IdleIsRequest, GivenAssumption, LapsesAssumption
       DEF ConnInit, ConnTypeOK, NoRow, Conns
  <1>2. RequestInv
    BY DEF ConnInit, RequestInv, Idle, Storing
  <1>3. StoredInv
    BY GivenAssumption DEF ConnInit, StoredInv, Idle, Storing, NoRow, Kept, Conns
  <1> QED
    BY <1>1, <1>2, <1>3 DEF ConnInv

\* What is left of a request that is over.
LEMMA RequestOver ==
  ASSUME ConnTypeOK, NEW k \in Clients, NEW pc \in {"ok", "refused", "failed", "cut"}
  PROVE  /\ Over(k, pc) \in RequestState
         /\ Over(k, pc).pc = pc
         /\ pc = "ok" => /\ Over(k, pc).op = request[k].op
                         /\ Over(k, pc).conn = request[k].conn
         /\ pc # "ok" => Over(k, pc).op = "none"
  BY IdleIsRequest DEF Over, Idle, ConnTypeOK, RequestState

\* A request that goes on, or is over, without touching a row.
LEMMA AnswerOnly ==
  ASSUME ConnInv, NEW k \in Clients, NEW pc,
         \/ pc \in Busy /\ Continue(k, pc)
         \/ pc \in {"refused", "failed"} /\ Answer(k, pc),
         request[k].pc \in Busy, UNCHANGED <<conn, replaced>>,
         account' \subseteq Clients, lapses' \in 0..MaxLapses
  PROVE  ConnInv'
  <1> USE DEF ConnInv
  <1>1. request[k] \in RequestState
    BY DEF ConnTypeOK
  <1>2. /\ request'[k] \in RequestState
        /\ request' = [request EXCEPT ![k] = request'[k]]
        /\ request'[k].pc \notin {"ok", "idle"}
        /\ \/ request'[k].op = "none"
           \/ /\ request'[k].op = request[k].op
              /\ request'[k].conn = request[k].conn /\ request'[k].key = request[k].key
    <2>1. CASE pc \in Busy /\ Continue(k, pc)
      BY <1>1, <2>1 DEF Continue, Busy, ConnTypeOK, RequestState
    <2>2. CASE pc \in {"refused", "failed"} /\ Answer(k, pc)
      BY <1>1, <2>2, RequestOver DEF Answer, ConnTypeOK
    <2> QED
      BY <2>1, <2>2
  <1>3. ConnTypeOK'
    BY <1>2 DEF ConnTypeOK
  <1>4. RequestInv'
    BY <1>2 DEF RequestInv, ConnTypeOK, Storing, Busy
  <1>5. StoredInv'
    BY <1>2 DEF StoredInv, ConnTypeOK, Kept, Busy
  <1> QED
    BY <1>3, <1>4, <1>5

LEMMA AskKeeps ==
  ASSUME ConnInv, NEW k \in Clients, NEW op \in Storing \cup {"delete"},
         NEW c \in Conns \cup {None}, NEW key \in Adapters \cup {None},
         NEW enabled \in BOOLEAN, Ask(k, op, c, key, enabled),
         op \in Storing => key \in Adapters,
         op \in {"update", "delete"} => c \in Conns /\ conn[c].life # "unused"
  PROVE  ConnInv'
  <1> USE DEF ConnInv, Ask
  <1> DEFINE x == [op |-> op, pc |-> IF op = "delete" THEN "read" ELSE "check",
                   conn |-> c, key |-> key, enabled |-> enabled]
  <1>1. x \in RequestState
    BY DEF RequestState, Storing
  <1>2. /\ request' = [request EXCEPT ![k] = x]
        /\ request[k].pc = "idle"
        /\ UNCHANGED <<conn, account, replaced, lapses>>
    BY DEF Idle
  <1>3. x.op = op /\ x.conn = c /\ x.key = key /\ x.pc \in {"read", "check"}
    OBVIOUS
  <1> HIDE DEF x
  <1>4. ConnTypeOK'
    BY <1>1, <1>2 DEF ConnTypeOK
  <1>5. RequestInv'
    BY <1>2, <1>3 DEF RequestInv, ConnTypeOK
  <1>6. StoredInv'
    BY <1>2, <1>3 DEF StoredInv, ConnTypeOK, Kept
  <1> QED
    BY <1>4, <1>5, <1>6

\* A client's credentials are written to a row, its own new one or one there
\* is, whose credentials are replaced then.
LEMMA WriteKeeps ==
  ASSUME ConnInv, NEW k \in Clients, NEW c \in Conns, NEW pc \in {"ok", "failed"},
         request[k].pc = "write", request[k].op \in Storing,
         c # k => Kept(c),
         c # k => replaced' = replaced \cup {conn[c].creds},
         c = k => replaced' = replaced,
         conn' = [conn EXCEPT ![c] = Inserted(k)],
         Answer(k, pc), UNCHANGED account, lapses' \in 0..MaxLapses
  PROVE  ConnInv'
  <1> USE DEF ConnInv
  <1>1. request[k] \in RequestState /\ request[k].key \in Adapters
    BY DEF ConnTypeOK, RequestInv, Busy
  <1>2. /\ request'[k] \in RequestState
        /\ request' = [request EXCEPT ![k] = request'[k]]
        /\ request'[k].pc = pc
        /\ pc = "ok" => /\ request'[k].op = request[k].op
                        /\ request'[k].conn = request[k].conn
        /\ pc # "ok" => request'[k].op = "none"
    BY <1>1, RequestOver DEF Answer, ConnTypeOK
  <1>3. /\ Inserted(k) \in RowState
        /\ Inserted(k).life = "kept" /\ Inserted(k).creds = k
    BY <1>1, AdaptersAssumption DEF Inserted, RowState, RequestState, Conns
  <1>4. /\ \A o \in Conns \ {c} : conn'[o] = conn[o]
        /\ conn'[c] = Inserted(k)
        /\ DOMAIN conn' = Conns
    BY DEF ConnTypeOK
  <1>5. ConnTypeOK'
    <2>1. c # k => conn[c].creds \in Conns
      BY DEF ConnTypeOK, RowState, Kept
    <2> QED
      BY <1>2, <1>3, <1>4, <2>1 DEF ConnTypeOK
  <1>6. RequestInv'
    <2>1. \A o \in Conns : conn[o].life # "unused" => conn'[o].life # "unused"
      BY <1>3, <1>4
    <2>2. ASSUME NEW q \in Clients, q # k
          PROVE  request'[q] = request[q]
      BY <1>2, <2>2 DEF ConnTypeOK
    <2>3. request'[k].pc \notin Busy
      BY <1>2 DEF Busy
    <2> QED
      BY <1>2, <2>1, <2>2, <2>3 DEF RequestInv
  <1>7. StoredInv'
    <2>0. ASSUME NEW q \in Clients, q # k
          PROVE  request'[q] = request[q]
      BY <1>2, <2>0 DEF ConnTypeOK
    <2>1. \A q \in Clients : conn'[q].life # "unused" => request'[q].pc \in {"ok", "failed"}
      <3>1. ASSUME NEW q \in Clients, q # k, conn'[q].life # "unused"
            PROVE  conn[q].life # "unused"
        BY <1>4, <3>1 DEF Kept, Conns
      <3> QED
        BY <1>2, <2>0, <3>1 DEF StoredInv
    <2>2. \A o \in Conns, q \in Clients :
             Kept(o)' /\ conn'[o].creds = q => request'[q].pc \in {"ok", "failed"}
      BY <1>2, <1>3, <1>4, <2>0 DEF StoredInv, Kept
    <2>3. ASSUME NEW q \in Clients, request'[q].pc = "ok", request'[q].op \in Storing
          PROVE  (\E o \in Conns : Kept(o)' /\ conn'[o].creds = q) \/ q \in replaced'
      <3>1. CASE q = k
        BY <1>3, <1>4, <3>1 DEF Kept
      <3>2. CASE q # k
        <4>1. (\E o \in Conns : Kept(o) /\ conn[o].creds = q) \/ q \in replaced
          BY <2>0, <2>3, <3>2 DEF StoredInv
        <4>2. c = k => ~Kept(c)
          BY DEF StoredInv, Kept
        <4>3. replaced \subseteq replaced' /\ (c # k => conn[c].creds \in replaced')
          OBVIOUS
        <4> QED
          BY <1>4, <4>1, <4>2, <4>3 DEF Kept
      <3> QED
        BY <3>1, <3>2
    <2>4. ASSUME NEW q \in Clients, request'[q].pc = "ok", request'[q].op = "delete"
          PROVE  conn'[request'[q].conn].life # "kept"
      <3>1. q # k
        BY <1>2, <2>4 DEF Storing
      <3> DEFINE d == request[q].conn
      <3>2. request'[q] = request[q]
        BY <2>0, <3>1
      <3>3. d \in Conns /\ conn[d].life # "unused" /\ ~Kept(d)
        BY <2>4, <3>2 DEF RequestInv, StoredInv
      <3>4. d # c
        BY <3>3 DEF StoredInv
      <3>5. conn'[d] = conn[d]
        BY <1>4, <3>3, <3>4
      <3> QED
        BY <3>2, <3>3, <3>5 DEF Kept
    <2> QED
      BY <2>1, <2>2, <2>3, <2>4 DEF StoredInv, Kept
  <1> QED
    BY <1>5, <1>6, <1>7

LEMMA RemoveKeeps ==
  ASSUME ConnInv, NEW k \in Clients, RemoveConnection(k)
  PROVE  ConnInv'
  <1> USE DEF ConnInv
  <1> DEFINE c == request[k].conn
  <1>1. /\ request[k] \in RequestState /\ c \in Conns
        /\ request[k].pc = "write" /\ request[k].op = "delete"
        /\ conn[c].life # "unused"
    BY DEF ConnTypeOK, RequestInv, RemoveConnection
  <1>2. PICK pc \in {"ok", "failed"} : Answer(k, pc) /\ lapses' \in 0..MaxLapses
    BY LapsesAssumption DEF RemoveConnection, Committed, Lapse, ConnTypeOK
  <1>3. /\ request'[k] \in RequestState
        /\ request' = [request EXCEPT ![k] = request'[k]]
        /\ request'[k].pc = pc
        /\ request'[k].op \in {"delete", "none"}
        /\ request'[k].op = "delete" => request'[k].conn = c
    BY <1>1, <1>2, RequestOver DEF Answer, ConnTypeOK
  <1>4. ASSUME NEW q \in Clients, q # k
        PROVE  request'[q] = request[q]
    BY <1>3, <1>4 DEF ConnTypeOK
  <1>5. UNCHANGED account
    BY DEF RemoveConnection
  <1>6. CASE ~Kept(c)
    <2>1. UNCHANGED <<conn, replaced>>
      BY <1>6 DEF RemoveConnection
    <2>2. ConnTypeOK' /\ RequestInv'
      BY <1>1, <1>2, <1>3, <1>4, <1>5, <2>1 DEF ConnTypeOK, RequestInv, Busy
    <2>3. StoredInv'
      BY <1>1, <1>3, <1>4, <1>6, <2>1 DEF StoredInv, Kept, Storing
    <2> QED
      BY <2>2, <2>3
  <1>7. CASE Kept(c)
    <2>1. conn[c] \in RowState /\ conn[c].creds \in Conns
      BY <1>1, <1>7 DEF ConnTypeOK, Kept, RowState
    <2>2. /\ conn'[c] \in RowState /\ conn'[c].life = "deleted"
          /\ \A o \in Conns \ {c} : conn'[o] = conn[o]
          /\ DOMAIN conn' = Conns
          /\ replaced' = replaced \cup {conn[c].creds}
      BY <1>1, <1>7, <2>1 DEF RemoveConnection, ConnTypeOK, RowState
    <2>3. ConnTypeOK'
      BY <1>2, <1>3, <1>5, <2>1, <2>2 DEF ConnTypeOK
    <2>4. RequestInv'
      BY <1>1, <1>3, <1>4, <2>2 DEF RequestInv, Storing
    <2>5. StoredInv'
      <3>1. \A q \in Clients : conn'[q].life # "unused" =>
               request'[q].pc \in {"ok", "failed"}
        <4>1. \A q \in Clients : conn'[q].life # "unused" => conn[q].life # "unused"
          BY <1>1, <2>2 DEF Conns
        <4> QED
          BY <1>3, <1>4, <4>1 DEF StoredInv
      <3>2. \A o \in Conns, q \in Clients :
               Kept(o)' /\ conn'[o].creds = q => request'[q].pc \in {"ok", "failed"}
        BY <1>3, <1>4, <2>2 DEF StoredInv, Kept
      <3>3. ASSUME NEW q \in Clients, request'[q].pc = "ok", request'[q].op \in Storing
            PROVE  (\E o \in Conns : Kept(o)' /\ conn'[o].creds = q) \/ q \in replaced'
        <4>1. q # k
          BY <1>3, <3>3 DEF Storing
        <4>2. (\E o \in Conns : Kept(o) /\ conn[o].creds = q) \/ q \in replaced
          BY <1>4, <3>3, <4>1 DEF StoredInv
        <4> QED
          BY <2>2, <4>2 DEF Kept
      <3>4. ASSUME NEW q \in Clients, request'[q].pc = "ok", request'[q].op = "delete"
            PROVE  conn'[request'[q].conn].life # "kept"
        <4>1. CASE q = k
          BY <1>3, <2>2, <3>4, <4>1 DEF Kept
        <4>2. CASE q # k
          BY <1>4, <2>2, <3>4, <4>2 DEF StoredInv, RequestInv, Kept
        <4> QED
          BY <4>1, <4>2
      <3> QED
        BY <3>1, <3>2, <3>3, <3>4 DEF StoredInv, Kept
    <2> QED
      BY <2>3, <2>4, <2>5
  <1> QED
    BY <1>6, <1>7

LEMMA ConnNextKeeps ==
  ASSUME ConnInv, ConnNext
  PROVE  ConnInv'
  <1> PICK k \in Clients :
         \/ \E key \in Adapters, enabled \in BOOLEAN :
              \/ CreateConnection(k, key, enabled)
              \/ \E c \in Conns : UpdateConnection(k, c, key, enabled)
         \/ \E c \in Conns : DeleteConnection(k, c)
         \/ \E key \in Adapters : CreateAccount(k, key)
         \/ GetConnection(k) \/ ValidateCredentials(k) \/ MakeAccount(k)
         \/ InsertConnection(k) \/ WriteConnection(k) \/ RemoveConnection(k)
         \/ StatementFails(k)
    BY DEF ConnNext
  <1>0. /\ request[k] \in RequestState /\ k \in Conns
        /\ account \subseteq Clients /\ lapses \in 0..MaxLapses
        /\ MaxLapses \in Nat
    BY LapsesAssumption DEF ConnInv, ConnTypeOK, Conns
  <1>1. ASSUME NEW key \in Adapters, NEW enabled \in BOOLEAN,
               CreateConnection(k, key, enabled) \/ CreateAccount(k, key)
        PROVE  ConnInv'
    BY <1>1, AskKeeps DEF CreateConnection, CreateAccount, Storing
  <1>2. ASSUME NEW key \in Adapters, NEW enabled \in BOOLEAN, NEW c \in Conns,
               UpdateConnection(k, c, key, enabled)
        PROVE  ConnInv'
    BY <1>2, AskKeeps DEF UpdateConnection, Storing
  <1>3. ASSUME NEW c \in Conns, DeleteConnection(k, c)
        PROVE  ConnInv'
    BY <1>3, AskKeeps DEF DeleteConnection, Storing
  <1>4. CASE GetConnection(k) \/ ValidateCredentials(k)
    BY <1>0, <1>4, AnswerOnly DEF GetConnection, ValidateCredentials, Busy
  <1>5. CASE MakeAccount(k)
    <2>1. /\ request[k].pc = "check" /\ UNCHANGED <<conn, replaced>>
          /\ Continue(k, "write") \/ Answer(k, "refused")
          /\ account' \subseteq Clients
      BY <1>0, <1>5 DEF MakeAccount
    <2>2. lapses' \in 0..MaxLapses
      BY <1>0, <1>5 DEF MakeAccount, Lapse
    <2> QED
      BY <2>1, <2>2, AnswerOnly DEF Busy
  <1>6. CASE StatementFails(k)
    <2>1. lapses' \in 0..MaxLapses
      BY <1>0, <1>6 DEF StatementFails, Lapse
    <2> QED
      BY <1>0, <1>6, <2>1, AnswerOnly DEF StatementFails, Busy
  <1>7. ASSUME Committed(k)
        PROVE  \E pc \in {"ok", "failed"} : Answer(k, pc) /\ lapses' \in 0..MaxLapses
    BY <1>0, <1>7 DEF Committed, Lapse
  <1>8. CASE InsertConnection(k)
    <2>1. request[k].pc = "write" /\ request[k].op \in Storing
          /\ UNCHANGED <<account, replaced>>
      BY <1>8 DEF InsertConnection, Storing
    <2>2. CASE conn' = [conn EXCEPT ![k] = Inserted(k)] /\ Committed(k)
      BY <1>0, <1>7, <2>1, <2>2, WriteKeeps
    <2>3. CASE Answer(k, "refused") /\ UNCHANGED <<conn, lapses>>
      BY <1>0, <2>1, <2>3, AnswerOnly DEF Busy
    <2> QED
      BY <1>8, <2>2, <2>3 DEF InsertConnection
  <1>10. CASE WriteConnection(k)
    <2>1. /\ request[k].pc = "write" /\ request[k].op = "update"
          /\ request[k].op \in Storing
          /\ request[k].conn \in Conns /\ conn[request[k].conn].life # "unused"
          /\ UNCHANGED account
      BY <1>10 DEF WriteConnection, Storing, ConnInv, RequestInv
    <2>2. k # request[k].conn
      BY <2>1 DEF ConnInv, StoredInv
    <2>3. Changed(k) = Inserted(k)
      BY DEF Changed, Inserted
    <2>4. CASE /\ Kept(request[k].conn)
               /\ conn' = [conn EXCEPT ![request[k].conn] = Changed(k)]
               /\ replaced' = replaced \cup {conn[request[k].conn].creds}
               /\ Committed(k)
      BY <1>7, <2>1, <2>2, <2>3, <2>4, WriteKeeps
    <2>5. CASE Answer(k, "refused") /\ UNCHANGED <<conn, replaced, lapses>>
      BY <1>0, <2>1, <2>5, AnswerOnly DEF Busy
    <2> QED
      BY <1>10, <2>4, <2>5 DEF WriteConnection
  <1>9. CASE RemoveConnection(k)
    BY <1>9, RemoveKeeps
  <1> QED
    BY <1>1, <1>2, <1>3, <1>4, <1>5, <1>6, <1>8, <1>9, <1>10

\* The steps of the reply monitor, of users and of platforms.
LEMMA OthersKeep ==
  ASSUME ConnInv, Next, ~(ConnNext /\ UNCHANGED replyVars)
  PROVE  ConnInv'
  <1>1. UNCHANGED connVars /\ lapses' \in 0..MaxLapses => ConnInv'
    BY DEF connVars, ConnInv, ConnTypeOK, RequestInv, StoredInv, Kept
  <1>2. lapses \in 0..MaxLapses /\ MaxLapses \in Nat
    BY LapsesAssumption DEF ConnInv, ConnTypeOK
  <1>3. ASSUME UNCHANGED lapses \/ Lapse
        PROVE  lapses' \in 0..MaxLapses
    BY <1>2, <1>3 DEF Lapse
  <1>4. ASSUME NEW k \in Clients, NEW r \in Results, NEW on \in BOOLEAN,
               SetPostMonitor(k, r, on)
        PROVE  ConnInv'
    <2> DEFINE x == [Idle EXCEPT !.op = "other", !.pc = "ok"]
    <2>0. x \in RequestState /\ x.op = "other" /\ x.pc = "ok"
      BY IdleIsRequest DEF Idle, RequestState
    <2>1. /\ request[k].pc = "idle" /\ request' = [request EXCEPT ![k] = x]
          /\ UNCHANGED <<conn, account, replaced, lapses>>
      BY <1>4 DEF SetPostMonitor, Idle
    <2> HIDE DEF x
    <2>2. ConnTypeOK' /\ RequestInv'
      BY <2>0, <2>1 DEF ConnInv, ConnTypeOK, RequestInv, Storing
    <2>3. StoredInv'
      BY <2>0, <2>1 DEF ConnInv, ConnTypeOK, StoredInv, Storing, Kept
    <2> QED
      BY <2>2, <2>3 DEF ConnInv
  <1>5. CASE Crash
    <2>1. ASSUME NEW k \in Clients
          PROVE  /\ request'[k] \in RequestState
                 /\ \/ request'[k] = request[k]
                    \/ /\ request[k].pc \in Busy
                       /\ request'[k].pc = "cut" /\ request'[k].op = "none"
      BY <1>5, RequestOver DEF Crash, Cut, Busy, ConnInv, ConnTypeOK
    <2>2. /\ DOMAIN request' = Clients /\ lapses' \in 0..MaxLapses
          /\ UNCHANGED <<conn, account, replaced>>
      BY <1>3, <1>5 DEF Crash, Cut
    <2>3. request' \in [Clients -> RequestState]
      BY <1>5, <2>1 DEF Crash, Cut
    <2>4. ConnTypeOK' /\ RequestInv'
      BY <2>1, <2>2, <2>3 DEF ConnInv, ConnTypeOK, RequestInv, Busy
    <2>5. StoredInv'
      BY <2>1, <2>2 DEF ConnInv, StoredInv, Kept, Busy
    <2> QED
      BY <2>4, <2>5 DEF ConnInv
  <1>6. CASE \/ \E r \in Results : WriteReply(r)
             \/ \E r \in Results : RemovePost(r)
             \/ \E p \in Platforms : GoDown(p)
             \/ ComeBack \/ Check \/ Take
    BY <1>1, <1>3, <1>6 DEF WriteReply, RemovePost, GoDown, ComeBack, Check, Take
  <1>7. CASE Read \/ Ingest \/ UpdateReplyCheckpoint
    BY <1>1, <1>3, <1>7 DEF Read, Ingest, UpdateReplyCheckpoint
  <1> QED
    BY <1>4, <1>5, <1>6, <1>7 DEF Next, MonitorStep

\* Requests name keys and rows that there are; the credentials in a row are those
\* of a client that was told so or whose statement failed, a success is stored or
\* was replaced, and what was deleted does not come back.
THEOREM Connections == Spec => []ConnInv
  <1>1. Init => ConnInv
    BY ConnInitial DEF Init
  <1>2. ConnInv /\ [Next]_vars => ConnInv'
    <2>1. ConnInv /\ UNCHANGED vars => ConnInv'
      BY DEF vars, connVars, ConnInv, ConnTypeOK, RequestInv, StoredInv, Kept
    <2> QED
      BY <2>1, ConnNextKeeps, OthersKeep
  <1> QED
    BY <1>1, <1>2, PTL DEF Spec

\* A client that was told of success finds its credentials stored, unless a
\* later request replaced or deleted them, and the connection it deleted is gone
\* for good; those of a refused one are nowhere.
THEOREM ReportsAreTrue == Spec => []ReportedIsStored
  <1>1. ConnInv => ReportedIsStored
    BY DEF ConnInv, StoredInv, ReportedIsStored, Storing
  <1> QED
    BY <1>1, Connections, PTL

-----------------------------------------------------------------------------
(***************************************************************************)
(* The check.                                                              *)
(***************************************************************************)

\* A check reads a platform it has a reader for, and has replies to ingest.
CheckInv ==
    /\ monitor.pc = "read" => PlatformOf[Current] \in Readers
    /\ monitor.pc = "ingest" => monitor.found # <<>>

MonitorInv == TypeOK /\ CheckInv

LEMMA MinOfTwo ==
  ASSUME NEW a \in Nat, NEW b \in Nat
  PROVE  Min({a, b}) \in {a, b} /\ Min({a, b}) <= a /\ Min({a, b}) <= b
  <1>1. CASE a <= b
    BY <1>1 DEF Min
  <1>2. CASE b <= a
    BY <1>2 DEF Min
  <1> QED
    BY <1>1, <1>2

LEMMA EmptyIfShort ==
  ASSUME NEW s, s = <<>>
  PROVE  Len(s) = 0
  OBVIOUS

\* What is in the todo list of a check.
Todo == [result : Results, since : 0..MaxReplies]

LEMMA Fields ==
  MonitorState = [pc : {"idle", "take", "read", "ingest", "save"}, todo : Seq(Todo),
                  with : Methods \cup {None}, found : Seq(Replies), latest : 0..MaxReplies]
  BY DEF MonitorState, Todo

LEMMA ListsOfSet ==
  ASSUME NEW S, IsFiniteSet(S), NEW f \in SetToSeqs(S)
  PROVE  f \in Seq(S) /\ Len(f) = Cardinality(S)
  <1>1. Cardinality(S) \in Nat
    BY FS_CardinalityType
  <1>2. f \in [1..Cardinality(S) -> S]
    BY DEF SetToSeqs
  <1> QED
    BY <1>1, <1>2

\* A page lists replies.
LEMMA PagesAreReplies ==
  ASSUME TypeOK, NEW r \in Results, NEW n \in 0..MaxReplies, NEW F,
         PlatformOf[r] \in Readers, NEW page \in GetReplies(r, n, F)
  PROVE  page \in Seq(Replies)
  <1>1. /\ thread[r] \in 0..MaxReplies
        /\ MaxReplies \in Nat
    BY BoundsAssumption DEF TypeOK
  <1>2. PICK S \in SUBSET Replies : page \in SetToSeqs(S)
    BY <1>1, ReadersAssumption
       DEF GetReplies, RedditReader, BlueskyReader, HNReader, Above, NewestFirst, Replies
  <1>3. IsFiniteSet(S)
    <2>1. IsFiniteSet(1..MaxReplies)
      BY <1>1, FS_Interval
    <2> QED
      BY <2>1, FS_Subset DEF Replies
  <1>4. page \in Seq(S)
    BY <1>2, <1>3, ListsOfSet
  <1> QED
    BY <1>4

\* To move a result to the end of the line keeps it a line.
LEMMA MoveToEnd ==
  ASSUME NEW S, NEW s \in Seq(S), IsInjective(s), NEW e \in S, NEW i \in Nat,
         i \in 1..Len(s) => s[i] = e,
         i = 0 => \A j \in 1..Len(s) : s[j] # e,
         i <= Len(s)
  PROVE  LET t == Append(RemoveAt(s, i), e) IN t \in Seq(S) /\ IsInjective(t)
  <1> DEFINE u == RemoveAt(s, i)
             t == Append(u, e)
  <1>1. /\ u \in Seq(S) /\ IsInjective(u)
        /\ \A j \in 1..Len(u) : u[j] # e
    <2>1. CASE i = 0
      <3>1. u = s
        BY <2>1 DEF RemoveAt
      <3> QED
        BY <2>1, <3>1
    <2>2. CASE i \in 1..Len(s)
      <3>1. /\ u \in Seq(S) /\ Len(u) = Len(s) - 1
            /\ \A j \in 1..Len(u) : u[j] = IF j < i THEN s[j] ELSE s[j + 1]
        <4> DEFINE a == SubSeq(s, 1, i - 1)
                   b == SubSeq(s, i + 1, Len(s))
        <4>1. /\ a \in Seq(S) /\ Len(a) = i - 1
              /\ \A j \in 1..(i - 1) : a[j] = s[j]
          BY <2>2
        <4>2. /\ b \in Seq(S) /\ Len(b) = Len(s) - i
              /\ \A j \in 1..(Len(s) - i) : b[j] = s[i + j]
          BY <2>2
        <4>3. u = a \o b
          BY DEF RemoveAt
        <4> HIDE DEF a, b, u
        <4>4. /\ u \in Seq(S) /\ Len(u) = Len(s) - 1
              /\ \A j \in 1..(Len(s) - 1) : u[j] = IF j < i THEN a[j] ELSE b[j - (i - 1)]
          BY <2>2, <4>1, <4>2, <4>3
        <4>5. ASSUME NEW j \in 1..Len(u)
              PROVE  u[j] = IF j < i THEN s[j] ELSE s[j + 1]
          <5>1. CASE j < i
            BY <2>2, <4>1, <4>4, <5>1
          <5>2. CASE ~(j < i)
            <6>1. j - (i - 1) \in 1..(Len(s) - i) /\ i + (j - (i - 1)) = j + 1
              BY <2>2, <4>4, <5>2
            <6> QED
              BY <2>2, <4>2, <4>4, <5>2, <6>1
          <5> QED
            BY <5>1, <5>2
        <4> QED
          BY <4>4, <4>5
      <3>2. \A a, b \in 1..Len(s) : s[a] = s[b] => a = b
        BY DEF IsInjective
      <3>3. \A j \in 1..Len(u) : u[j] # e
        BY <2>2, <3>1, <3>2
      <3>4. IsInjective(u)
        <4> SUFFICES ASSUME NEW a \in 1..Len(u), NEW b \in 1..Len(u), u[a] = u[b]
                     PROVE  a = b
          BY <3>1 DEF IsInjective
        <4>1. PICK x \in 1..Len(s) : u[a] = s[x] /\ x = IF a < i THEN a ELSE a + 1
          BY <2>2, <3>1
        <4>2. PICK y \in 1..Len(s) : u[b] = s[y] /\ y = IF b < i THEN b ELSE b + 1
          BY <2>2, <3>1
        <4>3. x = y
          BY <3>2, <4>1, <4>2
        <4> QED
          BY <2>2, <4>1, <4>2, <4>3
      <3> QED
        BY <3>1, <3>3, <3>4
    <2> QED
      BY <2>1, <2>2
  <1> HIDE DEF u
  <1>2. t \in Seq(S) /\ Len(t) = Len(u) + 1
    BY <1>1
  <1>3. /\ \A j \in 1..Len(u) : t[j] = u[j]
        /\ t[Len(u) + 1] = e
    BY <1>1
  <1>4. ASSUME NEW a \in 1..Len(t), NEW b \in 1..Len(t), t[a] = t[b]
        PROVE  a = b
    <2>1. \A x, y \in 1..Len(u) : u[x] = u[y] => x = y
      BY <1>1 DEF IsInjective
    <2> QED
      BY <1>1, <1>2, <1>3, <1>4, <2>1
  <1> HIDE DEF t
  <1>5. IsInjective(t)
    BY <1>2, <1>4 DEF IsInjective
  <1> QED
    BY <1>2, <1>5 DEF t, u

LEMMA RestState ==
  ASSUME MonitorInv, monitor.pc # "idle"
  PROVE  /\ Rest(monitor) \in MonitorState
         /\ Rest(monitor).pc \in {"idle", "take"}
         /\ Rest(monitor).pc = "take" <=> Rest(monitor).todo # <<>>
  <1>1. monitor \in MonitorState /\ monitor.todo # <<>> /\ monitor.todo \in Seq(Todo)
    BY DEF MonitorInv, TypeOK, MonitorState, Todo
  <1>2. MaxReplies \in Nat /\ <<>> \in Seq(Todo) /\ <<>> \in Seq(Replies)
    BY BoundsAssumption
  <1>3. CASE Len(monitor.todo) = 1
    <2>1. Rest(monitor) = NoCheck
      BY <1>3 DEF Rest
    <2> QED
      BY <1>2, <2>1 DEF NoCheck, MonitorState, Todo
  <1>4. CASE Len(monitor.todo) # 1
    <2> DEFINE t == Tail(monitor.todo)
               x == [NoCheck EXCEPT !.pc = "take", !.todo = t]
    <2>1. Rest(monitor) = x
      BY <1>4 DEF Rest
    <2>2. Len(monitor.todo) \in Nat \ {0, 1}
      BY <1>1, <1>4
    <2>3. t \in Seq(Todo) /\ Len(t) = Len(monitor.todo) - 1
      BY <1>1
    <2> HIDE DEF t
    <2>4. t # <<>>
      <3>1. Len(t) # 0
        BY <2>2, <2>3
      <3> QED
        BY <3>1
    <2>5. x.pc = "take" /\ x.todo = t
      BY DEF NoCheck
    <2>6. x \in MonitorState
      <3>1. NoCheck \in MonitorState
        BY <1>2, Fields DEF NoCheck
      <3> HIDE DEF NoCheck
      <3> QED
        BY <2>3, <3>1, Fields
    <2> QED
      BY <2>1, <2>4, <2>5, <2>6
  <1> QED
    BY <1>3, <1>4

\* A step of the check that keeps the tables typed.
LEMMA CheckMoves ==
  ASSUME MonitorInv, ConnTypeOK', NEW m \in MonitorState, monitor' = m,
         m.pc \in {"take", "read", "ingest", "save"} <=> m.todo # <<>>,
         m.pc = "read" => PlatformOf[Head(m.todo).result] \in Readers,
         m.pc = "ingest" => m.found # <<>>,
         UNCHANGED <<thread, gone, monitored, down>>,
         checked' \in Seq(Results) /\ IsInjective(checked'),
         since' \in [Results -> 0..MaxReplies],
         alerted' \in [Results -> SUBSET Replies],
         missed' \in [Results -> SUBSET Replies]
  PROVE  MonitorInv'
  BY DEF MonitorInv, TypeOK, CheckInv, Current

LEMMA RestKeeps ==
  ASSUME MonitorInv, ConnTypeOK', monitor.pc # "idle", monitor' = Rest(monitor),
         UNCHANGED <<thread, gone, monitored, down>>,
         checked' \in Seq(Results) /\ IsInjective(checked'),
         since' \in [Results -> 0..MaxReplies],
         alerted' \in [Results -> SUBSET Replies],
         missed' \in [Results -> SUBSET Replies]
  PROVE  MonitorInv'
  BY RestState, CheckMoves

\* The result a check is at.
LEMMA AtResult ==
  ASSUME MonitorInv, monitor.pc # "idle"
  PROVE  /\ monitor \in MonitorState /\ monitor.todo # <<>>
         /\ Current \in Results /\ Head(monitor.todo).since \in 0..MaxReplies
  <1>0. monitor \in MonitorState /\ monitor.pc \in {"take", "read", "ingest", "save"}
    BY Fields DEF MonitorInv, TypeOK
  <1>1. monitor.todo \in Seq(Todo) /\ monitor.todo # <<>>
    BY <1>0, Fields DEF MonitorInv, TypeOK
  <1>2. Head(monitor.todo) \in Todo
    BY <1>1
  <1> QED
    BY <1>0, <1>1, <1>2 DEF Todo, Current

LEMMA ReplyMore ==
  ASSUME MonitorInv, ConnTypeOK', NEW r \in Results, WriteReply(r)
  PROVE  MonitorInv'
  <1>1. thread \in [Results -> 0..MaxReplies] /\ MaxReplies \in Nat
    BY BoundsAssumption DEF MonitorInv, TypeOK
  <1>2. thread[r] < MaxReplies
    <2> SUFFICES ASSUME thread[r] = MaxReplies PROVE FALSE
      BY <1>1
    <2>1. IsFiniteSet(Replies) /\ Cardinality(Replies) = MaxReplies
      BY <1>1, FS_Interval DEF Replies
    <2>2. IsFiniteSet(Results \X Replies)
      BY <2>1, FS_Product, ResultsAssumption
    <2>3. IsFiniteSet(Written)
      BY <2>2, FS_Subset DEF Written
    <2>4. {r} \X Replies \subseteq Written
      BY DEF Written, Replies
    <2>5. Cardinality({r} \X Replies) = MaxReplies
      <3>1. IsFiniteSet({r}) /\ Cardinality({r}) = 1
        BY FS_Singleton
      <3>2. Cardinality({r} \X Replies) = 1 * MaxReplies
        BY <2>1, <3>1, FS_Product
      <3> QED
        BY <1>1, <3>2
    <2>6. Cardinality({r} \X Replies) <= Cardinality(Written)
      BY <2>3, <2>4, FS_Subset
    <2>7. Cardinality(Written) < MaxReplies /\ Cardinality(Written) \in Nat
      BY <2>3, FS_CardinalityType DEF WriteReply
    <2> QED
      BY <1>1, <2>5, <2>6, <2>7
  <1>3. thread' \in [Results -> 0..MaxReplies]
    BY <1>1, <1>2 DEF WriteReply
  <1> QED
    BY <1>3 DEF WriteReply, MonitorInv, TypeOK, CheckInv, Current

LEMMA CheckBegins ==
  ASSUME MonitorInv, ConnTypeOK', Check
  PROVE  MonitorInv'
  <1> USE DEF MonitorInv, TypeOK
  <1>1. PICK f \in SetToSeqs(monitored) :
          monitor' = [NoCheck EXCEPT !.pc = "take",
             !.todo = [i \in 1..Min({Batch, Len(f)}) |->
                         [result |-> f[i], since |-> since[f[i]]]]]
    BY DEF Check, ListMonitoredResults
  <1>2. IsFiniteSet(monitored) /\ Cardinality(monitored) \in Nat \ {0}
    <2>1. IsFiniteSet(monitored)
      BY ResultsAssumption, FS_Subset
    <2> QED
      BY <2>1, FS_CardinalityType, FS_EmptySet DEF Check
  <1>3. f \in Seq(monitored) /\ Len(f) = Cardinality(monitored)
    BY <1>2, ListsOfSet
  <1> DEFINE l == Min({Batch, Len(f)})
             t == [i \in 1..l |-> [result |-> f[i], since |-> since[f[i]]]]
             x == [NoCheck EXCEPT !.pc = "take", !.todo = t]
  <1>4. l \in 1..Len(f)
    <2>1. Batch \in Nat \ {0} /\ Len(f) \in Nat \ {0}
      BY <1>2, <1>3, BoundsAssumption
    <2>2. l \in {Batch, Len(f)} /\ l <= Len(f)
      BY <2>1, MinOfTwo
    <2> QED
      BY <2>1, <2>2
  <1> HIDE DEF l
  <1>5. t \in Seq(Todo) /\ Len(t) = l
    <2>1. ASSUME NEW i \in 1..l
          PROVE  [result |-> f[i], since |-> since[f[i]]] \in Todo
      BY <1>3, <1>4 DEF Todo
    <2>2. t \in [1..l -> Todo] /\ l \in Nat
      BY <1>3, <1>4, <2>1
    <2> HIDE DEF t
    <2> QED
      BY <2>2
  <1> HIDE DEF t
  <1>6. t # <<>>
    BY <1>3, <1>4, <1>5, EmptyIfShort
  <1>7. NoCheck \in MonitorState
    BY BoundsAssumption, Fields DEF NoCheck
  <1>8. x.pc = "take" /\ x.todo = t
    BY DEF NoCheck
  <1>9. x \in MonitorState
    BY <1>5, <1>7, Fields
  <1>10. monitor' = x
    BY <1>1 DEF t, l
  <1> HIDE DEF x
  <1> QED
    BY <1>6, <1>8, <1>9, <1>10, CheckMoves DEF Check

LEMMA CheckTakes ==
  ASSUME MonitorInv, ConnTypeOK', Take
  PROVE  MonitorInv'
  <1> USE DEF MonitorInv, TypeOK
  <1>1. UNCHANGED <<thread, gone, monitored, checked, since, alerted, missed, down>>
    BY DEF Take
  <1>2. CASE monitor' = Rest(monitor)
    BY <1>1, <1>2, RestKeeps DEF Take
  <1>3. ASSUME PlatformOf[Current] \in Readers, NEW c \in Preferred(PlatformOf[Current]),
               monitor' = [monitor EXCEPT !.pc = "read", !.with = conn[c].key[2]]
        PROVE  MonitorInv'
    <2> DEFINE method == conn[c].key[2]
               x == [monitor EXCEPT !.pc = "read", !.with = method]
    <2>1. monitor \in MonitorState /\ monitor.todo # <<>>
      BY AtResult DEF Take
    <2>2. method \in Methods
      BY DEF ConnTypeOK, Preferred, Usable, Kept, RowState
    <2> HIDE DEF method
    <2>3. /\ x \in MonitorState /\ x.pc = "read" /\ x.todo = monitor.todo
      BY <2>1, <2>2 DEF MonitorState
    <2>4. monitor' = x
      BY <1>3 DEF method
    <2> HIDE DEF x
    <2>5. PlatformOf[Head(x.todo).result] \in Readers
      BY <1>3, <2>3 DEF Current
    <2> QED
      BY <1>1, <2>1, <2>3, <2>4, <2>5, CheckMoves
  <1> QED
    BY <1>2, <1>3 DEF Take

LEMMA CheckReads ==
  ASSUME MonitorInv, ConnTypeOK', Read
  PROVE  MonitorInv'
  <1> USE DEF MonitorInv, TypeOK
  <1> DEFINE n == Head(monitor.todo).since
  <1>1. /\ monitor.pc = "read" /\ monitor \in MonitorState /\ monitor.todo # <<>>
        /\ Current \in Results /\ n \in 0..MaxReplies
        /\ PlatformOf[Current] \in Readers
        /\ UNCHANGED <<thread, gone, monitored, checked, since, alerted, down>>
    BY AtResult DEF Read, CheckInv
  <1>2. ASSUME NEW page \in Seq(Replies), monitor' = AfterRead(page),
               missed' \in [Results -> SUBSET Replies]
        PROVE  MonitorInv'
    <2> DEFINE pc == IF page = <<>> THEN "save" ELSE "ingest"
               x == [monitor EXCEPT !.pc = pc, !.with = None, !.found = page, !.latest = n]
    <2>1. pc \in {"save", "ingest"} /\ (pc = "ingest" => page # <<>>)
      OBVIOUS
    <2> HIDE DEF pc
    <2>2. /\ x \in MonitorState /\ x.pc = pc /\ x.todo = monitor.todo /\ x.found = page
      BY <1>1, <2>1 DEF MonitorState
    <2>3. monitor' = x
      BY <1>2 DEF AfterRead, pc
    <2> HIDE DEF x
    <2> QED
      BY <1>1, <1>2, <2>1, <2>2, <2>3, CheckMoves
  <1>3. ASSUME NEW page \in GetReplies(Current, n, {}), monitor' = AfterRead(page),
               UNCHANGED missed
        PROVE  MonitorInv'
    BY <1>1, <1>2, <1>3, PagesAreReplies
  <1>4. ASSUME NEW lost \in Above(Current, n),
               missed' = [missed EXCEPT ![Current] = @ \cup {lost}],
               NEW page \in GetReplies(Current, n, {lost}), monitor' = AfterRead(page)
        PROVE  MonitorInv'
    <2>1. lost \in Replies
      BY <1>1, BoundsAssumption DEF Replies, Above
    <2>2. missed' \in [Results -> SUBSET Replies]
      BY <1>1, <1>4, <2>1
    <2> QED
      BY <1>1, <1>2, <1>4, <2>2, PagesAreReplies
  <1>5. ASSUME monitor' = Rest(monitor), UNCHANGED missed
        PROVE  MonitorInv'
    BY <1>1, <1>5, RestKeeps
  <1> QED
    BY <1>3, <1>4, <1>5 DEF Read

LEMMA CheckIngests ==
  ASSUME MonitorInv, ConnTypeOK', Ingest
  PROVE  MonitorInv'
  <1> USE DEF MonitorInv, TypeOK
  <1> DEFINE n == Head(monitor.found)
  <1>1. /\ monitor.pc = "ingest" /\ monitor \in MonitorState /\ monitor.todo # <<>>
        /\ monitor.found \in Seq(Replies) /\ monitor.found # <<>>
        /\ monitor.latest \in 0..MaxReplies
        /\ Current \in Results
        /\ UNCHANGED <<thread, gone, monitored, checked, since, down>>
    BY AtResult DEF Ingest, CheckInv, MonitorState
  <1>2. n \in Replies /\ Tail(monitor.found) \in Seq(Replies) /\ Replies \subseteq 0..MaxReplies
    <2>1. n \in Replies /\ Tail(monitor.found) \in Seq(Replies)
      BY <1>1
    <2> QED
      BY <2>1 DEF Replies
  <1>3. ASSUME NEW ok \in BOOLEAN,
               monitor' = [monitor EXCEPT !.found = Tail(@), !.latest = Remembered(n, ok),
                                          !.pc = IF Len(monitor.found) = 1 THEN "save"
                                                 ELSE "ingest"],
               alerted' \in [Results -> SUBSET Replies],
               missed' \in [Results -> SUBSET Replies]
        PROVE  MonitorInv'
    <2> DEFINE pc == IF Len(monitor.found) = 1 THEN "save" ELSE "ingest"
               t == Tail(monitor.found)
               v == Remembered(n, ok)
               x == [monitor EXCEPT !.found = t, !.latest = v, !.pc = pc]
    <2>1. pc \in {"save", "ingest"}
      OBVIOUS
    <2>2. pc = "ingest" => t # <<>>
      <3>1. Len(t) = Len(monitor.found) - 1 /\ Len(monitor.found) \in Nat \ {0}
        BY <1>1
      <3>2. Len(monitor.found) # 1 => Len(t) # 0
        BY <3>1
      <3> HIDE DEF t
      <3>3. t = <<>> => Len(t) = 0
        BY EmptyIfShort
      <3> QED
        BY <3>2, <3>3
    <2>3. v \in 0..MaxReplies
      BY <1>1, <1>2 DEF Remembered
    <2>4. t \in Seq(Replies)
      BY <1>2
    <2>5. monitor' = x
      BY <1>3
    <2> HIDE DEF pc, t, v
    <2>6. /\ x \in MonitorState /\ x.pc = pc /\ x.todo = monitor.todo /\ x.found = t
      BY <1>1, <2>1, <2>3, <2>4 DEF MonitorState
    <2> HIDE DEF x
    <2> QED
      BY <1>1, <1>3, <2>1, <2>2, <2>5, <2>6, CheckMoves
  <1>4. /\ [alerted EXCEPT ![Current] = @ \cup {n}] \in [Results -> SUBSET Replies]
        /\ [missed EXCEPT ![Current] = @ \cup {n}] \in [Results -> SUBSET Replies]
    BY <1>1, <1>2
  <1> QED
    BY <1>3, <1>4 DEF Ingest

LEMMA CheckSaves ==
  ASSUME MonitorInv, ConnTypeOK', UpdateReplyCheckpoint
  PROVE  MonitorInv'
  <1> USE DEF MonitorInv, TypeOK
  <1>1. /\ monitor.pc = "save" /\ Current \in Results /\ monitor.latest \in 0..MaxReplies
        /\ monitor' = Rest(monitor)
        /\ UNCHANGED <<thread, gone, monitored, alerted, missed, down>>
    BY AtResult DEF UpdateReplyCheckpoint, MonitorState
  <1>2. CASE /\ since' = [since EXCEPT ![Current] = monitor.latest]
             /\ checked' = Append(RemoveAt(checked, Place(Current)), Current)
    <2>1. since' \in [Results -> 0..MaxReplies]
      BY <1>1, <1>2
    <2>2. /\ Place(Current) \in Nat /\ Place(Current) <= Len(checked)
          /\ Place(Current) \in 1..Len(checked) => checked[Place(Current)] = Current
          /\ Place(Current) = 0 => \A j \in 1..Len(checked) : checked[j] # Current
      <3>1. CASE Current \in Range(checked)
        BY <3>1 DEF Place, Range
      <3>2. CASE Current \notin Range(checked)
        BY <3>2 DEF Place, Range
      <3> QED
        BY <3>1, <3>2
    <2>3. checked' \in Seq(Results) /\ IsInjective(checked')
      BY <1>1, <1>2, <2>2, MoveToEnd
    <2> QED
      BY <1>1, <2>1, <2>3, RestKeeps
  <1>3. CASE UNCHANGED <<since, checked>>
    BY <1>1, <1>3, RestKeeps
  <1> QED
    BY <1>2, <1>3 DEF UpdateReplyCheckpoint

LEMMA MonitorNext ==
  ASSUME MonitorInv, ConnTypeOK', [Next]_vars
  PROVE  MonitorInv'
  <1> USE DEF MonitorInv, TypeOK
  <1>1. CASE UNCHANGED replyVars
    BY <1>1 DEF replyVars, CheckInv, Current
  <1>2. ASSUME NEW k \in Clients, NEW r \in Results, NEW on \in BOOLEAN,
               SetPostMonitor(k, r, on)
        PROVE  MonitorInv'
    BY <1>2 DEF SetPostMonitor, CheckInv, Current
  <1>3. CASE \E r \in Results : WriteReply(r)
    BY <1>3, ReplyMore
  <1>4. CASE \/ \E r \in Results : RemovePost(r)
             \/ \E p \in Platforms : GoDown(p)
             \/ ComeBack
    BY <1>4 DEF RemovePost, GoDown, ComeBack, CheckInv, Current
  <1>5. CASE MonitorStep
    BY <1>5, CheckBegins, CheckTakes, CheckReads, CheckIngests, CheckSaves DEF MonitorStep
  <1>6. CASE Crash
    <2>1. NoCheck \in MonitorState /\ NoCheck.pc = "idle" /\ NoCheck.todo = <<>>
      BY BoundsAssumption, Fields DEF NoCheck
    <2> HIDE DEF NoCheck
    <2> QED
      BY <1>6, <2>1, CheckMoves DEF Crash
  <1> QED
    BY <1>1, <1>2, <1>3, <1>4, <1>5, <1>6 DEF Next, vars

\* Every variable keeps its type, whatever clients, platforms, checks and
\* faults do; the line of checked results names none twice.
THEOREM TypeCorrect == Spec => []TypeOK
  <1>1. Init /\ ConnInv => MonitorInv
    <2>1. NoCheck \in MonitorState /\ NoCheck.pc = "idle" /\ NoCheck.todo = <<>>
      BY BoundsAssumption, Fields DEF NoCheck
    <2> HIDE DEF NoCheck
    <2> QED
      BY <2>1, BoundsAssumption, WatchedAssumption
         DEF Init, ConnInv, MonitorInv, TypeOK, CheckInv, IsInjective, Replies
  <1>2. MonitorInv /\ ConnInv' /\ [Next]_vars => MonitorInv'
    BY MonitorNext DEF ConnInv
  <1>3. MonitorInv => TypeOK
    BY DEF MonitorInv
  <1> QED
    BY <1>1, <1>2, <1>3, Connections, PTL DEF Spec
=============================================================================
