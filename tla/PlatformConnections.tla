------------------------ MODULE PlatformConnections ------------------------
(***************************************************************************)
(* The platform connections of a project: the rows that hold credentials,  *)
(* one for a platform and a method.  A request asks the platform's adapter *)
(* (or lets the browser service create an account) before it writes, and   *)
(* other requests run in between.                                          *)
(***************************************************************************)
EXTENDS Naturals, FiniteSets

CONSTANTS
    Platforms,  \* names of platforms
    Adapters,   \* the keys, a platform and a method, that have an adapter
    Clients,    \* clients, with one request each
    Given,      \* the rows there are at the start
    MaxLapses,  \* bound of the faults of a behaviour
    None        \* no row

Methods == {"api", "browser"}
Conns == Clients \cup DOMAIN Given

ASSUME AdaptersAssumption == Adapters \subseteq Platforms \X Methods
ASSUME LapsesAssumption == MaxLapses \in Nat
ASSUME NoneAssumption == None \notin Conns

VARIABLES
    conn,      \* conn[c]: a row of platform_connections
    request,   \* request[k]: the request of a client
    account,   \* clients for whom an account was created at the platform
    replaced,  \* clients whose credentials were overwritten or deleted
    lapses     \* the number of faults so far

connVars == <<conn, request, account, replaced>>

\* Credentials are named after the client that brought them.
RowState == [life : {"unused", "kept", "deleted"}, key : Platforms \X Methods,
             enabled : BOOLEAN, creds : Conns]

RequestState ==
    [op : {"create", "update", "delete", "account", "other", "none"},
     pc : {"idle", "read", "check", "write", "ok", "refused", "failed", "cut"},
     conn : Conns \cup {None}, key : Adapters \cup {None}, enabled : BOOLEAN]

\* The clients of a behaviour are new, and so are the credentials they bring.
ASSUME GivenAssumption ==
    /\ Clients \cap DOMAIN Given = {}
    /\ \A c \in DOMAIN Given : Given[c] \in RowState /\ Given[c].creds = c

Idle == [op |-> "none", pc |-> "idle", conn |-> None, key |-> None, enabled |-> FALSE]

ConnTypeOK ==
    /\ DOMAIN conn = Conns
    /\ \A c \in Conns : conn[c].life # "unused" => conn[c] \in RowState
    /\ request \in [Clients -> RequestState]
    /\ account \subseteq Clients
    /\ replaced \subseteq Conns
    /\ lapses \in 0..MaxLapses

NoRow == [life |-> "unused", key |-> None, enabled |-> FALSE, creds |-> None]

ConnInit ==
    /\ conn = [c \in Conns |-> IF c \in DOMAIN Given THEN Given[c] ELSE NoRow]
    /\ request = [k \in Clients |-> Idle]
    /\ account = {}
    /\ replaced = {}
    /\ lapses = 0

Kept(c) == conn[c].life = "kept"
Lapse == lapses < MaxLapses /\ lapses' = lapses + 1
Continue(k, pc) == request' = [request EXCEPT ![k].pc = pc]

\* A request that is over: the answer, and what a success was about.
Over(k, pc) ==
    IF pc = "ok" THEN [request[k] EXCEPT !.pc = pc, !.key = None, !.enabled = FALSE]
    ELSE [Idle EXCEPT !.pc = pc]
Answer(k, pc) == request' = [request EXCEPT ![k] = Over(k, pc)]

\* A statement that was committed may be reported as failed all the same.
Committed(k) ==
    \/ Answer(k, "ok") /\ UNCHANGED lapses
    \/ Answer(k, "failed") /\ Lapse

-----------------------------------------------------------------------------
(***************************************************************************)
(* The statements.                                                         *)
(***************************************************************************)

\* The unique constraint of the table.
KeyFree(key, c) == \A o \in Conns \ {c} : Kept(o) => conn[o].key # key

Inserted(k) ==
    [life |-> "kept", key |-> request[k].key, enabled |-> request[k].enabled, creds |-> k]

\* Variant: credentials that are there stay.
Changed_KeepCreds(k) ==
    [conn[request[k].conn] EXCEPT !.life = "kept", !.key = request[k].key,
                                  !.enabled = request[k].enabled]

Changed(k) ==
    [life |-> "kept", key |-> request[k].key, enabled |-> request[k].enabled, creds |-> k]

\* The connection that is used: enabled, api before browser.
Usable(p) == {c \in Conns : Kept(c) /\ conn[c].enabled /\ conn[c].key[1] = p}
Preferred(p) ==
    LET usable == Usable(p)
        api == {c \in usable : conn[c].key[2] = "api"} IN
    IF api # {} THEN api ELSE usable

-----------------------------------------------------------------------------
(***************************************************************************)
(* Requests.                                                               *)
(***************************************************************************)

\* Keys without an adapter are refused at once.
Ask(k, op, c, key, enabled) ==
    /\ request[k] = Idle
    /\ request' = [request EXCEPT ![k] =
          [op |-> op, pc |-> IF op = "delete" THEN "read" ELSE "check",
           conn |-> c, key |-> key, enabled |-> enabled]]
    /\ UNCHANGED <<conn, account, replaced, lapses>>

CreateConnection(k, key, enabled) == Ask(k, "create", None, key, enabled)

\* An update does not look for its row, of which the client has heard.
UpdateConnection(k, c, key, enabled) ==
    /\ conn[c].life # "unused"
    /\ Ask(k, "update", c, key, enabled)

DeleteConnection(k, c) ==
    /\ conn[c].life # "unused"
    /\ Ask(k, "delete", c, None, FALSE)

CreateAccount(k, key) ==
    /\ key[2] = "browser"
    /\ Ask(k, "account", None, key, TRUE)

\* A deletion reads its row first.
GetConnection(k) ==
    /\ request[k].pc = "read"
    /\ IF Kept(request[k].conn) THEN Continue(k, "write") ELSE Answer(k, "refused")
    /\ UNCHANGED <<conn, account, replaced, lapses>>

\* The platform accepts the credentials or it does not.
ValidateCredentials(k) ==
    /\ request[k].pc = "check"
    /\ request[k].op \in {"create", "update"}
    /\ Continue(k, "write") \/ Answer(k, "refused")
    /\ UNCHANGED <<conn, account, replaced, lapses>>

\* The browser service makes an account, refuses, or answers too late.
MakeAccount(k) ==
    /\ request[k].pc = "check"
    /\ request[k].op = "account"
    /\ \/ account' = account \cup {k} /\ Continue(k, "write") /\ UNCHANGED lapses
       \/ account' = account /\ Answer(k, "refused") /\ UNCHANGED lapses
       \/ account' = account \cup {k} /\ Answer(k, "refused") /\ Lapse
    /\ UNCHANGED <<conn, replaced>>

\* A row is inserted for a key that is free.
InsertConnection(k) ==
    /\ request[k].pc = "write"
    /\ request[k].op \in {"create", "account"}
    /\ \/ /\ KeyFree(request[k].key, k)
          /\ conn' = [conn EXCEPT ![k] = Inserted(k)]
          /\ Committed(k)
       \/ ~KeyFree(request[k].key, k) /\ Answer(k, "refused") /\ UNCHANGED <<conn, lapses>>
    /\ UNCHANGED <<account, replaced>>

WriteConnection(k) ==
    LET c == request[k].conn IN
    /\ request[k].pc = "write"
    /\ request[k].op = "update"
    /\ \/ /\ Kept(c) /\ KeyFree(request[k].key, c)
          /\ conn' = [conn EXCEPT ![c] = Changed(k)]
          /\ replaced' = replaced \cup {conn[c].creds}
          /\ Committed(k)
       \/ /\ ~(Kept(c) /\ KeyFree(request[k].key, c))
          /\ Answer(k, "refused")
          /\ UNCHANGED <<conn, replaced, lapses>>
    /\ UNCHANGED account

RemoveConnection(k) ==
    LET c == request[k].conn IN
    /\ request[k].pc = "write"
    /\ request[k].op = "delete"
    /\ IF Kept(c) THEN /\ conn' = [conn EXCEPT ![c].life = "deleted"]
                       /\ replaced' = replaced \cup {conn[c].creds}
                  ELSE UNCHANGED <<conn, replaced>>
    /\ Committed(k)
    /\ UNCHANGED account

\* A statement fails and changes nothing.
StatementFails(k) ==
    /\ request[k].pc \in {"read", "write"}
    /\ Lapse
    /\ Answer(k, "failed")
    /\ UNCHANGED <<conn, account, replaced>>

\* The process dies: its requests are never answered.
Cut ==
    request' = [k \in Clients |->
        IF request[k].pc \in {"read", "check", "write"} THEN Over(k, "cut") ELSE request[k]]

ConnNext ==
    \E k \in Clients :
        \/ \E key \in Adapters, enabled \in BOOLEAN :
              \/ CreateConnection(k, key, enabled)
              \/ \E c \in Conns : UpdateConnection(k, c, key, enabled)
        \/ \E c \in Conns : DeleteConnection(k, c)
        \/ \E key \in Adapters : CreateAccount(k, key)
        \/ GetConnection(k) \/ ValidateCredentials(k) \/ MakeAccount(k)
        \/ InsertConnection(k) \/ WriteConnection(k) \/ RemoveConnection(k)
        \/ StatementFails(k)

-----------------------------------------------------------------------------
(***************************************************************************)
(* Properties.                                                             *)
(***************************************************************************)

\* A client that was told of success finds its credentials stored, unless a
\* later request replaced or deleted them, and the connection it deleted is gone
\* for good, whatever updates and other deletions of it were under way; the
\* credentials of a client that was refused are nowhere.  A client whose
\* statement failed knows nothing.  An account that the platform made can be
\* lost only by a request that is not answered with success.
ReportedIsStored ==
    \A k \in Clients :
        LET stored == \E c \in Conns : Kept(c) /\ conn[c].creds = k IN
        /\ request[k].pc = "ok" /\ request[k].op \in {"create", "update", "account"}
              => stored \/ k \in replaced
        /\ request[k].pc = "ok" /\ request[k].op = "delete" => ~Kept(request[k].conn)
        /\ request[k].pc = "refused" => ~stored
=============================================================================
