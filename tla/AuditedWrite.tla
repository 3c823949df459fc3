---------------------------- MODULE AuditedWrite ----------------------------
(***************************************************************************)
(* aj_shared.suite.record_audited_write: a governed write and its audit    *)
(* record in one transaction of the application's database connection.     *)
(*                                                                         *)
(* The helper is handed a connection and two callbacks.  It looks whether  *)
(* a transaction is open, checks the event, and runs the callbacks inside  *)
(* "with transaction:", which commits, or rolls back if anything raises.   *)
(* The connection, the callbacks and the process are the application's: a  *)
(* callback may raise half-way, a commit may fail, the process may end     *)
(* between any two steps, and outside the helper the application runs      *)
(* statements of its own on its connections and commits them when it       *)
(* likes.  A commit asked of a server may raise though the server applies  *)
(* it, at once or later: the connection breaks before the answer comes.    *)
(* As the contract asks, a connection serves one user at a time and no     *)
(* callback commits.                                                       *)
(*                                                                         *)
(* One element of Writes is one call of the helper.                        *)
(***************************************************************************)
CONSTANTS
    Writes,   \* calls of record_audited_write
    Invalid,  \* those whose actor or event does not pass the checks
    Conns,    \* connections of the application
    Remote,   \* those to a server, across a network; the others are local
    NoConn,   \* none of them
    Reports   \* whether the adapter has in_transaction (psycopg has not)

ASSUME RemoteAssumption == Remote \subseteq Conns

VARIABLES
    pc,       \* where each call stands
    conn,     \* the connection it was given
    pending,  \* what is uncommitted on each connection
    store,    \* what is committed
    approved  \* connections whose own statements the application committed

auditedVars == <<pc, conn, pending, store, approved>>

\* What can be pending or stored: the write of a call, its audit record, and the
\* application's own statement on a connection.
Change(w) == <<"change", w>>
AuditRecord(w) == <<"record", w>>
Own(c) == <<"own", c>>

Items == ({"change", "record"} \X Writes) \cup ({"own"} \X Conns)

Running == {"entered", "written", "audited", "failing"}

\* The connection serves a call, or the server has yet to decide on a commit.
Held == Running \cup {"doubt"}
InUse(c) == \E w \in Writes : pc[w] \in Held /\ conn[w] = c

-----------------------------------------------------------------------------
AuditedInit ==
    /\ pc = [w \in Writes |-> "idle"]
    /\ conn = [w \in Writes |-> NoConn]
    /\ pending = [c \in Conns |-> {}]
    /\ store = {}
    /\ approved = {}

(* The helper.                                                             *)

Goto(w, there) == pc' = [pc EXCEPT ![w] = there]

\* Mutant: an adapter's open transaction is not looked at.
InTransactionUnseen(c) == FALSE

\* getattr(transaction, "in_transaction", False)
InTransaction(c) == Reports /\ pending[c] # {}

\* ContractError: a transaction is open, or the event is not valid.
Reject(w) ==
    /\ pc[w] = "idle"
    /\ w \in Invalid \/ \E c \in Conns : ~InUse(c) /\ InTransaction(c)
    /\ Goto(w, "error")
    /\ UNCHANGED <<conn, pending, store, approved>>

\* Mutant: the event is not checked before the transaction is entered.
EnterUnchecked(w) ==
    /\ pc[w] = "idle"
    /\ \E c \in Conns :
          /\ ~InUse(c)
          /\ ~InTransaction(c)
          /\ conn' = [conn EXCEPT ![w] = c]
    /\ Goto(w, "entered")
    /\ UNCHANGED <<pending, store, approved>>

\* The checks pass, and the transaction is entered.
Enter(w) ==
    /\ pc[w] = "idle"
    /\ w \notin Invalid
    /\ \E c \in Conns :
          /\ ~InUse(c)
          /\ ~InTransaction(c)
          /\ conn' = [conn EXCEPT ![w] = c]
    /\ Goto(w, "entered")
    /\ UNCHANGED <<pending, store, approved>>

Add(w, item) == pending' = [pending EXCEPT ![conn[w]] = @ \cup {item}]

\* write(transaction) returns.
Write(w) ==
    /\ pc[w] = "entered"
    /\ Add(w, Change(w))
    /\ Goto(w, "written")
    /\ UNCHANGED <<conn, store, approved>>

\* Mutant: an audit sink that fails is put up with.
AuditFailsQuietly(w) ==
    /\ pc[w] = "written"
    /\ Goto(w, "audited")
    /\ UNCHANGED <<conn, pending, store, approved>>

\* audit_sink(transaction, record) returns.
Audit(w) ==
    /\ pc[w] = "written"
    /\ Add(w, AuditRecord(w))
    /\ Goto(w, "audited")
    /\ UNCHANGED <<conn, store, approved>>

\* Either callback raises, what it did so far pending or not.
WriteRaises(w) ==
    /\ pc[w] = "entered"
    /\ Add(w, Change(w)) \/ UNCHANGED pending
    /\ Goto(w, "failing")
    /\ UNCHANGED <<conn, store, approved>>

AuditRaises(w) ==
    /\ pc[w] = "written"
    /\ Add(w, AuditRecord(w)) \/ UNCHANGED pending
    /\ Goto(w, "failing")
    /\ UNCHANGED <<conn, store, approved>>

\* Mutant: an exception leaves the transaction open, with what is pending in it.
RollbackLeft(w) ==
    /\ pc[w] = "failing"
    /\ Goto(w, "error")
    /\ UNCHANGED <<conn, pending, store, approved>>

\* The end of the with block, after an exception or a local commit that fails.
Rollback(w) ==
    /\ \/ pc[w] = "failing"
       \/ pc[w] = "audited" /\ conn[w] \notin Remote
    /\ pending' = [pending EXCEPT ![conn[w]] = {}]
    /\ Goto(w, "error")
    /\ UNCHANGED <<conn, store, approved>>

\* The end of the with block: everything pending on the connection is committed.
Commit(w) ==
    /\ pc[w] = "audited"
    /\ store' = store \cup pending[conn[w]]
    /\ pending' = [pending EXCEPT ![conn[w]] = {}]
    /\ Goto(w, "committed")
    /\ UNCHANGED <<conn, approved>>

\* The commit raises, and what the server makes of it is not known.
CommitUnheard(w) ==
    /\ pc[w] = "audited"
    /\ conn[w] \in Remote
    /\ Goto(w, "doubt")
    /\ UNCHANGED <<conn, pending, store, approved>>

\* The server commits after all, or rolls back.
Settle(w) ==
    /\ pc[w] = "doubt"
    /\ store' = store \cup pending[conn[w]] \/ UNCHANGED store
    /\ pending' = [pending EXCEPT ![conn[w]] = {}]
    /\ Goto(w, "settled")
    /\ UNCHANGED <<conn, approved>>

Return(w) ==
    /\ pc[w] = "committed"
    /\ Goto(w, "ok")
    /\ UNCHANGED <<conn, pending, store, approved>>

-----------------------------------------------------------------------------
(* The application around it.                                              *)

OwnStatement(c) ==
    /\ ~InUse(c)
    /\ Own(c) \notin store \cup pending[c]
    /\ pending' = [pending EXCEPT ![c] = @ \cup {Own(c)}]
    /\ UNCHANGED <<pc, conn, store, approved>>

OwnCommit(c) ==
    /\ ~InUse(c)
    /\ Own(c) \in pending[c]
    /\ store' = store \cup pending[c]
    /\ pending' = [pending EXCEPT ![c] = {}]
    /\ approved' = approved \cup {c}
    /\ UNCHANGED <<pc, conn>>

OwnRollback(c) ==
    /\ ~InUse(c)
    /\ Own(c) \in pending[c]
    /\ pending' = [pending EXCEPT ![c] = {}]
    /\ UNCHANGED <<pc, conn, store, approved>>

\* The process ends: the callers are gone, and what is uncommitted is too, but for
\* what a server has been asked to commit.
ProcessEnds ==
    /\ pending' = [c \in Conns |->
                      IF \E w \in Writes : pc[w] = "doubt" /\ conn[w] = c
                      THEN pending[c] ELSE {}]
    /\ pc' = [w \in Writes |->
                 IF pc[w] \in Running \cup {"committed"} THEN "gone" ELSE pc[w]]
    /\ UNCHANGED <<conn, store, approved>>

-----------------------------------------------------------------------------
Call(w) ==
    \/ Reject(w) \/ Enter(w) \/ Write(w) \/ Audit(w) \/ WriteRaises(w)
    \/ AuditRaises(w) \/ Rollback(w) \/ Commit(w) \/ Return(w)
    \/ CommitUnheard(w) \/ Settle(w)

AuditedNext ==
    \/ \E w \in Writes : Call(w)
    \/ \E c \in Conns : OwnStatement(c) \/ OwnCommit(c) \/ OwnRollback(c)
    \/ ProcessEnds

AuditedSpec == AuditedInit /\ [][AuditedNext]_auditedVars
-----------------------------------------------------------------------------
AuditedTypeOK ==
    /\ pc \in [Writes -> Held \cup {"idle", "committed", "settled", "ok", "error", "gone"}]
    /\ conn \in [Writes -> Conns \cup {NoConn}]
    /\ \A w \in Writes : pc[w] \in Held => conn[w] \in Conns /\ w \notin Invalid
    /\ pending \in [Conns -> SUBSET Items]
    /\ store \subseteq Items
    /\ approved \subseteq Conns

\* A governed write is in the store with its audit record or not at all, at every
\* moment: nothing a callback, a failed or unheard commit or a crash does parts them.
AuditedTogether == \A w \in Writes : Change(w) \in store <=> AuditRecord(w) \in store

\* Where the adapter tells that a transaction is open, no statement of the
\* application is ever committed that the application did not commit itself.
NothingSmuggled == Reports => \A c \in Conns : Own(c) \in store => c \in approved

Told(w) ==
    IF pc[w] \in {"ok", "error"} THEN pc[w]
    ELSE IF pc[w] \in {"doubt", "settled"} THEN "doubt" ELSE "nothing"

Atomic == INSTANCE AtomicWrite WITH
    Doubtful <- Remote # {},
    done <- {w \in Writes : Change(w) \in store},
    told <- [w \in Writes |-> Told(w)]

\* The helper implements AtomicWrite: a caller that gets a result always finds its
\* write in the store; one that gets an exception never does, now or later, unless
\* the exception is that of a commit asked of a server.
ImplementsAtomicWrite == Atomic!AtomicSpec
=============================================================================
