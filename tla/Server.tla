------------------------------- MODULE Server -------------------------------
(***************************************************************************)
(* What requests wait for: the event loop, a thread, a connection of the   *)
(* pool and the row lock of a group.  app/session.py, app/dependencies.py  *)
(* and the way FastAPI runs app/api/ (one process, as start.sh has it).    *)
(*                                                                         *)
(* Dependencies run in threads, one hop after the other; between two hops  *)
(* the request waits for the loop and then for a thread.  The handler runs *)
(* on the loop and calls the database synchronously: whatever it waits     *)
(* for, the loop waits.  A session takes a connection at its first query   *)
(* and gives it back when it commits or is closed; a handler that goes on  *)
(* after its commit takes one again.  The session is closed after the      *)
(* handler, by a thread that only the loop can send.                       *)
(*                                                                         *)
(* Each element of Request is a slot: a request that has ended makes room  *)
(* for the next, and its kind stands for nothing.  Those that lock a group *)
(* row are about one group.                                                *)
(***************************************************************************)
EXTENDS Integers, FiniteSets, Sequences

CONSTANTS
    Request,      \* the requests under way at once
    PoolSize,     \* db_pool_size + db_max_overflow
    ThreadLimit,  \* the threads FastAPI runs dependencies in
    None          \* no request

ASSUME ServerAssumption ==
    /\ IsFiniteSet(Request) /\ None \notin Request
    /\ PoolSize \in Nat \ {0}
    /\ ThreadLimit \in Nat \ {0}

VARIABLES
    status,  \* where each request is
    kind,    \* what it asks for
    hop,     \* which of its dependencies it is at
    pooled,  \* the requests whose session has a connection
    row,     \* the request whose transaction has locked the group's row
    loop     \* the request whose handler the event loop is in

serverVars == <<status, kind, hop, pooled, row, loop>>

\* What the dependencies of a request do that may have to wait: "session"
\* opens its session without a query, "query" uses it, "own" opens and closes
\* one of verify_token's or revoke_token's own, and the next follows in the
\* same thread.  (Before a "query" the session was opened, which waits for a
\* thread like the "query" and holds nothing.  verify-2fa is a refresh followed
\* by a query in the same thread.)  The first "query" is get_current_user's, the
\* second require_group_member's.
Dependencies == [
    login   |-> <<"session">>,         \* register, srp-init, srp-verify
    refresh |-> <<"own", "own">>,      \* refresh, logout
    plain   |-> <<"query", "query">>,  \* what meets no lock of a group's row
    change  |-> <<"query", "query">>,  \* what does: members, keys, messages sent
    refused |-> <<"query", "query">>]  \* a removal that removes nobody

Kind   == DOMAIN Dependencies
Status == {"idle", "queued", "thread", "back", "raised", "handling", "again",
           "responded", "closing"}

\* What is not under /groups/{group_id} has the query of get_current_user only:
\* messages, keys, a group's creation, the list of groups; and delete_me, whose
\* change locks the rows of groups.
FirstHops(k) == IF k \in {"plain", "change"} THEN {1, 2} ELSE {1}

ServerInit ==
    /\ status = [r \in Request |-> "idle"]
    /\ kind = [r \in Request |-> "plain"]
    /\ hop = [r \in Request |-> 1]
    /\ pooled = {}
    /\ row = None
    /\ loop = None

Dependency(r) == Dependencies[kind[r]][hop[r]]
Free(taken)   == Cardinality(taken) < PoolSize

\* A thread counts as taken until the loop has seen its result.
Threads == {r \in Request : status[r] \in {"thread", "back", "raised"}}

Becomes(r, s) == status' = [status EXCEPT ![r] = s]

\* With its answer ready a request is at no dependency any more.
Answered(r) == Becomes(r, "responded") /\ hop' = [hop EXCEPT ![r] = 1]
-----------------------------------------------------------------------------
(* The loop, between two handlers. *)

admit(r, k) ==
    /\ loop = None
    /\ status[r] = "idle"
    /\ Becomes(r, "queued")
    /\ kind' = [kind EXCEPT ![r] = k]
    /\ \E h \in FirstHops(k) : hop' = [hop EXCEPT ![r] = h]
    /\ UNCHANGED <<pooled, row, loop>>

send_to_thread(r) ==
    /\ loop = None
    /\ status[r] = "queued"
    /\ Cardinality(Threads) < ThreadLimit
    /\ Becomes(r, "thread")
    /\ UNCHANGED <<kind, hop, pooled, row, loop>>

next_dependency(r) ==
    /\ loop = None
    /\ status[r] = "back"
    /\ hop[r] < Len(Dependencies[kind[r]])
    /\ Becomes(r, "queued")
    /\ hop' = [hop EXCEPT ![r] = @ + 1]
    /\ UNCHANGED <<kind, pooled, row, loop>>

\* The limiter may answer instead of the handler.
call_handler(r) ==
    /\ loop = None
    /\ status[r] = "back"
    /\ hop[r] = Len(Dependencies[kind[r]])
    /\ \/ Becomes(r, "handling") /\ loop' = r /\ UNCHANGED hop
       \/ Answered(r) /\ UNCHANGED loop
    /\ UNCHANGED <<kind, pooled, row>>

answer_exception(r) ==
    /\ loop = None
    /\ status[r] = "raised"
    /\ Answered(r)
    /\ UNCHANGED <<kind, pooled, row, loop>>

send_to_close(r) ==
    /\ loop = None
    /\ status[r] = "responded"
    /\ Becomes(r, "closing")
    /\ UNCHANGED <<kind, hop, pooled, row, loop>>
-----------------------------------------------------------------------------
(* Threads. *)

\* MUTANT of run_dependency: max_overflow=-1, which takes away the limit.
run_dependency_unlimited(r) ==
    /\ status[r] = "thread"
    /\ Dependency(r) \in {"session", "query"}
    /\ IF Dependency(r) = "session" THEN UNCHANGED pooled
       ELSE pooled' = pooled \cup {r}
    /\ Becomes(r, "back")
    /\ UNCHANGED <<kind, hop, row, loop>>

\* A dependency of the request's session; it may find a reason for 401, 403
\* or 404.
run_dependency(r) ==
    /\ status[r] = "thread"
    /\ Dependency(r) \in {"session", "query"}
    /\ \/ Dependency(r) = "session" /\ Becomes(r, "back") /\ UNCHANGED pooled
       \/ /\ Dependency(r) = "query"
          /\ r \in pooled \/ Free(pooled)
          /\ pooled' = pooled \cup {r}
          /\ Becomes(r, "back") \/ Becomes(r, "raised")
    /\ UNCHANGED <<kind, hop, row, loop>>

\* verify_token and revoke_token
open_own_session(r) ==
    /\ status[r] = "thread" /\ Dependency(r) = "own"
    /\ r \notin pooled /\ Free(pooled)
    /\ pooled' = pooled \cup {r}
    /\ UNCHANGED <<status, kind, hop, row, loop>>

\* On in the same thread, or back with the result.
Proceeds(r) ==
    IF hop[r] < Len(Dependencies[kind[r]])
    THEN hop' = [hop EXCEPT ![r] = @ + 1] /\ UNCHANGED status
    ELSE Becomes(r, "back") /\ UNCHANGED hop

\* MUTANT of close_own_session: the session is left open when it raises.
leave_own_session(r) ==
    /\ status[r] = "thread" /\ Dependency(r) = "own"
    /\ r \in pooled
    /\ \/ UNCHANGED pooled /\ Becomes(r, "raised") /\ UNCHANGED hop
       \/ pooled' = pooled \ {r} /\ Proceeds(r)
    /\ UNCHANGED <<kind, row, loop>>

close_own_session(r) ==
    /\ status[r] = "thread" /\ Dependency(r) = "own"
    /\ r \in pooled
    /\ pooled' = pooled \ {r}
    /\ \/ Becomes(r, "raised") /\ UNCHANGED hop
       \/ Proceeds(r)
    /\ UNCHANGED <<kind, row, loop>>

\* SQLAlchemy's pool gives up after 30 seconds.
WaitsForConnection(r) == r \notin pooled /\ ~Free(pooled)

thread_timeout(r) ==
    /\ status[r] = "thread"
    /\ Dependency(r) \in {"query", "own"}
    /\ WaitsForConnection(r)
    /\ Becomes(r, "raised")
    /\ UNCHANGED <<kind, hop, pooled, row, loop>>

\* MUTANT of close: pool_reset_on_return=None, which rolls nothing back.
close_without_rollback(r) ==
    /\ status[r] = "closing"
    /\ Becomes(r, "idle")
    /\ pooled' = IF Dependency(r) = "own" THEN pooled ELSE pooled \ {r}
    /\ kind' = [kind EXCEPT ![r] = "plain"]
    /\ UNCHANGED <<hop, row, loop>>

\* The request's session is closed: its transaction is rolled back.  (If the
\* request got no further than sessions of their own, this one holds nothing.)
close(r) ==
    /\ status[r] = "closing"
    /\ Becomes(r, "idle")
    /\ pooled' = IF Dependency(r) = "own" THEN pooled ELSE pooled \ {r}
    /\ row' = IF row = r THEN None ELSE row
    /\ kind' = [kind EXCEPT ![r] = "plain"]
    /\ UNCHANGED <<hop, loop>>
-----------------------------------------------------------------------------
(* The handler, with the loop in it. *)

Returns(r) == Answered(r) /\ loop' = None

\* register commits; the SRP handlers read and leave their transaction open.
handle_login(r) ==
    /\ status[r] = "handling" /\ kind[r] = "login"
    /\ Free(pooled)
    /\ pooled' \in {pooled, pooled \cup {r}}
    /\ Returns(r)
    /\ UNCHANGED <<kind, row>>

\* refresh and logout have nothing left to ask the database.
handle_refresh(r) ==
    /\ status[r] = "handling" /\ kind[r] = "refresh"
    /\ Returns(r)
    /\ UNCHANGED <<kind, pooled, row>>

\* A handler that read, or failed before its commit, leaves its transaction, in
\* which nothing is locked, to `close`.  A commit gives the connection back, and
\* the handler returns or needs the database again.
Answers(r) ==
    \/ pooled' \in {pooled, pooled \ {r}} /\ Returns(r)
    \/ pooled' = pooled \ {r} /\ Becomes(r, "again") /\ UNCHANGED <<hop, loop>>

\* Reads, receipts, revocations, fetched keys, direct messages, key bundles, and
\* a new group: they lock no row of a group that was there before.
handle_plain(r) ==
    /\ status[r] = "handling" /\ kind[r] = "plain"
    /\ Answers(r)
    /\ UNCHANGED <<kind, row>>

\* MUTANT of handle_change: the last commit of remove_member is forgotten.
handle_change_uncommitted(r) ==
    /\ status[r] = "handling" /\ kind[r] = "change"
    /\ row = None
    /\ row' = r
    /\ Returns(r)
    /\ UNCHANGED <<kind, pooled>>

\* What writes to a group meets its row's lock.
handle_change(r) ==
    /\ status[r] = "handling" /\ kind[r] = "change"
    /\ row = None
    /\ Answers(r)
    /\ UNCHANGED <<kind, row>>

\* remove_member raises, or finds nobody to remove, and does not commit.
handle_refused(r) ==
    /\ status[r] = "handling" /\ kind[r] = "refused"
    /\ row = None
    /\ row' = r
    /\ Returns(r)
    /\ UNCHANGED <<kind, pooled>>

\* After the commit: store_group_message and create_group refresh what they have
\* stored and keep the connection, add_one_time_prekeys commits once more.
handle_again(r) ==
    /\ status[r] = "again"
    /\ Free(pooled)
    /\ pooled' \in {pooled, pooled \cup {r}}
    /\ Returns(r)
    /\ UNCHANGED <<kind, row>>

\* MUTANT of handler_timeout: pool_timeout=None after a commit.
handler_timeout_login(r) ==
    /\ status[r] = "handling" /\ kind[r] = "login"
    /\ WaitsForConnection(r)
    /\ Returns(r)
    /\ UNCHANGED <<kind, pooled, row>>

\* The loop has waited for a connection in vain: 500, after a commit too.
handler_timeout(r) ==
    /\ \/ status[r] = "handling" /\ kind[r] = "login"
       \/ status[r] = "again"
    /\ WaitsForConnection(r)
    /\ Returns(r)
    /\ UNCHANGED <<kind, pooled, row>>
-----------------------------------------------------------------------------
LoopStep(r) ==
    \/ send_to_thread(r) \/ next_dependency(r) \/ call_handler(r)
    \/ answer_exception(r) \/ send_to_close(r)

ThreadStep(r) ==
    \/ run_dependency(r) \/ open_own_session(r) \/ close_own_session(r)
    \/ thread_timeout(r) \/ close(r)

HandlerStep(r) ==
    \/ handle_login(r) \/ handle_refresh(r) \/ handle_plain(r)
    \/ handle_change(r) \/ handle_refused(r)
    \/ handle_again(r) \/ handler_timeout(r)

ServerNext ==
    \E r \in Request : \/ \E k \in Kind : admit(r, k)
                       \/ LoopStep(r) \/ ThreadStep(r) \/ HandlerStep(r)

ServerSpec == ServerInit /\ [][ServerNext]_serverVars

\* The loop takes what is ready in turn, and hands out threads in turn; a
\* thread or a handler goes on when it can.  Nobody has to ask for anything.
ServerFairness ==
    /\ \A r \in Request : SF_serverVars(LoopStep(r)) /\ WF_serverVars(ThreadStep(r))
    /\ WF_serverVars(\E r \in Request : HandlerStep(r))

FairServerSpec == ServerSpec /\ ServerFairness
-----------------------------------------------------------------------------
(* What holds. *)

ServerTypeOK ==
    /\ status \in [Request -> Status]
    /\ kind \in [Request -> Kind]
    /\ hop \in [Request -> Nat \ {0}]
    /\ \A r \in Request : hop[r] <= Len(Dependencies[kind[r]])
    /\ pooled \subseteq Request /\ Cardinality(pooled) <= PoolSize
    /\ row \in Request \cup {None}
    /\ loop \in Request \cup {None}
    /\ \A r \in Request : status[r] \in {"handling", "again"} <=> loop = r
    /\ Cardinality(Threads) <= ThreadLimit

\* A request that has ended holds neither a connection nor a row, whichever
\* of its sessions raised, timed out or was refused (open_session).
NothingLeaks ==
    \A r \in Request : status[r] = "idle" => r \notin pooled /\ row # r

\* A handler that meets the lock of a group row meets it only at a removal
\* that removed nobody: every other transaction has ended with its handler
\* (commit in every method of SQLGroupRepository).
OnlyRefusalsHoldRows ==
    row # None =>
        /\ kind[row] = "refused"
        /\ status[row] \in {"responded", "closing"}
        /\ row \in pooled

\* A handler that cannot go on without the lock of the group's row.
NeedsRow(r) == status[r] = "handling" /\ kind[r] \in {"change", "refused"}

\* The loop waits for a row that is held until the loop closes a session.
Stuck == loop # None /\ row # None /\ NeedsRow(loop) /\ status[row] = "responded"

\* A request that needs nothing another one has: a thread goes on or times out,
\* what is next on the loop needs the loop; a handler goes on or times out too,
\* unless it needs the row.
CanGo(r) ==
    \/ status[r] \in {"thread", "closing"}
    \/ loop = None /\ status[r] \in {"back", "raised", "responded"}
    \/ loop = None /\ status[r] = "queued" /\ Cardinality(Threads) < ThreadLimit
    \/ loop = r /\ (NeedsRow(r) => row = None)

\* Requests that wait for the loop, a thread, a connection or a row never all wait
\* for each other, but for one case: the loop in a handler that meets the lock of
\* a refused removal (remove_member, whose session only the loop can have closed).
SomebodyGoesOrStuck ==
    (\E r \in Request : status[r] # "idle") => Stuck \/ \E r \in Request : CanGo(r)

\* Every request ends (time and again there is room for the next), however many
\* connections and threads others hold or wait for, unless the loop has met the
\* lock of a refused removal (remove_member, QueuePool's timeout).
EveryRequestEnds ==
    \A r \in Request : []<>(status[r] = "idle" \/ Stuck)
=============================================================================
