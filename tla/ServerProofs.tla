---------------------------- MODULE ServerProofs ----------------------------
(***************************************************************************)
(* For any number of requests, connections and threads: what requests      *)
(* hold, they give back, and a row lock outlives its handler only in a     *)
(* removal that removed nobody.                                            *)
(***************************************************************************)
EXTENDS Server, FiniteSetTheorems, TLAPS

\* The sessions a refresh opens are open only in the thread that opened them: its
\* handler needs none.
OwnSessionInThread ==
    \A r \in Request : kind[r] = "refresh" =>
        /\ r \in pooled => status[r] = "thread"
        /\ status[r] # "again"

\* A request that has queried has its connection until its handler gives it back.
SessionInUse ==
    \A r \in Request :
        /\ kind[r] \in {"plain", "change", "refused"}
        /\ status[r] \in {"back", "handling"}
        => r \in pooled

ServerInvariant ==
    /\ ServerTypeOK
    /\ NothingLeaks
    /\ OnlyRefusalsHoldRows
    /\ OwnSessionInThread
    /\ SessionInUse
-----------------------------------------------------------------------------
(* The dependencies. *)

\* How many hops each kind has.
LEMMA HopCount ==
    /\ Len(Dependencies["login"]) = 1 /\ Len(Dependencies["refresh"]) = 2
    /\ Len(Dependencies["plain"]) = 2 /\ Len(Dependencies["change"]) = 2
    /\ Len(Dependencies["refused"]) = 2
BY DEF Dependencies

\* The kinds of request.
LEMMA Kinds == Kind = {"login", "refresh", "plain", "change", "refused"}
BY DEF Kind, Dependencies

\* Each kind has a hop.
LEMMA SomeHop ==
    ASSUME NEW k \in Kind
    PROVE  Len(Dependencies[k]) \in Nat /\ 1 <= Len(Dependencies[k])
<1>1. CASE k = "login" BY <1>1, HopCount
<1>2. CASE k = "refresh" BY <1>2, HopCount
<1>3. CASE k = "plain" BY <1>3, HopCount
<1>4. CASE k = "change" BY <1>4, HopCount
<1>5. CASE k = "refused" BY <1>5, HopCount
<1> QED BY <1>1, <1>2, <1>3, <1>4, <1>5, Kinds

\* A request begins at a hop of its kind.
LEMMA BeginsAtHop ==
    ASSUME NEW k \in Kind, NEW h \in FirstHops(k)
    PROVE  h \in Nat \ {0} /\ h <= Len(Dependencies[k])
<1>1. CASE k \in {"plain", "change"}
  <2>1. Len(Dependencies[k]) = 2 BY <1>1, HopCount
  <2>2. h \in {1, 2} BY <1>1 DEF FirstHops
  <2> QED BY <2>1, <2>2
<1>2. CASE k \notin {"plain", "change"}
  <2>1. h = 1 BY <1>2 DEF FirstHops
  <2> QED BY <2>1, SomeHop
<1> QED BY <1>1, <1>2

\* What each hop of a kind is.
LEMMA HopIs ==
    ASSUME NEW r, kind[r] \in Kind, hop[r] \in Nat \ {0},
           hop[r] <= Len(Dependencies[kind[r]])
    PROVE  /\ kind[r] = "login" => Dependency(r) = "session" /\ hop[r] = 1
           /\ kind[r] = "refresh" => Dependency(r) = "own" /\ hop[r] \in {1, 2}
           /\ kind[r] \in {"plain", "change", "refused"} =>
                  Dependency(r) = "query" /\ hop[r] \in {1, 2}
<1>1. CASE kind[r] = "login"
  <2>1. Len(Dependencies[kind[r]]) = 1 BY <1>1, HopCount
  <2>2. hop[r] = 1 BY <2>1
  <2> QED BY <1>1, <2>2 DEF Dependency, Dependencies
<1>2. CASE kind[r] = "refresh"
  <2>1. Len(Dependencies[kind[r]]) = 2 BY <1>2, HopCount
  <2>2. hop[r] = 1 \/ hop[r] = 2 BY <2>1
  <2>3. Dependencies[kind[r]] = <<"own", "own">> BY <1>2 DEF Dependencies
  <2> QED BY <1>2, <2>2, <2>3 DEF Dependency
<1>3. CASE kind[r] \in {"plain", "change", "refused"}
  <2>1. Len(Dependencies[kind[r]]) = 2 BY <1>3, HopCount
  <2>2. hop[r] = 1 \/ hop[r] = 2 BY <2>1
  <2>3. Dependencies[kind[r]] = <<"query", "query">> BY <1>3 DEF Dependencies
  <2> QED BY <1>3, <2>2, <2>3 DEF Dependency
<1> QED BY <1>1, <1>2, <1>3, Kinds
-----------------------------------------------------------------------------
(* The limits. *)

\* What is taken from a set within a limit leaves it within the limit.
LEMMA Fewer ==
    ASSUME NEW S, NEW T, NEW n \in Nat,
           IsFiniteSet(S), T \subseteq S, Cardinality(S) <= n
    PROVE  Cardinality(T) <= n
BY FS_Subset, FS_CardinalityType

\* One more fits where the limit is not reached.
LEMMA OneMore ==
    ASSUME NEW S, NEW x, NEW n \in Nat, IsFiniteSet(S), Cardinality(S) < n
    PROVE  Cardinality(S \cup {x}) <= n
<1>1. CASE x \in S
  <2>1. S \cup {x} = S BY <1>1
  <2>2. Cardinality(S \cup {x}) = Cardinality(S) BY <2>1
  <2>3. Cardinality(S) \in Nat BY FS_CardinalityType
  <2> QED BY <2>2, <2>3
<1>2. CASE x \notin S
  <2>1. Cardinality(S \cup {x}) = Cardinality(S) + 1 BY <1>2, FS_AddElement
  <2> QED BY <2>1, FS_CardinalityType
<1> QED BY <1>1, <1>2

\* Requests are finite in number, and the limits are numbers.
LEMMA Finite ==
    /\ \A S \in SUBSET Request : IsFiniteSet(S)
    /\ PoolSize \in Nat /\ ThreadLimit \in Nat
BY ServerAssumption, FS_Subset

\* What a new status of one request does to the threads that are taken.
LEMMA ThreadsAfter ==
    ASSUME NEW r \in Request, NEW s,
           status \in [Request -> Status],
           Cardinality(Threads) <= ThreadLimit,
           Becomes(r, s),
           \/ s \notin {"thread", "back", "raised"}
           \/ status[r] \in {"thread", "back", "raised"}
           \/ Cardinality(Threads) < ThreadLimit
    PROVE  Cardinality(Threads') <= ThreadLimit
<1>1. Threads \in SUBSET Request BY DEF Threads
<1>2. CASE Cardinality(Threads) < ThreadLimit
  <2>1. Threads' \subseteq Threads \cup {r} BY DEF Threads, Becomes
  <2>2. Cardinality(Threads \cup {r}) <= ThreadLimit
    BY <1>1, <1>2, Finite, OneMore
  <2>3. IsFiniteSet(Threads \cup {r}) BY <1>1, Finite
  <2> QED BY <2>1, <2>2, <2>3, Finite, Fewer
<1>3. CASE \/ s \notin {"thread", "back", "raised"}
           \/ status[r] \in {"thread", "back", "raised"}
  <2>1. Threads' \subseteq Threads BY <1>3 DEF Threads, Becomes
  <2> QED BY <1>1, <2>1, Finite, Fewer
<1> QED BY <1>2, <1>3

\* Taking a free connection leaves the pool within its limit.
LEMMA PooledAfter ==
    ASSUME NEW r, pooled \subseteq Request, Cardinality(pooled) <= PoolSize,
           r \in pooled \/ Free(pooled)
    PROVE  Cardinality(pooled \cup {r}) <= PoolSize
<1>1. CASE r \in pooled
  <2>1. pooled \cup {r} = pooled BY <1>1
  <2> QED BY <2>1
<1>2. CASE Free(pooled)
  BY <1>2, Finite, OneMore DEF Free
<1> QED BY <1>1, <1>2
-----------------------------------------------------------------------------
(* The loop. *)

\* A request begins with nothing.
LEMMA AdmitKeeps ==
    ASSUME ServerInvariant, NEW r \in Request, NEW k \in Kind, admit(r, k)
    PROVE  ServerInvariant'
<1> USE DEF ServerInvariant, ServerTypeOK, admit, Status
<1>1. Cardinality(Threads') <= ThreadLimit BY ThreadsAfter
<1>2. PICK h \in FirstHops(k) : hop' = [hop EXCEPT ![r] = h] OBVIOUS
<1>3. h \in Nat \ {0} /\ h <= Len(Dependencies[k]) BY BeginsAtHop
<1>4. ServerTypeOK' BY <1>1, <1>2, <1>3 DEF Becomes
<1>5. NothingLeaks' BY DEF NothingLeaks, Becomes
<1>6. OnlyRefusalsHoldRows' BY DEF OnlyRefusalsHoldRows, Becomes, NothingLeaks
<1>7. OwnSessionInThread' BY DEF OwnSessionInThread, NothingLeaks, Becomes
<1>8. SessionInUse' BY DEF SessionInUse, Becomes
<1> QED BY <1>4, <1>5, <1>6, <1>7, <1>8

\* A request is given a thread.
LEMMA SendToThreadKeeps ==
    ASSUME ServerInvariant, NEW r \in Request, send_to_thread(r)
    PROVE  ServerInvariant'
<1> USE DEF ServerInvariant, ServerTypeOK, send_to_thread, Status
<1>1. Cardinality(Threads') <= ThreadLimit BY ThreadsAfter
<1>2. ServerTypeOK' BY <1>1 DEF Becomes
<1>3. NothingLeaks' BY DEF NothingLeaks, Becomes
<1>4. OnlyRefusalsHoldRows' BY DEF OnlyRefusalsHoldRows, Becomes
<1>5. OwnSessionInThread' BY DEF OwnSessionInThread, Becomes
<1>6. SessionInUse' BY DEF SessionInUse, Becomes
<1> QED BY <1>2, <1>3, <1>4, <1>5, <1>6

\* A request goes on to its next dependency.
LEMMA NextDependencyKeeps ==
    ASSUME ServerInvariant, NEW r \in Request, next_dependency(r)
    PROVE  ServerInvariant'
<1> USE DEF ServerInvariant, ServerTypeOK, next_dependency, Status
<1>1. Cardinality(Threads') <= ThreadLimit BY ThreadsAfter
<1>2. Len(Dependencies[kind[r]]) \in Nat BY SomeHop
<1>3. ServerTypeOK' BY <1>1, <1>2 DEF Becomes
<1>4. NothingLeaks' BY DEF NothingLeaks, Becomes
<1>5. OnlyRefusalsHoldRows' BY DEF OnlyRefusalsHoldRows, Becomes
<1>6. OwnSessionInThread' BY DEF OwnSessionInThread, Becomes
<1>7. SessionInUse' BY DEF SessionInUse, Becomes
<1> QED BY <1>3, <1>4, <1>5, <1>6, <1>7

\* The handler is called, or the limiter answers.
LEMMA CallHandlerKeeps ==
    ASSUME ServerInvariant, NEW r \in Request, call_handler(r)
    PROVE  ServerInvariant'
<1> USE DEF ServerInvariant, ServerTypeOK, call_handler, Status, Answered
<1>0. r # None BY ServerAssumption
<1>1. Cardinality(Threads') <= ThreadLimit BY ThreadsAfter
<1>2. ServerTypeOK'
  <2>1. CASE Becomes(r, "handling") /\ loop' = r /\ UNCHANGED hop
    <3>1. \A q \in Request : q # None BY ServerAssumption
    <3>2. \A q \in Request : status'[q] \in {"handling", "again"} <=> loop' = q
      BY <2>1, <3>1 DEF Becomes
    <3>3. status' \in [Request -> Status] BY <2>1 DEF Becomes
    <3> QED BY <1>1, <2>1, <3>2, <3>3
  <2>2. CASE Answered(r) /\ UNCHANGED loop BY <1>1, <2>2, SomeHop DEF Becomes
  <2> QED BY <2>1, <2>2
<1>3. NothingLeaks' BY DEF NothingLeaks, Becomes
<1>4. OnlyRefusalsHoldRows' BY DEF OnlyRefusalsHoldRows, Becomes
<1>5. OwnSessionInThread' BY DEF OwnSessionInThread, Becomes
<1>6. SessionInUse' BY DEF SessionInUse, Becomes
<1> QED BY <1>2, <1>3, <1>4, <1>5, <1>6

\* A request is answered, or its sessions are about to be closed.
LEMMA AnswerKeeps ==
    ASSUME ServerInvariant, NEW r \in Request,
           answer_exception(r) \/ send_to_close(r)
    PROVE  ServerInvariant'
<1> USE DEF ServerInvariant, ServerTypeOK, answer_exception, send_to_close, Status,
            Answered
<1>1. Cardinality(Threads') <= ThreadLimit BY ThreadsAfter
<1>2. ServerTypeOK' BY <1>1, SomeHop DEF Becomes
<1>3. NothingLeaks' BY DEF NothingLeaks, Becomes
<1>4. OnlyRefusalsHoldRows' BY DEF OnlyRefusalsHoldRows, Becomes
<1>5. OwnSessionInThread' BY DEF OwnSessionInThread, Becomes
<1>6. SessionInUse' BY DEF SessionInUse, Becomes
<1> QED BY <1>2, <1>3, <1>4, <1>5, <1>6
-----------------------------------------------------------------------------
(* Threads. *)

\* A dependency of the request's session runs.
LEMMA RunDependencyKeeps ==
    ASSUME ServerInvariant, NEW r \in Request, run_dependency(r)
    PROVE  ServerInvariant'
<1> USE DEF ServerInvariant, ServerTypeOK, run_dependency, Status
<1>1. PICK s \in {"back", "raised"} : Becomes(r, s) OBVIOUS
<1>2. Cardinality(Threads') <= ThreadLimit BY <1>1, ThreadsAfter
<1>3. /\ Dependency(r) = "session" => kind[r] = "login"
      /\ kind[r] # "refresh"
  BY HopIs, Kinds
<1>4. \/ Dependency(r) = "session" /\ pooled' = pooled
      \/ /\ Dependency(r) = "query" /\ pooled' = pooled \cup {r}
         /\ r \in pooled \/ Free(pooled)
  OBVIOUS
<1>5. Cardinality(pooled') <= PoolSize
  <2>1. CASE pooled' = pooled BY <2>1
  <2>2. CASE pooled' = pooled \cup {r} /\ (r \in pooled \/ Free(pooled))
    BY <2>2, PooledAfter
  <2> QED BY <1>4, <2>1, <2>2
<1>6. ServerTypeOK' BY <1>1, <1>2, <1>4, <1>5 DEF Becomes
<1>7. NothingLeaks' BY <1>1, <1>4 DEF NothingLeaks, Becomes
<1>8. OnlyRefusalsHoldRows' BY <1>1, <1>4 DEF OnlyRefusalsHoldRows, Becomes
<1>9. OwnSessionInThread' BY <1>1, <1>3, <1>4 DEF OwnSessionInThread, Becomes
<1>10. SessionInUse' BY <1>1, <1>3, <1>4 DEF SessionInUse, Becomes
<1> QED BY <1>6, <1>7, <1>8, <1>9, <1>10

\* verify_token or revoke_token takes a connection.
LEMMA OpenOwnSessionKeeps ==
    ASSUME ServerInvariant, NEW r \in Request, open_own_session(r)
    PROVE  ServerInvariant'
<1> USE DEF ServerInvariant, ServerTypeOK, open_own_session
<1>1. Cardinality(pooled') <= PoolSize BY PooledAfter
<1>2. ServerTypeOK' BY <1>1 DEF Threads
<1>3. NothingLeaks' BY DEF NothingLeaks
<1>4. OnlyRefusalsHoldRows' BY DEF OnlyRefusalsHoldRows
<1>5. OwnSessionInThread' BY DEF OwnSessionInThread
<1>6. SessionInUse' BY DEF SessionInUse
<1> QED BY <1>2, <1>3, <1>4, <1>5, <1>6

\* It gives the connection back, whether it raises or not.
LEMMA CloseOwnSessionKeeps ==
    ASSUME ServerInvariant, NEW r \in Request, close_own_session(r)
    PROVE  ServerInvariant'
<1> USE DEF ServerInvariant, ServerTypeOK, close_own_session, Status
<1>1. kind[r] = "refresh" BY HopIs, Kinds
<1>2. Cardinality(pooled') <= PoolSize BY Finite, Fewer
<1>3. CASE /\ UNCHANGED <<status, kind, row, loop>>
           /\ hop[r] < Len(Dependencies[kind[r]])
           /\ hop' = [hop EXCEPT ![r] = @ + 1]
  <2>1. Len(Dependencies[kind[r]]) \in Nat BY SomeHop
  <2>2. ServerTypeOK' BY <1>2, <1>3, <2>1 DEF Threads
  <2>3. NothingLeaks' BY <1>3 DEF NothingLeaks
  <2>4. OnlyRefusalsHoldRows' BY <1>1, <1>3 DEF OnlyRefusalsHoldRows
  <2>5. OwnSessionInThread' BY <1>3 DEF OwnSessionInThread
  <2>6. SessionInUse' BY <1>1, <1>3 DEF SessionInUse
  <2> QED BY <2>2, <2>3, <2>4, <2>5, <2>6
<1>4. CASE /\ UNCHANGED <<kind, hop, row, loop>>
           /\ Becomes(r, "back") \/ Becomes(r, "raised")
  <2>1. PICK s \in {"back", "raised"} : Becomes(r, s) BY <1>4
  <2>2. Cardinality(Threads') <= ThreadLimit BY <2>1, ThreadsAfter
  <2>3. ServerTypeOK' BY <1>2, <1>4, <2>1, <2>2 DEF Becomes
  <2>4. NothingLeaks' BY <1>4, <2>1 DEF NothingLeaks, Becomes
  <2>5. OnlyRefusalsHoldRows' BY <1>1, <1>4, <2>1 DEF OnlyRefusalsHoldRows, Becomes
  <2>6. OwnSessionInThread' BY <1>4, <2>1 DEF OwnSessionInThread, Becomes
  <2>7. SessionInUse' BY <1>1, <1>4, <2>1 DEF SessionInUse, Becomes
  <2> QED BY <2>3, <2>4, <2>5, <2>6, <2>7
<1> QED BY <1>3, <1>4 DEF Proceeds

\* Waiting for a connection ends with an error and no connection.
LEMMA ThreadTimeoutKeeps ==
    ASSUME ServerInvariant, NEW r \in Request, thread_timeout(r)
    PROVE  ServerInvariant'
<1> USE DEF ServerInvariant, ServerTypeOK, thread_timeout, Status
<1>1. Cardinality(Threads') <= ThreadLimit BY ThreadsAfter
<1>2. ServerTypeOK' BY <1>1 DEF Becomes
<1>3. NothingLeaks' BY DEF NothingLeaks, Becomes
<1>4. OnlyRefusalsHoldRows' BY DEF OnlyRefusalsHoldRows, Becomes
<1>5. OwnSessionInThread' BY DEF OwnSessionInThread, Becomes, WaitsForConnection
<1>6. SessionInUse' BY DEF SessionInUse, Becomes
<1> QED BY <1>2, <1>3, <1>4, <1>5, <1>6

\* Closing a session gives back what it held.
LEMMA CloseKeeps ==
    ASSUME ServerInvariant, NEW r \in Request, close(r)
    PROVE  ServerInvariant'
<1> USE DEF ServerInvariant, ServerTypeOK, close, Status
<1>0. r # None BY ServerAssumption
<1>1. Cardinality(Threads') <= ThreadLimit BY ThreadsAfter
<1>2. pooled' \subseteq pooled OBVIOUS
<1>3. Cardinality(pooled') <= PoolSize BY <1>2, Finite, Fewer
<1>4. r \notin pooled' BY HopIs, Kinds DEF OwnSessionInThread
<1>5. "plain" \in Kind /\ hop[r] <= Len(Dependencies["plain"])
  <2>1. hop[r] = 1 \/ hop[r] = 2 BY HopIs, Kinds
  <2> QED BY <2>1, HopCount, Kinds
<1>6. ServerTypeOK' BY <1>1, <1>2, <1>3, <1>5 DEF Becomes
<1>7. NothingLeaks'
  <2>1. \A q \in Request : q # r => status'[q] = status[q] BY DEF Becomes
  <2>2. row' # r /\ (row' = row \/ row' = None) BY <1>0
  <2>3. \A q \in Request : q # None BY ServerAssumption
  <2> QED BY <1>2, <1>4, <2>1, <2>2, <2>3 DEF NothingLeaks
<1>8. OnlyRefusalsHoldRows' BY DEF OnlyRefusalsHoldRows, Becomes
<1>9. OwnSessionInThread' BY <1>2, <1>4 DEF OwnSessionInThread, Becomes
<1>10. SessionInUse' BY DEF SessionInUse, Becomes
<1> QED BY <1>6, <1>7, <1>8, <1>9, <1>10
-----------------------------------------------------------------------------
(* The handlers. *)

\* A handler that returns leaves the loop to others; where the pool keeps to its
\* limit, so does everything.
LEMMA ReturnKeepsTypes ==
    ASSUME ServerTypeOK, NEW r \in Request, loop = r, Returns(r), kind' = kind,
           pooled' \subseteq Request, Cardinality(pooled') <= PoolSize,
           row' \in Request \cup {None}
    PROVE  ServerTypeOK'
<1> USE DEF ServerTypeOK, Status, Returns, Answered
<1>1. \A q \in Request : q # None BY ServerAssumption
<1>2. Cardinality(Threads') <= ThreadLimit BY ThreadsAfter
<1>3. \A q \in Request : status'[q] \in {"handling", "again"} <=> loop' = q
  BY <1>1 DEF Becomes
<1>4. status' \in [Request -> Status] BY DEF Becomes
<1>5. hop' \in [Request -> Nat \ {0}] OBVIOUS
<1>6. \A q \in Request : hop'[q] <= Len(Dependencies[kind'[q]]) BY SomeHop
<1> QED BY <1>2, <1>3, <1>4, <1>5, <1>6

\* A handler that takes or gives back no more than a connection, and returns.
LEMMA ReturnKeeps ==
    ASSUME ServerInvariant, NEW r \in Request, loop = r, Returns(r),
           kind' = kind, row' = row,
           \/ pooled' \subseteq pooled /\ pooled \ {r} \subseteq pooled'
           \/ pooled' = pooled \cup {r} /\ Free(pooled) /\ kind[r] # "refresh"
    PROVE  ServerInvariant'
<1> USE DEF ServerInvariant
<1>1. r # None /\ status[r] \in {"handling", "again"}
  BY ServerAssumption DEF ServerTypeOK
<1>2. /\ status' = [status EXCEPT ![r] = "responded"]
      /\ status \in [Request -> Status]
  BY DEF Returns, Answered, Becomes, ServerTypeOK
<1>3. pooled' \subseteq Request /\ Cardinality(pooled') <= PoolSize
  BY PooledAfter, Finite, Fewer DEF ServerTypeOK
<1>4. ServerTypeOK' BY <1>3, ReturnKeepsTypes DEF ServerTypeOK
<1>5. \A q \in Request : q # r => (q \in pooled' <=> q \in pooled) OBVIOUS
<1>6. NothingLeaks' BY <1>2, <1>5 DEF NothingLeaks
<1>7. OnlyRefusalsHoldRows' BY <1>1, <1>2, <1>5 DEF OnlyRefusalsHoldRows
<1>8. OwnSessionInThread'
  BY <1>1, <1>2, <1>5 DEF OwnSessionInThread, ServerTypeOK
<1>9. SessionInUse' BY <1>2, <1>5 DEF SessionInUse
<1> QED BY <1>4, <1>6, <1>7, <1>8, <1>9

\* A handler commits and goes on.
LEMMA GoOnKeeps ==
    ASSUME ServerInvariant, NEW r \in Request, loop = r, Becomes(r, "again"),
           kind[r] # "refresh", pooled' = pooled \ {r}, UNCHANGED <<kind, hop, row, loop>>
    PROVE  ServerInvariant'
<1> USE DEF ServerInvariant
<1>1. r # None /\ status[r] \in {"handling", "again"}
  BY ServerAssumption DEF ServerTypeOK
<1>2. /\ status' = [status EXCEPT ![r] = "again"]
      /\ status \in [Request -> Status]
  BY DEF Becomes, ServerTypeOK
<1>3. pooled' \subseteq Request /\ Cardinality(pooled') <= PoolSize
  BY Finite, Fewer DEF ServerTypeOK
<1>4. ServerTypeOK'
  <2>1. Cardinality(Threads') <= ThreadLimit
    BY <1>1, ThreadsAfter DEF ServerTypeOK
  <2>2. \A q \in Request : status'[q] \in {"handling", "again"} <=> loop' = q
    BY <1>1, <1>2 DEF ServerTypeOK
  <2>3. status' \in [Request -> Status] BY <1>2 DEF Status
  <2> QED BY <1>3, <2>1, <2>2, <2>3 DEF ServerTypeOK
<1>5. \A q \in Request : q # r => (q \in pooled' <=> q \in pooled) OBVIOUS
<1>6. NothingLeaks' BY <1>2, <1>5 DEF NothingLeaks
<1>7. OnlyRefusalsHoldRows' BY <1>1, <1>2, <1>5 DEF OnlyRefusalsHoldRows
<1>8. OwnSessionInThread' BY <1>2, <1>5 DEF OwnSessionInThread
<1>9. SessionInUse' BY <1>2, <1>5 DEF SessionInUse
<1> QED BY <1>4, <1>6, <1>7, <1>8, <1>9

\* The handlers that take a connection, or wait for one in vain.
LEMMA ConnectingHandlerKeeps ==
    ASSUME ServerInvariant, NEW r \in Request,
           handle_login(r) \/ handle_again(r) \/ handler_timeout(r)
    PROVE  ServerInvariant'
<1>1. /\ \/ status[r] = "handling" /\ kind[r] = "login"
         \/ status[r] = "again"
      /\ Returns(r) /\ UNCHANGED <<kind, row>>
      /\ pooled' = pooled \/ (pooled' = pooled \cup {r} /\ Free(pooled))
  BY DEF handle_login, handle_again, handler_timeout
<1>2. loop = r BY <1>1 DEF ServerInvariant, ServerTypeOK
<1>3. kind[r] # "refresh" BY <1>1 DEF ServerInvariant, OwnSessionInThread
<1> QED BY <1>1, <1>2, <1>3, ReturnKeeps

\* The handlers that read, fail or commit.
LEMMA AnsweringHandlerKeeps ==
    ASSUME ServerInvariant, NEW r \in Request,
           handle_refresh(r) \/ handle_plain(r) \/ handle_change(r)
    PROVE  ServerInvariant'
<1>1. loop = r
  BY DEF ServerInvariant, ServerTypeOK, handle_refresh, handle_plain, handle_change
<1>2. CASE Returns(r)
  BY <1>1, <1>2, ReturnKeeps DEF handle_refresh, handle_plain, handle_change, Answers
<1>3. CASE ~Returns(r)
  BY <1>1, <1>3, GoOnKeeps DEF handle_refresh, handle_plain, handle_change, Answers
<1> QED BY <1>2, <1>3

\* A removal that removes nobody keeps the lock, and the connection.
LEMMA HandleRefusedKeeps ==
    ASSUME ServerInvariant, NEW r \in Request, handle_refused(r)
    PROVE  ServerInvariant'
<1> USE DEF ServerInvariant, handle_refused
<1>1. loop = r /\ r # None BY ServerAssumption DEF ServerTypeOK
<1>2. /\ status' = [status EXCEPT ![r] = "responded"]
      /\ status \in [Request -> Status]
  BY DEF Returns, Answered, Becomes, ServerTypeOK
<1>3. ServerTypeOK' BY <1>1, ReturnKeepsTypes DEF ServerTypeOK
<1>4. NothingLeaks' BY <1>2 DEF NothingLeaks
<1>5. r \in pooled BY DEF SessionInUse
<1>6. OnlyRefusalsHoldRows' BY <1>1, <1>2, <1>5 DEF OnlyRefusalsHoldRows
<1>7. OwnSessionInThread' BY <1>2 DEF OwnSessionInThread
<1>8. SessionInUse' BY <1>2 DEF SessionInUse
<1> QED BY <1>3, <1>4, <1>6, <1>7, <1>8
-----------------------------------------------------------------------------
(* The theorems. *)

\* Nothing is held before the first request.
LEMMA InitHolds == ServerInit => ServerInvariant
<1> SUFFICES ASSUME ServerInit PROVE ServerInvariant OBVIOUS
<1> USE DEF ServerInit
<1>1. Cardinality({}) = 0 BY FS_EmptySet
<1>2. Threads = {} BY DEF Threads
<1>3. "plain" \in Kind /\ 1 <= Len(Dependencies["plain"]) BY HopCount, Kinds
<1>4. Cardinality(Threads) <= ThreadLimit BY <1>1, <1>2, Finite
<1>5. ServerTypeOK
  BY <1>1, <1>3, <1>4, Finite, ServerAssumption DEF ServerTypeOK, Status
<1>6. NothingLeaks BY ServerAssumption DEF NothingLeaks
<1>7. OnlyRefusalsHoldRows BY DEF OnlyRefusalsHoldRows
<1>8. OwnSessionInThread /\ SessionInUse
  BY DEF OwnSessionInThread, SessionInUse
<1> QED BY <1>5, <1>6, <1>7, <1>8 DEF ServerInvariant

\* Every step keeps the invariant.
LEMMA StepKeeps ==
    ServerInvariant /\ [ServerNext]_serverVars => ServerInvariant'
<1> SUFFICES ASSUME ServerInvariant, [ServerNext]_serverVars
             PROVE  ServerInvariant'
  OBVIOUS
<1>1. CASE UNCHANGED serverVars
  BY <1>1 DEF serverVars, ServerInvariant, ServerTypeOK, NothingLeaks, Threads,
     OnlyRefusalsHoldRows, OwnSessionInThread, SessionInUse
<1>2. CASE ServerNext
  <2>1. PICK r \in Request : \/ \E k \in Kind : admit(r, k)
                             \/ LoopStep(r) \/ ThreadStep(r) \/ HandlerStep(r)
    BY <1>2 DEF ServerNext
  <2>2. CASE \E k \in Kind : admit(r, k) BY <2>2, AdmitKeeps
  <2>3. CASE LoopStep(r)
    BY <2>3, SendToThreadKeeps, NextDependencyKeeps, CallHandlerKeeps, AnswerKeeps
       DEF LoopStep
  <2>4. CASE ThreadStep(r)
    BY <2>4, RunDependencyKeeps, OpenOwnSessionKeeps, CloseOwnSessionKeeps,
       ThreadTimeoutKeeps, CloseKeeps DEF ThreadStep
  <2>5. CASE HandlerStep(r)
    BY <2>5, ConnectingHandlerKeeps, AnsweringHandlerKeeps, HandleRefusedKeeps
       DEF HandlerStep
  <2> QED BY <2>1, <2>2, <2>3, <2>4, <2>5
<1> QED BY <1>1, <1>2

\* The invariant holds of every reachable state.
LEMMA InvariantHolds == ServerSpec => []ServerInvariant
BY InitHolds, StepKeeps, PTL DEF ServerSpec

\* The pool and the threads keep to their limits, and the loop is in one
\* handler at a time, for any number of requests.
THEOREM LimitsKept == ServerSpec => []ServerTypeOK
<1>1. ServerInvariant => ServerTypeOK BY DEF ServerInvariant
<1> QED BY <1>1, InvariantHolds, PTL

\* Whichever way a request ends, it holds neither a connection nor a lock.
THEOREM EndedHoldNothing == ServerSpec => []NothingLeaks
<1>1. ServerInvariant => NothingLeaks BY DEF ServerInvariant
<1> QED BY <1>1, InvariantHolds, PTL

\* The lock of a group row outlives its handler only in a removal that removed
\* nobody, and with it the connection.
THEOREM LocksEndWithHandlers == ServerSpec => []OnlyRefusalsHoldRows
<1>1. ServerInvariant => OnlyRefusalsHoldRows BY DEF ServerInvariant
<1> QED BY <1>1, InvariantHolds, PTL

\* Where all threads are taken, one of them is at work or has a result.
LEMMA SomeThread ==
    ASSUME Cardinality(Threads) >= ThreadLimit
    PROVE  \E r \in Request : status[r] \in {"thread", "back", "raised"}
<1>1. ThreadLimit \in Nat \ {0} BY ServerAssumption
<1>2. Threads # {}
  <2>1. Cardinality({}) = 0 BY FS_EmptySet
  <2> QED BY <1>1, <2>1
<1> QED BY <1>2 DEF Threads

\* However many requests wait for the loop, for threads, for connections and for
\* a row, one can go on, or the loop is in a handler that waits for a removal
\* that removed nobody.
THEOREM OnlyOneDeadlock == ServerSpec => []SomebodyGoesOrStuck
<1>1. ServerInvariant => SomebodyGoesOrStuck
  <2> SUFFICES ASSUME ServerInvariant, NEW q \in Request, status[q] # "idle"
               PROVE  Stuck \/ \E r \in Request : CanGo(r)
    BY DEF SomebodyGoesOrStuck
  <2> USE DEF ServerInvariant, ServerTypeOK
  <2>1. CASE loop # None
    <3>1. loop \in Request BY <2>1
    <3>2. CASE NeedsRow(loop) /\ row # None
      <4>1. row \in Request /\ status[row] \in {"responded", "closing"}
        BY <3>2 DEF OnlyRefusalsHoldRows
      <4>2. CASE status[row] = "closing" BY <4>1, <4>2 DEF CanGo
      <4>3. CASE status[row] = "responded" BY <2>1, <3>2, <4>3 DEF Stuck
      <4> QED BY <4>1, <4>2, <4>3
    <3>3. CASE ~(NeedsRow(loop) /\ row # None)
      <4>1. CanGo(loop) BY <3>3 DEF CanGo
      <4> QED BY <3>1, <4>1
    <3> QED BY <3>2, <3>3
  <2>2. CASE loop = None
    <3>1. q # loop BY <2>2, ServerAssumption
    <3>2. status[q] \in Status \ {"idle", "handling", "again"} BY <3>1
    <3>3. CASE status[q] = "queued"
      <4>1. CASE Cardinality(Threads) < ThreadLimit
        <5>1. CanGo(q) BY <2>2, <3>3, <4>1 DEF CanGo
        <5> QED BY <5>1
      <4>2. CASE ~(Cardinality(Threads) < ThreadLimit)
        <5>1. Cardinality(Threads) \in Nat
          BY Finite, FS_CardinalityType DEF Threads
        <5>2. Cardinality(Threads) >= ThreadLimit BY <4>2, <5>1, Finite
        <5>3. PICK r \in Request : status[r] \in {"thread", "back", "raised"}
          BY <5>2, SomeThread
        <5>4. CanGo(r) BY <2>2, <5>3 DEF CanGo
        <5> QED BY <5>4
      <4> QED BY <4>1, <4>2
    <3>4. CASE status[q] # "queued"
      <4>1. CanGo(q) BY <2>2, <3>2, <3>4 DEF CanGo, Status
      <4> QED BY <4>1
    <3> QED BY <3>3, <3>4
  <2> QED BY <2>1, <2>2
<1> QED BY <1>1, InvariantHolds, PTL

\* And nothing ends that one: not the pool's timeout, which is about connections,
\* and the engine sets no other (session.py 16-21).
THEOREM StuckForGood == ServerSpec => [][Stuck => Stuck']_serverVars
<1>1. ServerInvariant /\ [ServerNext]_serverVars => [Stuck => Stuck']_serverVars
  <2> SUFFICES ASSUME ServerInvariant, ServerNext, Stuck PROVE Stuck'
    OBVIOUS
  <2> USE DEF ServerInvariant, ServerTypeOK
  <2>1. /\ loop \in Request /\ row \in Request /\ loop # None /\ row # None
        /\ status[loop] = "handling" /\ status[row] = "responded"
        /\ kind[loop] \in {"change", "refused"}
    BY DEF Stuck, NeedsRow
  <2>2. PICK r \in Request : \/ \E k \in Kind : admit(r, k)
                            \/ LoopStep(r) \/ ThreadStep(r) \/ HandlerStep(r)
    BY DEF ServerNext
  <2>3. ~(\E k \in Kind : admit(r, k)) /\ ~LoopStep(r)
    BY <2>1 DEF admit, LoopStep, send_to_thread, next_dependency, call_handler,
       answer_exception, send_to_close
  <2>4. ~HandlerStep(r)
    BY <2>1 DEF HandlerStep, handle_login, handle_refresh, handle_plain, handle_change,
       handle_refused, handle_again, handler_timeout
  <2>5. ThreadStep(r) BY <2>2, <2>3, <2>4
  <2>6. status[r] \in {"thread", "closing"} /\ loop' = loop /\ row' \in {row, None}
    BY <2>5 DEF ThreadStep, run_dependency, open_own_session, close_own_session, Proceeds,
       thread_timeout, close
  <2>7. r # loop /\ r # row BY <2>1, <2>6
  <2>8. row' = row
    BY <2>5, <2>7 DEF ThreadStep, run_dependency, open_own_session, close_own_session,
       thread_timeout, close
  <2>9. kind' = kind \/ kind' = [kind EXCEPT ![r] = "plain"]
    BY <2>5 DEF ThreadStep, run_dependency, open_own_session, close_own_session,
       thread_timeout, close
  <2>10. status' = status \/ \E s : status' = [status EXCEPT ![r] = s]
    BY <2>5 DEF ThreadStep, run_dependency, open_own_session, close_own_session,
       Proceeds, thread_timeout, close, Becomes
  <2>11. kind'[loop] = kind[loop] /\ status'[row] = status[row]
    BY <2>1, <2>7, <2>9, <2>10
  <2>12. status'[loop] = status[loop] BY <2>1, <2>7, <2>10
  <2> QED BY <2>1, <2>6, <2>8, <2>11, <2>12 DEF Stuck, NeedsRow
<1> QED BY <1>1, InvariantHolds, PTL DEF ServerSpec
=============================================================================
