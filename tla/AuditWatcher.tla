---------------------------- MODULE AuditWatcher ----------------------------
(***************************************************************************)
(* The process that reports accesses to secrets: app/audit_watcher.py, the *)
(* systemd unit start.sh writes for it, and the contract AuditLog.sol.     *)
(*                                                                         *)
(* auditd and Vault append lines to two files, of which some are accesses. *)
(* The watcher opens both at their end, has inotify tell it of changes,    *)
(* reads what was appended, and sends one transaction per access to a      *)
(* node, which mines it some time later.  Lines are numbered in the order  *)
(* of all appends; a line stands for what its parser can tell of it.       *)
(*                                                                         *)
(* What the watcher does not control may go wrong if Fault says so: the    *)
(* process dies ("crash"), an OSError ends it ("oserror"), the node does   *)
(* not answer ("rpc"), the node forgets a pending transaction ("evict"),   *)
(* a file is rotated ("rotate"), auditd's rules are loaded ("rules"),      *)
(* others use the contract ("stranger").                                   *)
(***************************************************************************)
EXTENDS Naturals, Sequences, SequencesExt

CONSTANTS
    Fault,       \* what may go wrong
    MaxLine,     \* bound: how many lines are ever logged
    MaxRotation, \* bound: how often log files are rotated
    MaxQueued    \* fs.inotify.max_queued_events

ASSUME AuditBoundsAssumption ==
    /\ MaxLine \in Nat
    /\ MaxRotation \in Nat
    /\ MaxQueued \in Nat \ {0}

VARIABLES
    log,      \* the lines of both files
    inode,    \* the inode each file's name leads to
    phase,    \* where the watcher is
    reader,   \* wd_to_handle: inode and position of each handle, inode watched
    queue,    \* notifications inotify holds
    batch,    \* notifications inotify.read() has returned
    hand,     \* the access being submitted, and the nonce for it
    mempool,  \* the transactions of the wallet the node holds
    nonce,    \* how many transactions of the wallet were mined
    events    \* the SecretAccess events emitted

logVars     == <<log, inode>>
watcherVars == <<phase, reader, queue, batch, hand>>
chainVars   == <<mempool, nonce, events>>
auditVars   == <<log, inode, phase, reader, queue, batch, hand,
                 mempool, nonce, events>>

Source   == {"auditd", "vault"}
Overflow == "overflow"
Wallet   == "wallet"
Sender   == {Wallet, "stranger"}

\* What a parser can tell of a line.  A record auditd writes when a rule is
\* added has a watched key and no pid; for Vault, no JSON is like any other.
Kind(s) == {"access", "other"} \cup
           (IF s = "auditd" /\ "rules" \in Fault THEN {"broken"} ELSE {})

Entry  == 1..MaxLine
Inode  == 1..(MaxRotation + 1)

\* heard: a notification was sent for the line to a handle that can read it
Line   == [source : Source, inode : Inode,
           kind : {"access", "other", "broken"}, heard : BOOLEAN]
Reader == [inode : Inode \cup {0}, at : 0..MaxLine, wd : Inode \cup {0}]
Hand   == [entry : 0..MaxLine, nonce : Nat]
Tx     == [nonce : Nat, entry : Entry]
Event  == [entry : Entry, reporter : Sender]

Closed    == [inode |-> 0, at |-> 0, wd |-> 0]
EmptyHand == [entry |-> 0, nonce |-> 0]

AuditInit ==
    /\ log = <<>>
    /\ inode = [s \in Source |-> 1]
    /\ phase = "down"
    /\ reader = [s \in Source |-> Closed]
    /\ queue = <<>> /\ batch = <<>>
    /\ hand = EmptyHand
    /\ mempool = {}
    /\ nonce = 0
    /\ events = <<>>
-----------------------------------------------------------------------------
(* The log files. *)

\* The kernel drops a notification when its queue is full, and says so once,
\* and one that repeats the last.
Notified(s) ==
    IF Len(queue) >= MaxQueued
    THEN IF Contains(queue, Overflow) THEN queue ELSE Append(queue, Overflow)
    ELSE IF queue # <<>> /\ Last(queue) = s THEN queue ELSE Append(queue, s)

write_line(s, kind) ==
    LET told == reader[s].wd = inode[s] IN
    /\ Len(log) < MaxLine
    /\ log' = Append(log, [source |-> s, inode |-> inode[s], kind |-> kind,
                           heard |-> told /\ reader[s].inode = inode[s]])
    /\ queue' = IF told THEN Notified(s) ELSE queue
    /\ UNCHANGED <<inode, phase, reader, batch, hand>>
    /\ UNCHANGED chainVars

rotate(s) ==
    /\ "rotate" \in Fault
    /\ inode["auditd"] + inode["vault"] < MaxRotation + 2
    /\ inode' = [inode EXCEPT ![s] = @ + 1]
    /\ UNCHANGED log
    /\ UNCHANGED watcherVars
    /\ UNCHANGED chainVars
-----------------------------------------------------------------------------
(* The process. *)

Ends(how) ==
    /\ phase' = how
    /\ reader' = [s \in Source |-> Closed]
    /\ queue' = <<>> /\ batch' = <<>>
    /\ hand' = EmptyHand
    /\ UNCHANGED logVars

\* Restart=on-failure: what ends by an exception is started again.
crash ==
    /\ "crash" \in Fault
    /\ phase \notin {"down", "stopped"}
    /\ Ends("down")
    /\ UNCHANGED chainVars

\* run() catches an OSError of its loop and returns, which is no failure.
oserror ==
    /\ "oserror" \in Fault
    /\ phase \in {"waiting", "reading"}
    /\ Ends("stopped")
    /\ UNCHANGED chainVars

\* systemctl start, as the README has it after a reboot
operator_start ==
    /\ phase = "stopped"
    /\ phase' = "down"
    /\ UNCHANGED <<reader, queue, batch, hand>>
    /\ UNCHANGED logVars
    /\ UNCHANGED chainVars

run ==
    /\ phase = "down"
    /\ \/ phase' = "opening"
       \/ "rpc" \in Fault /\ phase' = "stopped"
    /\ UNCHANGED <<reader, queue, batch, hand>>
    /\ UNCHANGED logVars
    /\ UNCHANGED chainVars

\* open_sources takes the sources one after the other.
Turn(s) == \A t \in Source \ {s} : s = "vault" => reader[t].wd # 0

\* MUTANT of open_source: after a restart the file is read again.
open_source_at_start(s) ==
    /\ phase = "opening"
    /\ Turn(s)
    /\ reader[s] = Closed
    /\ reader' = [reader EXCEPT ![s].inode = inode[s]]
    /\ UNCHANGED <<phase, queue, batch, hand>>
    /\ UNCHANGED logVars
    /\ UNCHANGED chainVars

\* open(src_path) and seek(0, 2)
open_source(s) ==
    /\ phase = "opening"
    /\ Turn(s)
    /\ reader[s] = Closed
    /\ reader' = [reader EXCEPT ![s].inode = inode[s], ![s].at = Len(log)]
    /\ UNCHANGED <<phase, queue, batch, hand>>
    /\ UNCHANGED logVars
    /\ UNCHANGED chainVars

add_watch(s) ==
    /\ phase = "opening"
    /\ reader[s].inode # 0 /\ reader[s].wd = 0
    /\ reader' = [reader EXCEPT ![s].wd = inode[s]]
    /\ phase' = IF s = "vault" THEN "waiting" ELSE phase
    /\ UNCHANGED <<queue, batch, hand>>
    /\ UNCHANGED logVars
    /\ UNCHANGED chainVars

\* inotify.read()
read ==
    /\ phase = "waiting"
    /\ queue # <<>>
    /\ batch' = queue
    /\ queue' = <<>>
    /\ phase' = "reading"
    /\ UNCHANGED <<reader, hand>>
    /\ UNCHANGED logVars
    /\ UNCHANGED chainVars

\* wd_to_handle has no entry for the notice that notifications were lost.
overflowed ==
    /\ phase = "reading"
    /\ Head(batch) = Overflow
    /\ Ends("down")
    /\ UNCHANGED chainVars

Unread(s) == {i \in DOMAIN log : /\ log[i].source = s
                                 /\ log[i].inode = reader[s].inode
                                 /\ i > reader[s].at}

NextUnread(s, i) == i \in Unread(s) /\ \A j \in Unread(s) : i <= j

\* A watched key without a pid or a uid raises ValueError.
parse_auditd_event(kind) ==
    CASE kind = "access" -> "event" [] kind = "broken" -> "raises" [] OTHER -> "none"

\* What is no JSON is skipped.
parse_vault_event(kind) == IF kind = "access" THEN "event" ELSE "none"

Parsed(s, kind) ==
    IF s = "auditd" THEN parse_auditd_event(kind) ELSE parse_vault_event(kind)

read_line(s) ==
    /\ phase = "reading"
    /\ Head(batch) = s
    /\ \E i \in Unread(s) :
         LET result == Parsed(s, log[i].kind) IN
         /\ NextUnread(s, i)
         /\ \/ result = "raises" /\ Ends("down")
            \/ /\ result # "raises"
               /\ reader' = [reader EXCEPT ![s].at = i]
               /\ IF result = "event"
                  THEN /\ phase' = "counting"
                       /\ hand' = [entry |-> i, nonce |-> 0]
                  ELSE UNCHANGED <<phase, hand>>
               /\ UNCHANGED <<queue, batch>>
               /\ UNCHANGED logVars
    /\ UNCHANGED chainVars

\* MUTANT of end_of_file: the other notifications of the batch are left.
end_of_batch(s) ==
    /\ phase = "reading"
    /\ Head(batch) = s
    /\ Unread(s) = {}
    /\ batch' = Tail(batch)
    /\ phase' = "waiting"
    /\ UNCHANGED <<reader, queue, hand>>
    /\ UNCHANGED logVars
    /\ UNCHANGED chainVars

\* MUTANT of end_of_file: a notification may be done with before the end.
end_of_notification(s) ==
    /\ phase = "reading"
    /\ Head(batch) = s
    /\ batch' = Tail(batch)
    /\ phase' = IF batch' = <<>> THEN "waiting" ELSE phase
    /\ UNCHANGED <<reader, queue, hand>>
    /\ UNCHANGED logVars
    /\ UNCHANGED chainVars

\* The file has been read to its end: on to the next notification.
end_of_file(s) ==
    /\ phase = "reading"
    /\ Head(batch) = s
    /\ Unread(s) = {}
    /\ batch' = Tail(batch)
    /\ phase' = IF batch' = <<>> THEN "waiting" ELSE phase
    /\ UNCHANGED <<reader, queue, hand>>
    /\ UNCHANGED logVars
    /\ UNCHANGED chainVars
-----------------------------------------------------------------------------
(* submit_event: two calls to the node, and whatever they raise is logged  *)
(* and the access forgotten.                                               *)

forget ==
    /\ phase' = "reading"
    /\ hand' = EmptyHand
    /\ UNCHANGED <<reader, queue, batch>>
    /\ UNCHANGED logVars

\* MUTANT of get_transaction_count: what the node holds is counted too.
get_pending_count ==
    /\ phase = "counting"
    /\ \/ /\ phase' = "sending"
          /\ hand' = [hand EXCEPT !.nonce = nonce +
                        (IF mempool = {} THEN 0 ELSE 1)]
          /\ UNCHANGED <<reader, queue, batch>>
          /\ UNCHANGED logVars
       \/ "rpc" \in Fault /\ forget
    /\ UNCHANGED chainVars

\* The node counts what was mined ("latest"), not what it holds.
get_transaction_count ==
    /\ phase = "counting"
    /\ \/ /\ phase' = "sending"
          /\ hand' = [hand EXCEPT !.nonce = nonce]
          /\ UNCHANGED <<reader, queue, batch>>
          /\ UNCHANGED logVars
       \/ "rpc" \in Fault /\ forget
    /\ UNCHANGED chainVars

Rivals(n) == {t \in mempool : t.nonce = n}

\* The node takes one transaction per nonce: of two, the first, or the second
\* if it pays more, and none whose nonce is used up.
send_raw_transaction ==
    LET tx     == [nonce |-> hand.nonce, entry |-> hand.entry]
        rivals == Rivals(hand.nonce) IN
    /\ phase = "sending"
    /\ \/ /\ hand.nonce >= nonce
          /\ mempool' = (mempool \ rivals) \cup {tx}
       \/ /\ \/ hand.nonce < nonce
             \/ rivals # {}
             \/ "rpc" \in Fault
          /\ UNCHANGED mempool
    /\ forget
    /\ UNCHANGED <<nonce, events>>
-----------------------------------------------------------------------------
(* The chain. *)

\* AuditLog.logAccess: others than the owner are turned away.
logAccess(sender, i) ==
    IF sender # Wallet THEN events
    ELSE Append(events, [entry |-> i, reporter |-> sender])

mine(tx) ==
    /\ tx.nonce = nonce
    /\ nonce' = nonce + 1
    /\ mempool' = mempool \ {tx}
    /\ events' = logAccess(Wallet, tx.entry)
    /\ UNCHANGED logVars
    /\ UNCHANGED watcherVars

\* Anybody may call the contract, with any hash.
stranger_calls(i) ==
    /\ "stranger" \in Fault
    /\ events' = logAccess("stranger", i)
    /\ UNCHANGED <<mempool, nonce>>
    /\ UNCHANGED logVars
    /\ UNCHANGED watcherVars

evict(tx) ==
    /\ "evict" \in Fault
    /\ mempool' = mempool \ {tx}
    /\ UNCHANGED <<nonce, events>>
    /\ UNCHANGED logVars
    /\ UNCHANGED watcherVars
-----------------------------------------------------------------------------
Loop ==
    \/ \E s \in Source : open_source(s) \/ add_watch(s)
    \/ read \/ overflowed
    \/ \E s \in Source : read_line(s) \/ end_of_file(s)
    \/ get_transaction_count \/ send_raw_transaction

AuditNext ==
    \/ \E s \in Source : \E kind \in Kind(s) : write_line(s, kind)
    \/ \E s \in Source : rotate(s)
    \/ crash \/ oserror \/ operator_start \/ run
    \/ Loop
    \/ \E i \in Entry : stranger_calls(i)
    \/ \E tx \in mempool : mine(tx) \/ evict(tx)

AuditSpec == AuditInit /\ [][AuditNext]_auditVars

\* systemd restarts the watcher, and the watcher goes on; nobody has to mine.
AuditFairness == WF_auditVars(run) /\ WF_auditVars(Loop)

FairAuditSpec == AuditSpec /\ AuditFairness
-----------------------------------------------------------------------------
(* What holds. *)

\* The types of the variables; inotify holds a bounded number of
\* notifications, and there is one to handle while the watcher is at it.
AuditTypeOK ==
    /\ log \in Seq(Line) /\ Len(log) <= MaxLine
    /\ inode \in [Source -> Inode]
    /\ phase \in {"down", "stopped", "opening", "waiting", "reading",
                  "counting", "sending"}
    /\ reader \in [Source -> Reader]
    /\ queue \in Seq(Source \cup {Overflow}) /\ Len(queue) <= MaxQueued + 1
    /\ batch \in Seq(Source \cup {Overflow})
    /\ phase \in {"reading", "counting", "sending"} <=> batch # <<>>
    /\ hand \in Hand
    /\ phase \in {"counting", "sending"} <=> hand.entry # 0
    /\ mempool \subseteq Tx
    /\ nonce \in Nat
    /\ events \in Seq(Event)

\* No transaction waits for one that may never come: what the node holds of
\* the wallet is at most one transaction, and the next to be mined
\* (submit_event's nonce).
NoNonceGap ==
    \A t \in mempool : t.nonce = nonce /\ mempool = {t}

\* What the chain shows happened, once, in its source's order, and comes from
\* the wallet, whatever dies, restarts, is refused or forgotten in between
\* (open_sources, submit_event, logAccess).
Trail == INSTANCE AuditTrail WITH
    lines <- [i \in DOMAIN log |-> IF log[i].kind = "access"
                                   THEN log[i].source ELSE "other"],
    chain <- events

ImplementsAuditTrail == Trail!TrailSpec

Dealt(i) ==
    LET s == log[i].source IN
    \/ phase \in {"down", "stopped"}
    \/ reader[s].inode # log[i].inode
    \/ reader[s].at >= i

\* Until it is dealt with, a line that was announced to the watcher is still
\* announced by a notification that is waiting, or by one that says some were
\* lost: merging notifications, taking them in batches and reading past the
\* last of them forget none (run, inotify.read()).
HeardLinesStayAnnounced ==
    \A i \in DOMAIN log : log[i].heard /\ ~Dealt(i) =>
        \E notices \in {queue, batch} :
            Contains(notices, log[i].source) \/ Contains(notices, Overflow)

\* A line that was announced to the watcher is read, although announcements
\* are merged and submissions come between, unless the watcher goes down
\* first.  (Lines are bounded: it is read once the files are quiet.)
HeardLinesAreRead ==
    \A i \in Entry :
        (i \in DOMAIN log /\ log[i].heard) ~> (i \in DOMAIN log /\ Dealt(i))

\* README.md 107: every access is recorded on chain.  That is, the watcher
\* does not go past an access it was told of and leave it neither with the
\* node nor on chain.
ReadAccessesRecorded ==
    \A i \in DOMAIN log :
        LET s == log[i].source IN
        (/\ log[i].kind = "access" /\ log[i].heard
         /\ reader[s].inode = log[i].inode /\ reader[s].at >= i)
        => \/ hand.entry = i
           \/ \E t \in mempool : t.entry = i
           \/ \E k \in DOMAIN events : events[k].entry = i
=============================================================================
