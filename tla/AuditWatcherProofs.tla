------------------------- MODULE AuditWatcherProofs -------------------------
(***************************************************************************)
(* For any number of lines and rotations, and whatever may go wrong: what  *)
(* the watcher sends is never ahead of what was mined, and the chain shows *)
(* accesses that happened, once, in the order of their source.             *)
(***************************************************************************)
EXTENDS AuditWatcher, SequenceTheorems, TLAPS

\* The entries that are on chain or with the node.
Sent(i) ==
    \/ \E k \in DOMAIN events : events[k].entry = i
    \/ \E t \in mempool : t.entry = i

IsAccess(i) == i \in DOMAIN log /\ log[i].kind = "access"

\* What the other parts need of AuditTypeOK.
WatcherTypes ==
    /\ log \in Seq(Line) /\ Len(log) <= MaxLine
    /\ inode \in [Source -> Inode]
    /\ reader \in [Source -> Reader]
    /\ hand \in Hand
    /\ phase \in {"counting", "sending"} <=> hand.entry # 0
    /\ mempool \subseteq Tx
    /\ nonce \in Nat
    /\ events \in Seq(Event)

SentAreAccesses == \A i \in Entry : Sent(i) => IsAccess(i)

\* Nothing past the position of an open handle has been sent.
SentWereRead ==
    \A s \in Source : reader[s].inode # 0 =>
        \A i \in DOMAIN log : Sent(i) /\ log[i].source = s => i <= reader[s].at

\* The access in hand was read, and is later than all that were sent.
HandIsNext ==
    hand.entry # 0 =>
        /\ IsAccess(hand.entry)
        /\ LET s == log[hand.entry].source IN
           /\ hand.entry <= reader[s].at
           /\ \A i \in DOMAIN log :
                Sent(i) /\ log[i].source = s => i < hand.entry

\* What waits at the node is later than what was mined.
PendingAreNext ==
    \A t \in mempool, k \in DOMAIN events :
        log[events[k].entry].source = log[t.entry].source
            => events[k].entry < t.entry

\* The nonce in hand was once the number of mined transactions.
NoNonceAhead == hand.nonce <= nonce

AuditInvariant ==
    /\ WatcherTypes
    /\ SentAreAccesses
    /\ SentWereRead
    /\ HandIsNext
    /\ PendingAreNext
    /\ NoNonceAhead
    /\ NoNonceGap
-----------------------------------------------------------------------------
(* The files. *)

\* What was sent are numbers of lines.
LEMMA SentEntry ==
    ASSUME WatcherTypes
    PROVE  /\ \A k \in DOMAIN events : events[k].entry \in Entry
           /\ \A t \in mempool : t.entry \in Entry
           /\ \A i : Sent(i) => i \in Entry
<1>1. \A k \in DOMAIN events : events[k] \in Event BY DEF WatcherTypes
<1>2. \A k \in DOMAIN events : events[k].entry \in Entry BY <1>1 DEF Event
<1>3. \A t \in mempool : t.entry \in Entry BY DEF WatcherTypes, Tx
<1> QED BY <1>2, <1>3 DEF Sent

\* What is appended is sent by nobody yet, and does not move what was there.
LEMMA WriteLineKeeps ==
    ASSUME AuditInvariant, NEW s \in Source, NEW kind \in Kind(s),
           write_line(s, kind)
    PROVE  AuditInvariant'
<1> DEFINE new == [source |-> s, inode |-> inode[s], kind |-> kind,
                   heard |-> reader[s].wd = inode[s] /\ reader[s].inode = inode[s]]
<1> USE DEF AuditInvariant, WatcherTypes
<1>1. new \in Line BY DEF Line, Kind, Source
<1>2. log' = Append(log, new) BY DEF write_line
<1>3. log' \in Seq(Line) /\ Len(log') = Len(log) + 1 /\ Len(log') <= MaxLine
  <2>1. log' \in Seq(Line) /\ Len(log') = Len(log) + 1
    BY <1>1, <1>2, AppendProperties
  <2> QED BY <2>1, AuditBoundsAssumption DEF write_line
<1>4. \A i \in DOMAIN log : i \in DOMAIN log' /\ log'[i] = log[i]
  BY <1>1, <1>2, AppendProperties
<1>5. UNCHANGED <<inode, reader, hand, phase, mempool, nonce, events>>
  BY DEF write_line, chainVars
<1>6. WatcherTypes' BY <1>3, <1>5
<1>7. \A i : Sent(i)' <=> Sent(i) BY <1>5 DEF Sent
<1>8. SentAreAccesses' BY <1>4, <1>7 DEF SentAreAccesses, IsAccess
<1>9. \A i \in DOMAIN log' : Sent(i)' => i \in DOMAIN log
  <2>1. \A i \in DOMAIN log' : i \in DOMAIN log \/ i = Len(log) + 1 BY <1>3
  <2>2. Sent(Len(log) + 1) => Len(log) + 1 \in Entry BY SentEntry
  <2>3. Len(log) + 1 \notin DOMAIN log OBVIOUS
  <2> QED BY <1>7, <2>1, <2>2, <2>3 DEF SentAreAccesses, IsAccess
<1>10. SentWereRead' BY <1>4, <1>5, <1>7, <1>9 DEF SentWereRead
<1>11. HandIsNext' BY <1>4, <1>5, <1>7, <1>9 DEF HandIsNext, IsAccess
<1>12. PendingAreNext'
  <2>1. \A t \in mempool : t.entry \in DOMAIN log
    BY SentEntry DEF SentAreAccesses, IsAccess, Sent
  <2>2. \A k \in DOMAIN events : events[k].entry \in DOMAIN log
    BY SentEntry DEF SentAreAccesses, IsAccess, Sent
  <2> QED BY <1>4, <1>5, <2>1, <2>2 DEF PendingAreNext
<1>13. NoNonceAhead' /\ NoNonceGap' BY <1>5 DEF NoNonceAhead, NoNonceGap
<1> QED BY <1>6, <1>8, <1>10, <1>11, <1>12, <1>13

\* Renaming a file changes nothing of what was read or sent.
LEMMA RotateKeeps ==
    ASSUME AuditInvariant, NEW s \in Source, rotate(s)
    PROVE  AuditInvariant'
<1> USE DEF AuditInvariant
<1>1. UNCHANGED <<log, phase, reader, hand, mempool, nonce, events>>
  BY DEF rotate, watcherVars, chainVars
<1>2. inode' \in [Source -> Inode]
  <2>1. inode \in [Source -> Inode] BY DEF WatcherTypes
  <2>2. inode["auditd"] \in Inode /\ inode["vault"] \in Inode /\ inode[s] \in Inode
    BY <2>1 DEF Source
  <2>3. inode[s] + 1 \in Inode
    BY <2>2, AuditBoundsAssumption DEF rotate, Inode, Source
  <2> QED BY <2>1, <2>3 DEF rotate
<1>3. WatcherTypes' BY <1>1, <1>2 DEF WatcherTypes
<1>4. SentAreAccesses' BY <1>1 DEF SentAreAccesses, IsAccess, Sent
<1>5. SentWereRead' BY <1>1 DEF SentWereRead, Sent
<1>6. HandIsNext' BY <1>1 DEF HandIsNext, IsAccess, Sent
<1>7. PendingAreNext' /\ NoNonceAhead' /\ NoNonceGap'
  BY <1>1 DEF PendingAreNext, NoNonceAhead, NoNonceGap
<1> QED BY <1>3, <1>4, <1>5, <1>6, <1>7
-----------------------------------------------------------------------------
(* The process. *)

\* However it ends, the watcher has no handle and nothing in hand.
LEMMA EndsKeeps ==
    ASSUME AuditInvariant, NEW how \in {"down", "stopped"}, Ends(how),
           UNCHANGED chainVars
    PROVE  AuditInvariant'
<1> USE DEF AuditInvariant, Ends
<1>1. UNCHANGED <<log, inode, mempool, nonce, events>> BY DEF logVars, chainVars
<1>2. Closed \in Reader /\ EmptyHand \in Hand /\ EmptyHand.entry = 0
      /\ EmptyHand.nonce = 0
  BY AuditBoundsAssumption DEF Closed, Reader, EmptyHand, Hand
<1>3. \A s \in Source : reader'[s].inode = 0 BY DEF Closed
<1>4. WatcherTypes' BY <1>1, <1>2 DEF WatcherTypes
<1>5. SentAreAccesses' BY <1>1 DEF SentAreAccesses, IsAccess, Sent
<1>6. SentWereRead' BY <1>3 DEF SentWereRead
<1>7. HandIsNext' BY <1>2 DEF HandIsNext
<1>8. PendingAreNext' /\ NoNonceGap' BY <1>1 DEF PendingAreNext, NoNonceGap
<1>9. NoNonceAhead' BY <1>1, <1>2 DEF NoNonceAhead, WatcherTypes
<1> QED BY <1>4, <1>5, <1>6, <1>7, <1>8, <1>9

\* A step that opens no file, reads no line and submits nothing.
LEMMA IdleKeeps ==
    ASSUME AuditInvariant,
           UNCHANGED <<log, inode, reader, hand, mempool, nonce, events>>,
           phase' \in {"counting", "sending"} <=> phase \in {"counting", "sending"}
    PROVE  AuditInvariant'
<1> USE DEF AuditInvariant
<1>1. WatcherTypes' BY DEF WatcherTypes
<1>2. SentAreAccesses' BY DEF SentAreAccesses, IsAccess, Sent
<1>3. SentWereRead' BY DEF SentWereRead, Sent
<1>4. HandIsNext' BY DEF HandIsNext, IsAccess, Sent
<1>5. PendingAreNext' /\ NoNonceAhead' /\ NoNonceGap'
  BY DEF PendingAreNext, NoNonceAhead, NoNonceGap
<1> QED BY <1>1, <1>2, <1>3, <1>4, <1>5

\* A handle is opened at the end: all that was sent is behind it.
LEMMA OpenSourceKeeps ==
    ASSUME AuditInvariant, NEW s \in Source, open_source(s)
    PROVE  AuditInvariant'
<1> USE DEF AuditInvariant
<1>1. UNCHANGED <<log, inode, phase, hand, mempool, nonce, events>>
  BY DEF open_source, logVars, chainVars
<1>2. hand.entry = 0 BY DEF WatcherTypes, open_source
<1>3. reader'[s].at = Len(log) /\ \A t \in Source \ {s} : reader'[t] = reader[t]
  BY DEF WatcherTypes, open_source, Reader
<1>4. reader' \in [Source -> Reader]
  <2>1. Len(log) \in 0..MaxLine BY AuditBoundsAssumption DEF WatcherTypes
  <2>2. [reader[s] EXCEPT !.inode = inode[s], !.at = Len(log)] \in Reader
    BY <2>1 DEF WatcherTypes, Reader
  <2>3. reader' = [reader EXCEPT ![s] = [@ EXCEPT !.inode = inode[s], !.at = Len(log)]]
    BY DEF open_source
  <2> QED BY <2>2, <2>3 DEF WatcherTypes
<1>5. WatcherTypes' BY <1>1, <1>4 DEF WatcherTypes
<1>6. SentAreAccesses' BY <1>1 DEF SentAreAccesses, IsAccess, Sent
<1>7. SentWereRead' BY <1>1, <1>3 DEF SentWereRead, Sent, WatcherTypes
<1>8. HandIsNext' BY <1>1, <1>2 DEF HandIsNext
<1>9. PendingAreNext' /\ NoNonceAhead' /\ NoNonceGap'
  BY <1>1 DEF PendingAreNext, NoNonceAhead, NoNonceGap
<1> QED BY <1>5, <1>6, <1>7, <1>8, <1>9

\* A watch is of whatever the name leads to.
LEMMA AddWatchKeeps ==
    ASSUME AuditInvariant, NEW s \in Source, add_watch(s)
    PROVE  AuditInvariant'
<1> USE DEF AuditInvariant
<1>1. UNCHANGED <<log, inode, hand, mempool, nonce, events>>
  BY DEF add_watch, logVars, chainVars
<1>2. reader' = [reader EXCEPT ![s].wd = inode[s]] BY DEF add_watch
<1>3. reader' \in [Source -> Reader] BY <1>2 DEF WatcherTypes, Reader
<1>4. \A t \in Source : reader'[t].inode = reader[t].inode /\ reader'[t].at = reader[t].at
  BY <1>2 DEF WatcherTypes, Reader
<1>5. phase' \in {"counting", "sending"} <=> phase \in {"counting", "sending"}
  BY DEF add_watch
<1>6. WatcherTypes' BY <1>1, <1>3, <1>5 DEF WatcherTypes
<1>7. SentAreAccesses' BY <1>1 DEF SentAreAccesses, IsAccess, Sent
<1>8. SentWereRead' BY <1>1, <1>4 DEF SentWereRead, Sent
<1>9. HandIsNext'
  <2>1. hand.entry # 0 => log[hand.entry].source \in Source
    <3>1. \A i \in DOMAIN log : log[i] \in Line BY DEF WatcherTypes
    <3> QED BY <3>1 DEF HandIsNext, IsAccess, Line
  <2> QED BY <1>1, <1>4, <2>1 DEF HandIsNext, IsAccess, Sent
<1>10. PendingAreNext' /\ NoNonceAhead' /\ NoNonceGap'
  BY <1>1 DEF PendingAreNext, NoNonceAhead, NoNonceGap
<1> QED BY <1>6, <1>7, <1>8, <1>9, <1>10

\* A line is read: the position moves on, and what is in hand is past all that
\* was sent.
LEMMA ReadLineKeeps ==
    ASSUME AuditInvariant, NEW s \in Source, read_line(s)
    PROVE  AuditInvariant'
<1> USE DEF AuditInvariant
<1>1. PICK i \in Unread(s) :
        \/ Ends("down")
        \/ /\ reader' = [reader EXCEPT ![s].at = i]
           /\ UNCHANGED <<log, inode>>
           /\ \/ /\ Parsed(s, log[i].kind) = "event" /\ phase' = "counting"
                 /\ hand' = [entry |-> i, nonce |-> 0]
              \/ UNCHANGED <<phase, hand>>
  BY DEF read_line, logVars
<1>2. UNCHANGED <<mempool, nonce, events>> BY DEF read_line, chainVars
<1>3. CASE Ends("down") BY <1>2, <1>3, EndsKeeps DEF chainVars
<1>4. CASE /\ reader' = [reader EXCEPT ![s].at = i]
           /\ UNCHANGED <<log, inode>>
           /\ \/ /\ Parsed(s, log[i].kind) = "event" /\ phase' = "counting"
                 /\ hand' = [entry |-> i, nonce |-> 0]
              \/ UNCHANGED <<phase, hand>>
  <2> USE <1>2, <1>4
  <2>1. /\ i \in DOMAIN log /\ i \in Entry /\ log[i].source = s
        /\ reader[s].inode # 0 /\ i > reader[s].at
    <3>1. i \in DOMAIN log /\ log[i].source = s /\ log[i].inode = reader[s].inode
          /\ i > reader[s].at
      BY DEF Unread
    <3>2. i \in 1..Len(log) /\ Len(log) \in Nat BY <3>1 DEF WatcherTypes
    <3>3. i \in Entry BY <3>2, AuditBoundsAssumption DEF Entry, WatcherTypes
    <3>4. log[i] \in Line BY <3>2 DEF WatcherTypes
    <3> QED BY <3>1, <3>3, <3>4 DEF Line, Inode
  <2>2. hand.entry = 0 BY DEF WatcherTypes, read_line
  <2>3. reader' \in [Source -> Reader]
    <3>1. i \in 0..MaxLine BY <2>1, AuditBoundsAssumption DEF Entry
    <3>2. [reader[s] EXCEPT !.at = i] \in Reader BY <3>1 DEF WatcherTypes, Reader
    <3> QED BY <3>2 DEF WatcherTypes
  <2>4. /\ reader'[s].at = i /\ \A t \in Source : reader'[t].inode = reader[t].inode
        /\ \A t \in Source \ {s} : reader'[t].at = reader[t].at
    BY DEF WatcherTypes, Reader
  <2>5. \/ hand' = hand /\ phase' = phase
        \/ /\ hand' = [entry |-> i, nonce |-> 0] /\ phase' = "counting"
           /\ log[i].kind = "access"
    BY DEF Parsed, parse_auditd_event, parse_vault_event
  <2>6. WatcherTypes' BY <2>1, <2>3, <2>5 DEF WatcherTypes, Hand, Entry
  <2>7. \A j : Sent(j)' <=> Sent(j) BY DEF Sent
  <2>8. \A j \in DOMAIN log : Sent(j) /\ log[j].source = s => j <= reader[s].at
    BY <2>1 DEF SentWereRead
  <2>9. SentAreAccesses' BY <2>7 DEF SentAreAccesses, IsAccess
  <2>10. reader[s].at \in Nat BY DEF WatcherTypes, Reader
  <2>11. SentWereRead'
    <3> SUFFICES ASSUME NEW t \in Source, reader'[t].inode # 0, NEW j \in DOMAIN log,
                        Sent(j), log[j].source = t
                 PROVE  j <= reader'[t].at
      BY <2>7 DEF SentWereRead
    <3>1. j \in Nat BY DEF WatcherTypes
    <3>2. CASE t = s
      BY <2>1, <2>4, <2>8, <2>10, <3>1, <3>2 DEF Entry
    <3>3. CASE t # s BY <2>4, <3>3 DEF SentWereRead
    <3> QED BY <3>2, <3>3
  <2>12. HandIsNext'
    <3>1. CASE hand' = hand BY <2>2, <3>1 DEF HandIsNext
    <3>2. CASE hand'.entry = i /\ log[i].kind = "access"
      <4>1. \A j \in DOMAIN log : Sent(j) /\ log[j].source = s => j < i
        <5>1. \A j \in DOMAIN log : j \in Nat BY DEF WatcherTypes
        <5> QED BY <2>1, <2>8, <2>10, <5>1 DEF Entry
      <4>2. i <= reader'[s].at BY <2>1, <2>4 DEF Entry
      <4> QED BY <2>1, <2>7, <3>2, <4>1, <4>2 DEF HandIsNext, IsAccess
    <3> QED BY <2>5, <3>1, <3>2
  <2>13. PendingAreNext' BY DEF PendingAreNext
  <2>14. NoNonceAhead' BY <2>5 DEF NoNonceAhead, WatcherTypes
  <2>15. NoNonceGap' BY DEF NoNonceGap
  <2> QED BY <2>6, <2>9, <2>11, <2>12, <2>13, <2>14, <2>15
<1> QED BY <1>1, <1>3, <1>4
-----------------------------------------------------------------------------
(* Submitting. *)

\* An access is forgotten with nothing sent.
LEMMA ForgetKeeps ==
    ASSUME AuditInvariant, forget, UNCHANGED chainVars
    PROVE  AuditInvariant'
<1> USE DEF AuditInvariant, forget
<1>1. UNCHANGED <<log, inode, reader, mempool, nonce, events>>
  BY DEF logVars, chainVars
<1>2. EmptyHand \in Hand /\ EmptyHand.entry = 0 /\ EmptyHand.nonce = 0
  BY AuditBoundsAssumption DEF EmptyHand, Hand
<1>3. WatcherTypes' BY <1>1, <1>2 DEF WatcherTypes
<1>4. SentAreAccesses' BY <1>1 DEF SentAreAccesses, IsAccess, Sent
<1>5. SentWereRead' BY <1>1 DEF SentWereRead, Sent
<1>6. HandIsNext' BY <1>2 DEF HandIsNext
<1>7. PendingAreNext' /\ NoNonceGap' BY <1>1 DEF PendingAreNext, NoNonceGap
<1>8. NoNonceAhead' BY <1>1, <1>2 DEF NoNonceAhead, WatcherTypes
<1> QED BY <1>3, <1>4, <1>5, <1>6, <1>7, <1>8

\* The node says how many transactions were mined.
LEMMA CountKeeps ==
    ASSUME AuditInvariant, get_transaction_count
    PROVE  AuditInvariant'
<1> USE DEF AuditInvariant
<1>1. CASE forget BY <1>1, ForgetKeeps DEF get_transaction_count
<1>2. CASE /\ phase' = "sending"
           /\ hand' = [hand EXCEPT !.nonce = nonce]
           /\ UNCHANGED <<reader, queue, batch>> /\ UNCHANGED logVars
  <2>1. UNCHANGED <<log, inode, reader, mempool, nonce, events>>
    BY <1>2 DEF get_transaction_count, logVars, chainVars
  <2>2. hand' \in Hand /\ hand'.entry = hand.entry /\ hand'.nonce = nonce
    BY <1>2 DEF WatcherTypes, Hand
  <2>3. WatcherTypes' BY <1>2, <2>1, <2>2 DEF WatcherTypes, get_transaction_count
  <2>4. SentAreAccesses' BY <2>1 DEF SentAreAccesses, IsAccess, Sent
  <2>5. SentWereRead' BY <2>1 DEF SentWereRead, Sent
  <2>6. HandIsNext' BY <2>1, <2>2 DEF HandIsNext, IsAccess, Sent
  <2>7. PendingAreNext' /\ NoNonceGap' BY <2>1 DEF PendingAreNext, NoNonceGap
  <2>8. NoNonceAhead' BY <2>1, <2>2 DEF NoNonceAhead, WatcherTypes
  <2> QED BY <2>3, <2>4, <2>5, <2>6, <2>7, <2>8
<1> QED BY <1>1, <1>2 DEF get_transaction_count

\* What the node takes is the only transaction it holds of the wallet.
LEMMA SendKeeps ==
    ASSUME AuditInvariant, send_raw_transaction
    PROVE  AuditInvariant'
<1> USE DEF AuditInvariant
<1> DEFINE tx == [nonce |-> hand.nonce, entry |-> hand.entry]
<1>1. forget /\ UNCHANGED <<nonce, events>> BY DEF send_raw_transaction
<1>2. CASE UNCHANGED mempool BY <1>1, <1>2, ForgetKeeps DEF chainVars
<1>3. CASE /\ hand.nonce >= nonce
           /\ mempool' = (mempool \ Rivals(hand.nonce)) \cup {tx}
  <2>1. hand.nonce = nonce BY <1>3 DEF NoNonceAhead, WatcherTypes, Hand
  <2>2. mempool' = {tx}
    <3>1. \A t \in mempool : t \in Rivals(hand.nonce)
      BY <2>1 DEF Rivals, NoNonceGap
    <3> QED BY <1>3, <3>1
  <2>3. hand.entry # 0 BY DEF send_raw_transaction, WatcherTypes
  <2>4. hand.entry \in DOMAIN log /\ log[hand.entry].kind = "access"
    BY <2>3 DEF HandIsNext, IsAccess
  <2>5. tx \in Tx
    <3>1. hand.entry \in Entry
      BY <2>4, AuditBoundsAssumption DEF WatcherTypes, Entry
    <3> QED BY <2>1, <3>1 DEF WatcherTypes, Tx
  <2>6. UNCHANGED <<log, inode, reader, nonce, events>> BY <1>1 DEF forget, logVars
  <2>7. EmptyHand \in Hand /\ EmptyHand.entry = 0 /\ EmptyHand.nonce = 0
    BY AuditBoundsAssumption DEF EmptyHand, Hand
  <2>8. hand' = EmptyHand /\ phase' = "reading" BY <1>1 DEF forget
  <2>9. WatcherTypes' BY <2>2, <2>5, <2>6, <2>7, <2>8 DEF WatcherTypes
  <2>10. \A i : Sent(i)' => Sent(i) \/ i = hand.entry BY <2>2, <2>6 DEF Sent
  <2>11. SentAreAccesses' BY <2>4, <2>6, <2>10 DEF SentAreAccesses, IsAccess
  <2>12. SentWereRead'
    BY <2>3, <2>6, <2>10 DEF SentWereRead, HandIsNext
  <2>13. HandIsNext' BY <2>7, <2>8 DEF HandIsNext
  <2>14. PendingAreNext'
    <3>1. \A k \in DOMAIN events : Sent(events[k].entry) BY DEF Sent
    <3>2. \A k \in DOMAIN events : events[k].entry \in DOMAIN log
      BY <3>1, SentEntry DEF SentAreAccesses, IsAccess
    <3> QED BY <2>2, <2>3, <2>6, <3>1, <3>2 DEF PendingAreNext, HandIsNext
  <2>15. NoNonceAhead' BY <2>6, <2>7, <2>8 DEF NoNonceAhead, WatcherTypes
  <2>16. NoNonceGap' BY <2>1, <2>2, <2>6 DEF NoNonceGap
  <2> QED BY <2>9, <2>11, <2>12, <2>13, <2>14, <2>15, <2>16
<1> QED BY <1>2, <1>3 DEF send_raw_transaction
-----------------------------------------------------------------------------
(* The chain. *)

\* What is mined was the only one pending; the next may take its nonce after.
LEMMA MineKeeps ==
    ASSUME AuditInvariant, NEW tx \in mempool, mine(tx)
    PROVE  AuditInvariant'
<1> USE DEF AuditInvariant
<1> DEFINE event == [entry |-> tx.entry, reporter |-> Wallet]
<1>1. UNCHANGED <<log, inode, phase, reader, hand>>
  BY DEF mine, logVars, watcherVars
<1>2. mempool' = {} /\ nonce' = nonce + 1 BY DEF mine, NoNonceGap
<1>3. events' = Append(events, event) BY DEF mine, logAccess
<1>4. event \in Event BY SentEntry DEF Event, Sender
<1>5. /\ events' \in Seq(Event) /\ Len(events') = Len(events) + 1
      /\ \A k \in 1..Len(events) : events'[k] = events[k]
      /\ events'[Len(events) + 1] = event
  BY <1>3, <1>4, AppendProperties DEF WatcherTypes
<1>6. WatcherTypes' BY <1>1, <1>2, <1>5 DEF WatcherTypes
<1>7. \A i : Sent(i)' => Sent(i)
  <2> SUFFICES ASSUME NEW i, NEW k \in DOMAIN events', events'[k].entry = i
               PROVE  Sent(i)
    BY <1>2 DEF Sent
  <2>1. CASE k \in DOMAIN events BY <1>5, <2>1 DEF Sent, WatcherTypes
  <2>2. CASE k = Len(events) + 1 BY <1>5, <2>2 DEF Sent
  <2> QED BY <1>5, <2>1, <2>2 DEF WatcherTypes
<1>8. SentAreAccesses' BY <1>1, <1>7 DEF SentAreAccesses, IsAccess
<1>9. SentWereRead' BY <1>1, <1>7 DEF SentWereRead
<1>10. HandIsNext' BY <1>1, <1>7 DEF HandIsNext, IsAccess
<1>11. PendingAreNext' /\ NoNonceGap' BY <1>2 DEF PendingAreNext, NoNonceGap
<1>12. NoNonceAhead' BY <1>1, <1>2 DEF NoNonceAhead, WatcherTypes, Hand
<1> QED BY <1>6, <1>8, <1>9, <1>10, <1>11, <1>12

\* The node forgets a transaction.
LEMMA EvictKeeps ==
    ASSUME AuditInvariant, NEW tx \in mempool, evict(tx)
    PROVE  AuditInvariant'
<1> USE DEF AuditInvariant
<1>1. UNCHANGED <<log, inode, phase, reader, hand, nonce, events>>
  BY DEF evict, logVars, watcherVars
<1>2. mempool' \subseteq mempool BY DEF evict
<1>3. \A i : Sent(i)' => Sent(i) BY <1>1, <1>2 DEF Sent
<1>4. WatcherTypes' BY <1>1, <1>2 DEF WatcherTypes
<1>5. SentAreAccesses' BY <1>1, <1>3 DEF SentAreAccesses, IsAccess
<1>6. SentWereRead' BY <1>1, <1>3 DEF SentWereRead
<1>7. HandIsNext' BY <1>1, <1>3 DEF HandIsNext, IsAccess
<1>8. PendingAreNext' BY <1>1, <1>2 DEF PendingAreNext
<1>9. NoNonceAhead' /\ NoNonceGap' BY <1>1, <1>2 DEF NoNonceAhead, NoNonceGap
<1> QED BY <1>4, <1>5, <1>6, <1>7, <1>8, <1>9
-----------------------------------------------------------------------------
(* All steps. *)

\* Nothing was logged, read or sent before.
LEMMA AuditInitHolds == AuditInit => AuditInvariant
<1> SUFFICES ASSUME AuditInit PROVE AuditInvariant OBVIOUS
<1> USE DEF AuditInit, EmptyHand
<1>1. inode \in [Source -> Inode] /\ reader \in [Source -> Reader] /\ hand \in Hand
  BY AuditBoundsAssumption DEF Inode, Closed, Reader, Hand
<1>2. \A i : ~Sent(i) BY DEF Sent
<1>3. log \in Seq(Line) /\ Len(log) <= MaxLine /\ events \in Seq(Event)
  BY AuditBoundsAssumption
<1>4. WatcherTypes BY <1>1, <1>3 DEF WatcherTypes
<1>5. SentAreAccesses BY <1>2 DEF SentAreAccesses
<1>6. SentWereRead BY <1>2 DEF SentWereRead
<1>7. HandIsNext BY DEF HandIsNext
<1>8. PendingAreNext /\ NoNonceAhead /\ NoNonceGap
  BY DEF PendingAreNext, NoNonceAhead, NoNonceGap
<1> QED BY <1>4, <1>5, <1>6, <1>7, <1>8 DEF AuditInvariant

\* A step of the watcher's loop.
LEMMA LoopKeeps ==
    ASSUME AuditInvariant, Loop
    PROVE  AuditInvariant'
<1>1. CASE \E s \in Source : open_source(s) \/ add_watch(s)
  BY <1>1, OpenSourceKeeps, AddWatchKeeps
<1>2. CASE read \/ \E s \in Source : end_of_file(s)
  <2>1. UNCHANGED <<log, inode, reader, hand, mempool, nonce, events>>
    BY <1>2 DEF read, end_of_file, logVars, chainVars
  <2>2. phase' \in {"counting", "sending"} <=> phase \in {"counting", "sending"}
    BY <1>2 DEF read, end_of_file
  <2> QED BY <2>1, <2>2, IdleKeeps
<1>3. CASE overflowed BY <1>3, EndsKeeps DEF overflowed
<1>4. CASE \E s \in Source : read_line(s) BY <1>4, ReadLineKeeps
<1>5. CASE get_transaction_count BY <1>5, CountKeeps
<1>6. CASE send_raw_transaction BY <1>6, SendKeeps
<1> QED BY <1>1, <1>2, <1>3, <1>4, <1>5, <1>6 DEF Loop

\* Every step keeps the invariant.
LEMMA AuditStepKeeps ==
    AuditInvariant /\ [AuditNext]_auditVars => AuditInvariant'
<1> SUFFICES ASSUME AuditInvariant, [AuditNext]_auditVars
             PROVE  AuditInvariant'
  OBVIOUS
<1>1. CASE UNCHANGED auditVars BY <1>1, IdleKeeps DEF auditVars
<1>2. CASE \E s \in Source : \E kind \in Kind(s) : write_line(s, kind)
  BY <1>2, WriteLineKeeps
<1>3. CASE \E s \in Source : rotate(s) BY <1>3, RotateKeeps
<1>4. CASE crash \/ oserror BY <1>4, EndsKeeps DEF crash, oserror
<1>5. CASE operator_start \/ run
  <2>1. UNCHANGED <<log, inode, reader, hand, mempool, nonce, events>>
    BY <1>5 DEF operator_start, run, logVars, chainVars
  <2>2. phase' \in {"counting", "sending"} <=> phase \in {"counting", "sending"}
    BY <1>5 DEF operator_start, run
  <2> QED BY <2>1, <2>2, IdleKeeps
<1>6. CASE Loop BY <1>6, LoopKeeps
<1>7. CASE \E i \in Entry : stranger_calls(i)
  <2>1. UNCHANGED <<log, inode, phase, reader, hand, mempool, nonce, events>>
    BY <1>7 DEF stranger_calls, logAccess, Wallet, logVars, watcherVars
  <2> QED BY <2>1, IdleKeeps
<1>8. CASE \E tx \in mempool : mine(tx) \/ evict(tx)
  BY <1>8, MineKeeps, EvictKeeps
<1> QED BY <1>1, <1>2, <1>3, <1>4, <1>5, <1>6, <1>7, <1>8 DEF AuditNext

LEMMA AuditInvariantHolds == AuditSpec => []AuditInvariant
BY AuditInitHolds, AuditStepKeeps, PTL DEF AuditSpec

\* Whatever is refused, replaced or forgotten, what waits at the node is one
\* transaction, and the next to be mined.
THEOREM NeverAGap == AuditSpec => []NoNonceGap
<1>1. AuditInvariant => NoNonceGap BY DEF AuditInvariant
<1> QED BY <1>1, AuditInvariantHolds, PTL
-----------------------------------------------------------------------------
(* The notifications. *)

Notice == Source \cup {Overflow}

\* What a full queue is full of: the last of it says that others were lost.
Notices ==
    /\ phase \in {"down", "stopped", "opening", "waiting", "reading", "counting", "sending"}
    /\ queue \in Seq(Notice) /\ Len(queue) <= MaxQueued + 1
    /\ Len(queue) > MaxQueued => Contains(queue, Overflow)
    /\ batch \in Seq(Notice)
    /\ phase \in {"reading", "counting", "sending"} <=> batch # <<>>

\* Once a notification was dropped, no other is queued.
LEMMA NotifiedIsBounded ==
    ASSUME Notices, NEW s \in Source
    PROVE  /\ Notified(s) \in Seq(Notice) /\ Len(Notified(s)) <= MaxQueued + 1
           /\ Len(Notified(s)) > MaxQueued => Contains(Notified(s), Overflow)
<1> USE AuditBoundsAssumption DEF Notices
<1>1. s \in Notice /\ Overflow \in Notice BY DEF Notice
<1>2. CASE Len(queue) < MaxQueued
  <2>1. Notified(s) \in {queue, Append(queue, s)} BY <1>2 DEF Notified
  <2> QED BY <1>1, <1>2, <2>1, AppendProperties
<1>3. CASE Len(queue) >= MaxQueued /\ Contains(queue, Overflow)
  BY <1>3 DEF Notified
<1>4. CASE Len(queue) >= MaxQueued /\ ~Contains(queue, Overflow)
  <2>1. Notified(s) = Append(queue, Overflow) /\ Len(queue) = MaxQueued
    BY <1>4 DEF Notified
  <2>2. /\ Append(queue, Overflow) \in Seq(Notice)
        /\ Len(Append(queue, Overflow)) = MaxQueued + 1
        /\ Append(queue, Overflow)[MaxQueued + 1] = Overflow
    BY <1>1, <2>1, AppendProperties
  <2>3. MaxQueued + 1 \in 1..Len(Append(queue, Overflow)) BY <2>2
  <2> QED BY <2>1, <2>2, <2>3 DEF Contains
<1> QED BY <1>2, <1>3, <1>4

LEMMA EndsEmpty ==
    ASSUME NEW how \in {"down", "stopped"}, Ends(how)
    PROVE  Notices'
<1>1. queue' = <<>> /\ batch' = <<>> /\ phase' = how BY DEF Ends
<1>2. Len(queue') = 0 /\ 0 <= MaxQueued + 1 /\ ~(0 > MaxQueued)
  BY <1>1, AuditBoundsAssumption
<1> QED BY <1>1, <1>2 DEF Notices

\* The watcher's loop takes notifications from the front.
LEMMA LoopKeepsNotices ==
    ASSUME Notices, Loop
    PROVE  Notices'
<1> USE DEF Notices
<1>1. CASE \E s \in Source : open_source(s) \/ add_watch(s)
  BY <1>1 DEF open_source, add_watch
<1>2. CASE read
  <2>1. /\ batch' = queue /\ queue' = <<>> /\ queue # <<>> /\ phase' = "reading"
    BY <1>2 DEF read
  <2>2. Len(queue') = 0 /\ 0 <= MaxQueued + 1 /\ ~(0 > MaxQueued)
    BY <2>1, AuditBoundsAssumption
  <2> QED BY <2>1, <2>2
<1>3. CASE overflowed BY <1>3, EndsEmpty DEF overflowed
<1>4. CASE \E s \in Source : read_line(s)
  <2>1. Ends("down") \/ /\ UNCHANGED <<queue, batch>>
                        /\ phase = "reading" /\ phase' \in {"reading", "counting"}
    BY <1>4 DEF read_line
  <2> QED BY <2>1, EndsEmpty
<1>5. CASE \E s \in Source : end_of_file(s)
  <2>1. /\ batch' = Tail(batch) /\ queue' = queue /\ phase = "reading"
        /\ phase' = IF batch' = <<>> THEN "waiting" ELSE phase
    BY <1>5 DEF end_of_file
  <2>2. batch' \in Seq(Notice) BY <2>1, HeadTailProperties
  <2> QED BY <2>1, <2>2
<1>6. CASE get_transaction_count \/ send_raw_transaction
  BY <1>6 DEF get_transaction_count, send_raw_transaction, forget
<1> QED BY <1>1, <1>2, <1>3, <1>4, <1>5, <1>6 DEF Loop

LEMMA NoticesStep ==
    Notices /\ [AuditNext]_auditVars => Notices'
<1> SUFFICES ASSUME Notices, [AuditNext]_auditVars PROVE Notices'
  OBVIOUS
<1>1. CASE \E s \in Source : \E kind \in Kind(s) : write_line(s, kind)
  <2>1. PICK s \in Source : queue' \in {queue, Notified(s)}
    BY <1>1 DEF write_line
  <2>2. UNCHANGED <<phase, batch>> BY <1>1 DEF write_line
  <2> QED BY <2>1, <2>2, NotifiedIsBounded DEF Notices
<1>2. CASE crash \/ oserror BY <1>2, EndsEmpty DEF crash, oserror
<1>3. CASE operator_start \/ run BY <1>3 DEF operator_start, run, Notices
<1>4. CASE Loop BY <1>4, LoopKeepsNotices
<1>5. CASE \/ \E s \in Source : rotate(s)
           \/ \E i \in Entry : stranger_calls(i)
           \/ \E tx \in mempool : mine(tx) \/ evict(tx)
           \/ UNCHANGED auditVars
  <2>1. UNCHANGED <<phase, queue, batch>>
    BY <1>5 DEF rotate, stranger_calls, mine, evict, watcherVars, auditVars
  <2> QED BY <2>1 DEF Notices
<1> QED BY <1>1, <1>2, <1>3, <1>4, <1>5 DEF AuditNext

LEMMA NoticesInit == AuditInit => Notices
<1> SUFFICES ASSUME AuditInit PROVE Notices OBVIOUS
<1>1. queue = <<>> /\ batch = <<>> /\ phase = "down" BY DEF AuditInit
<1>2. Len(queue) = 0 /\ 0 <= MaxQueued + 1 /\ ~(0 > MaxQueued)
  BY <1>1, AuditBoundsAssumption
<1> QED BY <1>1, <1>2 DEF Notices

\* The watcher has a notification to handle whenever it reads a file, and an
\* access in hand whenever it talks to the node (audit_watcher.py 188-195).
THEOREM WatcherTyped == AuditSpec => []AuditTypeOK
<1>1. AuditInvariant /\ Notices => AuditTypeOK
  BY DEF AuditInvariant, WatcherTypes, Notices, Notice, AuditTypeOK
<1> QED BY <1>1, NoticesInit, NoticesStep, AuditInvariantHolds, PTL DEF AuditSpec
-----------------------------------------------------------------------------
(* What was announced is not forgotten. *)

\* A notification for source s, or that some were lost, is among these.
Announces(notices, s) == Contains(notices, s) \/ Contains(notices, Overflow)

\* Who is not running has no file open.
AtRest ==
    phase \in {"down", "stopped"} => \A s \in Source : reader[s].inode = 0

Announced ==
    /\ WatcherTypes /\ Notices
    /\ AtRest
    /\ HeardLinesStayAnnounced

LEMMA StayAnnounced ==
    HeardLinesStayAnnounced <=>
        \A i \in DOMAIN log : log[i].heard /\ ~Dealt(i) =>
            Announces(queue, log[i].source) \/ Announces(batch, log[i].source)
BY DEF HeardLinesStayAnnounced, Announces

\* A line is of a source, and of an inode there is.
LEMMA LineOf ==
    ASSUME WatcherTypes, NEW i \in DOMAIN log
    PROVE  log[i].source \in Source /\ log[i].inode # 0 /\ i \in Nat /\ i <= Len(log)
<1>1. log[i] \in Line /\ i \in 1..Len(log) /\ Len(log) \in Nat BY DEF WatcherTypes
<1> QED BY <1>1 DEF Line, Inode

\* Who has no file open has nothing to deal with.
LEMMA ClosedIsDealt ==
    ASSUME WatcherTypes, NEW i \in DOMAIN log,
           phase \in {"down", "stopped"} \/ reader[log[i].source].inode = 0
    PROVE  Dealt(i)
BY LineOf DEF Dealt

\* What is queued stays queued when another notification comes, and a new one
\* is queued, or merged with the last, or dropped with a notice.
LEMMA NotifiedAnnounces ==
    ASSUME Notices, NEW s \in Source
    PROVE  /\ Announces(Notified(s), s)
           /\ \A t : Announces(queue, t) => Announces(Notified(s), t)
<1> USE DEF Notices
<1>1. s \in Notice /\ Overflow \in Notice BY DEF Notice
<1>2. ASSUME NEW n \in Notice
      PROVE  /\ Contains(Append(queue, n), n)
             /\ \A t : Contains(queue, t) => Contains(Append(queue, n), t)
  <2>1. /\ Len(Append(queue, n)) = Len(queue) + 1
        /\ Append(queue, n)[Len(queue) + 1] = n
        /\ \A j \in 1..Len(queue) : Append(queue, n)[j] = queue[j]
    BY AppendProperties
  <2>2. Len(queue) + 1 \in 1..Len(Append(queue, n))
        /\ \A j \in 1..Len(queue) : j \in 1..Len(Append(queue, n))
    BY <2>1
  <2> QED BY <2>1, <2>2 DEF Contains
<1>3. CASE Notified(s) = queue /\ Contains(queue, Overflow)
  BY <1>3 DEF Announces
<1>4. CASE Notified(s) = Append(queue, Overflow)
  BY <1>1, <1>2, <1>4 DEF Announces
<1>5. CASE Notified(s) = queue /\ queue # <<>> /\ Last(queue) = s
  <2>1. Len(queue) \in 1..Len(queue) /\ queue[Len(queue)] = s BY <1>5 DEF Last
  <2> QED BY <1>5, <2>1 DEF Announces, Contains
<1>6. CASE Notified(s) = Append(queue, s)
  BY <1>1, <1>2, <1>6 DEF Announces
<1> QED BY <1>3, <1>4, <1>5, <1>6 DEF Notified

\* A step that takes no notification away and opens no file.
LEMMA RestAnnounced ==
    ASSUME Announced, WatcherTypes', Notices',
           UNCHANGED <<log, queue, batch>>,
           phase \in {"down", "stopped"} => phase' \in {"down", "stopped", "opening"},
           phase' \in {"down", "stopped"} => phase \in {"down", "stopped"},
           \A s \in Source : /\ reader'[s].inode = reader[s].inode
                             /\ reader'[s].at >= reader[s].at
    PROVE  Announced'
<1> USE DEF Announced
<1>1. AtRest' BY DEF AtRest
<1>2. ASSUME NEW i \in DOMAIN log, log[i].heard, ~Dealt(i)'
      PROVE  ~Dealt(i)
  <2>1. log[i].source \in Source /\ log[i].inode # 0 /\ i \in Nat BY LineOf
  <2>2. phase \notin {"down", "stopped"} BY <1>2, <2>1 DEF AtRest, Dealt
  <2>3. reader'[log[i].source].at \in Nat /\ reader[log[i].source].at \in Nat
    BY <2>1 DEF WatcherTypes, Reader
  <2> QED BY <1>2, <2>1, <2>2, <2>3 DEF Dealt
<1>3. HeardLinesStayAnnounced' BY <1>2 DEF HeardLinesStayAnnounced
<1> QED BY <1>1, <1>3

\* A line is heard together with its notification.
LEMMA WriteLineAnnounced ==
    ASSUME Announced, WatcherTypes', Notices',
           NEW s \in Source, NEW kind \in Kind(s), write_line(s, kind)
    PROVE  Announced'
<1> USE DEF Announced
<1> DEFINE told == reader[s].wd = inode[s]
           new == [source |-> s, inode |-> inode[s], kind |-> kind,
                   heard |-> told /\ reader[s].inode = inode[s]]
<1>1. /\ log' = Append(log, new) /\ UNCHANGED <<phase, reader, batch>>
      /\ queue' = IF told THEN Notified(s) ELSE queue
  BY DEF write_line
<1>2. log \in Seq(Line) /\ new \in Line BY DEF WatcherTypes, Line, Kind, Source
<1>3. /\ DOMAIN log = 1..Len(log) /\ Len(log) \in Nat
      /\ DOMAIN log' = 1..(Len(log) + 1)
      /\ \A i \in 1..Len(log) : log'[i] = log[i]
      /\ log'[Len(log) + 1] = new
  BY <1>1, <1>2, AppendProperties
<1>4. \A t : Announces(queue, t) => Announces(queue', t)
  BY <1>1, NotifiedAnnounces
<1>5. ASSUME NEW i \in DOMAIN log', log'[i].heard, ~Dealt(i)'
      PROVE  Announces(queue', log'[i].source) \/ Announces(batch', log'[i].source)
  <2>1. CASE i \in 1..Len(log)
    <3>1. log'[i] = log[i] /\ i \in DOMAIN log BY <1>3, <2>1
    <3>2. ~Dealt(i) BY <1>1, <1>5, <3>1 DEF Dealt
    <3>3. Announces(queue, log[i].source) \/ Announces(batch, log[i].source)
      BY <1>5, <3>1, <3>2, StayAnnounced
    <3> QED BY <1>1, <1>4, <3>1, <3>3
  <2>2. CASE i = Len(log) + 1
    <3>1. log'[i] = new BY <1>3, <2>2
    <3>2. log'[i].source = s BY <3>1
    <3>3. new.heard BY <1>5, <3>1
    <3>4. new.heard = (told /\ reader[s].inode = inode[s]) OBVIOUS
    <3>5. queue' = Notified(s) BY <1>1, <3>3, <3>4
    <3>6. Announces(Notified(s), s) BY NotifiedAnnounces
    <3> QED BY <3>2, <3>5, <3>6
  <2> QED BY <1>3, <1>5, <2>1, <2>2
<1>6. HeardLinesStayAnnounced' BY <1>5 DEF HeardLinesStayAnnounced, Announces
<1>7. AtRest' BY <1>1 DEF AtRest
<1> QED BY <1>6, <1>7

\* Who ends has nothing to deal with.
LEMMA EndsAnnounced ==
    ASSUME WatcherTypes', Notices', NEW how \in {"down", "stopped"}, Ends(how)
    PROVE  Announced'
<1>1. phase' \in {"down", "stopped"} /\ \A s \in Source : reader'[s].inode = 0
  BY DEF Ends, Closed
<1>2. \A i \in DOMAIN log' : Dealt(i)' BY <1>1 DEF Dealt
<1> QED BY <1>1, <1>2 DEF Announced, AtRest, HeardLinesStayAnnounced

\* A file is opened at its end: what was announced before is behind.
LEMMA OpenSourceAnnounced ==
    ASSUME Announced, WatcherTypes', Notices', NEW s \in Source, open_source(s)
    PROVE  Announced'
<1> USE DEF Announced
<1>1. /\ UNCHANGED <<log, phase, queue, batch>> /\ phase = "opening"
      /\ reader'[s].at = Len(log) /\ \A t \in Source \ {s} : reader'[t] = reader[t]
  BY DEF WatcherTypes, open_source, Reader, logVars
<1>2. ASSUME NEW i \in DOMAIN log, log[i].heard, ~Dealt(i)'
      PROVE  ~Dealt(i)
  <2>1. log[i].source \in Source /\ i \in Nat /\ i <= Len(log) BY LineOf
  <2>2. Len(log) \in Nat BY DEF WatcherTypes
  <2>3. log[i].source # s BY <1>1, <1>2, <2>1, <2>2 DEF Dealt
  <2> QED BY <1>1, <1>2, <2>1, <2>3 DEF Dealt
<1>3. HeardLinesStayAnnounced' BY <1>1, <1>2 DEF HeardLinesStayAnnounced
<1> QED BY <1>1, <1>3 DEF AtRest

\* inotify.read() takes all that waits.
LEMMA ReadAnnounced ==
    ASSUME Announced, WatcherTypes', Notices', read
    PROVE  Announced'
<1> USE DEF Announced
<1>1. /\ batch' = queue /\ batch = <<>> /\ UNCHANGED <<log, reader>>
      /\ phase = "waiting" /\ phase' = "reading"
  BY DEF read, Notices, logVars
<1>2. \A t : ~Announces(batch, t) BY <1>1 DEF Announces, Contains
<1>3. \A i \in DOMAIN log : ~Dealt(i)' => ~Dealt(i) BY <1>1 DEF Dealt
<1>4. \A i \in DOMAIN log : log[i].heard /\ ~Dealt(i)' =>
         Announces(batch', log[i].source)
  BY <1>1, <1>2, <1>3, StayAnnounced
<1>5. HeardLinesStayAnnounced'
  BY <1>1, <1>4 DEF HeardLinesStayAnnounced, Announces
<1> QED BY <1>1, <1>5 DEF AtRest

\* A notification is done with when nothing of its source is left to read.
LEMMA EndOfFileAnnounced ==
    ASSUME Announced, WatcherTypes', Notices', NEW s \in Source, end_of_file(s)
    PROVE  Announced'
<1> USE DEF Announced
<1>1. /\ phase = "reading" /\ Head(batch) = s /\ Unread(s) = {}
      /\ batch' = Tail(batch) /\ UNCHANGED <<log, reader, queue>>
      /\ phase' \in {"waiting", "reading"}
  BY DEF end_of_file, logVars
<1>2. batch \in Seq(Notice) /\ batch # <<>> BY <1>1 DEF Notices
<1>3. ASSUME NEW t, t # s, Contains(batch, t) PROVE Contains(batch', t)
  <2>1. PICK j \in 1..Len(batch) : batch[j] = t BY <1>3 DEF Contains
  <2>2. j # 1 BY <1>1, <1>2, <1>3, <2>1
  <2>3. /\ Len(batch') = Len(batch) - 1
        /\ \A k \in 1..(Len(batch) - 1) : batch'[k] = batch[k + 1]
    BY <1>1, <1>2, HeadTailProperties
  <2>4. Len(batch) \in Nat /\ j - 1 \in 1..(Len(batch) - 1)
        /\ batch'[j - 1] = batch[(j - 1) + 1] /\ (j - 1) + 1 = j
    BY <1>2, <2>1, <2>2, <2>3
  <2> QED BY <2>1, <2>3, <2>4 DEF Contains
<1>4. ASSUME NEW i \in DOMAIN log, log[i].heard, ~Dealt(i)'
      PROVE  Announces(queue', log[i].source) \/ Announces(batch', log[i].source)
  <2>1. ~Dealt(i) BY <1>1, <1>4 DEF Dealt
  <2>2. log[i].source \in Source /\ i \in Nat BY LineOf
  <2>3. log[i].source # s
    <3>1. reader[log[i].source].at \in Nat BY <2>2 DEF WatcherTypes, Reader
    <3> QED BY <1>1, <2>1, <2>2, <3>1 DEF Dealt, Unread
  <2>4. s # Overflow BY DEF Source, Overflow
  <2>5. Announces(queue, log[i].source) \/ Announces(batch, log[i].source)
    BY <1>4, <2>1, StayAnnounced
  <2> QED BY <1>1, <1>3, <2>3, <2>4, <2>5 DEF Announces
<1>5. HeardLinesStayAnnounced'
  BY <1>1, <1>4 DEF HeardLinesStayAnnounced, Announces
<1> QED BY <1>1, <1>5 DEF AtRest

\* The watcher's loop forgets nothing.
LEMMA LoopAnnounced ==
    ASSUME Announced, WatcherTypes', Notices', Loop
    PROVE  Announced'
<1>1. CASE \E s \in Source : open_source(s) BY <1>1, OpenSourceAnnounced
<1>2. CASE \E s \in Source : add_watch(s)
  <2>1. PICK s \in Source : reader' = [reader EXCEPT ![s].wd = inode[s]]
    BY <1>2 DEF add_watch
  <2>2. UNCHANGED <<log, queue, batch>> /\ phase = "opening"
        /\ phase' \in {"opening", "waiting"}
    BY <1>2 DEF add_watch, logVars
  <2>3. \A t \in Source : /\ reader'[t].inode = reader[t].inode
                          /\ reader'[t].at = reader[t].at /\ reader[t].at \in Nat
    BY <2>1 DEF Announced, WatcherTypes, Reader
  <2> QED BY <2>2, <2>3, RestAnnounced
<1>3. CASE read BY <1>3, ReadAnnounced
<1>4. CASE overflowed BY <1>4, EndsAnnounced DEF overflowed
<1>5. CASE \E s \in Source : read_line(s)
  <2>1. PICK s \in Source : read_line(s) BY <1>5
  <2>2. PICK i \in Unread(s) :
          \/ Ends("down")
          \/ /\ reader' = [reader EXCEPT ![s].at = i]
             /\ UNCHANGED <<queue, batch, log>> /\ phase' \in {"reading", "counting"}
    BY <2>1 DEF read_line, logVars
  <2>3. CASE Ends("down") BY <2>3, EndsAnnounced
  <2>4. CASE /\ reader' = [reader EXCEPT ![s].at = i]
             /\ UNCHANGED <<queue, batch, log>> /\ phase' \in {"reading", "counting"}
    <3>1. phase = "reading" BY <2>1 DEF read_line
    <3>2. i \in Nat /\ i > reader[s].at /\ \A t \in Source : reader[t].at \in Nat
      BY DEF Unread, Announced, WatcherTypes, Reader
    <3>3. \A t \in Source : /\ reader'[t].inode = reader[t].inode
                            /\ reader'[t].at >= reader[t].at
      BY <2>4, <3>2 DEF Announced, WatcherTypes, Reader
    <3> QED BY <2>4, <3>1, <3>3, RestAnnounced
  <2> QED BY <2>2, <2>3, <2>4
<1>6. CASE \E s \in Source : end_of_file(s) BY <1>6, EndOfFileAnnounced
<1>7. CASE get_transaction_count \/ send_raw_transaction
  <2>1. UNCHANGED <<log, queue, batch, reader>>
        /\ phase \in {"counting", "sending"} /\ phase' \in {"sending", "reading"}
    BY <1>7 DEF get_transaction_count, send_raw_transaction, forget, logVars
  <2>2. \A t \in Source : reader[t].at \in Nat BY DEF Announced, WatcherTypes, Reader
  <2> QED BY <2>1, <2>2, RestAnnounced
<1> QED BY <1>1, <1>2, <1>3, <1>4, <1>5, <1>6, <1>7 DEF Loop

LEMMA AnnouncedStep ==
    Announced /\ WatcherTypes' /\ [AuditNext]_auditVars => Announced'
<1> SUFFICES ASSUME Announced, WatcherTypes', [AuditNext]_auditVars PROVE Announced'
  OBVIOUS
<1>0. Notices' BY NoticesStep DEF Announced
<1>6. \A t \in Source : reader[t].at \in Nat BY DEF Announced, WatcherTypes, Reader
<1>1. CASE \E s \in Source : \E kind \in Kind(s) : write_line(s, kind)
  BY <1>0, <1>1, WriteLineAnnounced
<1>2. CASE crash \/ oserror BY <1>0, <1>2, EndsAnnounced DEF crash, oserror
<1>3. CASE operator_start \/ run
  <2>1. /\ UNCHANGED <<log, queue, batch, reader>>
        /\ phase \in {"down", "stopped"} /\ phase' \in {"down", "stopped", "opening"}
    BY <1>3 DEF operator_start, run, logVars
  <2> QED BY <1>0, <1>6, <2>1, RestAnnounced
<1>4. CASE Loop BY <1>0, <1>4, LoopAnnounced
<1>5. CASE \/ \E s \in Source : rotate(s)
           \/ \E i \in Entry : stranger_calls(i)
           \/ \E tx \in mempool : mine(tx) \/ evict(tx)
           \/ UNCHANGED auditVars
  <2>1. UNCHANGED <<log, phase, reader, queue, batch>>
    BY <1>5 DEF rotate, stranger_calls, mine, evict, watcherVars, auditVars, logVars
  <2> QED BY <1>0, <1>6, <2>1, RestAnnounced
<1> QED BY <1>1, <1>2, <1>3, <1>4, <1>5 DEF AuditNext

\* Whatever was merged, dropped, batched or submitted in between, a line the
\* watcher was told of has a notification to come for as long as it is unread:
\* of HeardLinesAreRead only the fairness of the loop is left to the runs.
THEOREM NothingHeardIsForgotten == AuditSpec => []HeardLinesStayAnnounced
<1>1. AuditInit => Announced
  <2> SUFFICES ASSUME AuditInit PROVE Announced OBVIOUS
  <2>1. WatcherTypes BY AuditInitHolds DEF AuditInvariant
  <2>2. Notices BY NoticesInit
  <2>3. AtRest BY DEF AuditInit, AtRest, Closed
  <2>4. HeardLinesStayAnnounced BY DEF AuditInit, HeardLinesStayAnnounced
  <2> QED BY <2>1, <2>2, <2>3, <2>4 DEF Announced
<1>2. AuditInvariant => WatcherTypes BY DEF AuditInvariant
<1>3. Announced => HeardLinesStayAnnounced BY DEF Announced
<1> QED BY <1>1, <1>2, <1>3, AnnouncedStep, AuditInvariantHolds, PTL DEF AuditSpec
-----------------------------------------------------------------------------
(* The refinement. *)

Lines == [i \in DOMAIN log |-> IF log[i].kind = "access"
                               THEN log[i].source ELSE "other"]

\* Before anything is logged, nothing is.
LEMMA TrailInitHolds == AuditInit => Trail!TrailInit
BY DEF AuditInit, Trail!TrailInit

\* A line that is written is logged.
LEMMA WriteLineLogs ==
    ASSUME AuditInvariant, NEW s \in Source, NEW kind \in Kind(s),
           write_line(s, kind)
    PROVE  Trail!Log("other")
<1> DEFINE new == [source |-> s, inode |-> inode[s], kind |-> kind,
                   heard |-> reader[s].wd = inode[s] /\ reader[s].inode = inode[s]]
           what == IF kind = "access" THEN s ELSE "other"
<1>1. log \in Seq(Line) /\ new \in Line
  BY DEF AuditInvariant, WatcherTypes, Line, Kind, Source
<1>2. log' = Append(log, new) /\ UNCHANGED events BY DEF write_line, chainVars
<1>3. /\ DOMAIN log' = 1..(Len(log) + 1) /\ DOMAIN log = 1..Len(log)
      /\ \A i \in 1..Len(log) : log'[i] = log[i]
      /\ log'[Len(log) + 1] = new
  BY <1>1, <1>2, AppendProperties
<1>4. Lines \in Seq(Source \cup {"other"}) /\ Len(Lines) = Len(log)
  <2>0. \A i \in 1..Len(log) : log[i] \in Line BY <1>1
  <2>1. \A i \in 1..Len(log) : log[i].source \in Source BY <2>0 DEF Line
  <2>2. Lines \in [1..Len(log) -> Source \cup {"other"}] BY <1>3, <2>1 DEF Lines
  <2>3. Len(log) \in Nat BY <1>1
  <2> QED BY <2>2, <2>3
<1>5. /\ Append(Lines, what) \in Seq(Source \cup {"other"})
      /\ Len(Append(Lines, what)) = Len(log) + 1
      /\ \A i \in 1..Len(log) : Append(Lines, what)[i] = Lines[i]
      /\ Append(Lines, what)[Len(log) + 1] = what
  BY <1>4, AppendProperties
<1>6. Lines' = Append(Lines, what)
  <2>1. \A i \in 1..(Len(log) + 1) : Lines'[i] = Append(Lines, what)[i]
    <3> TAKE i \in 1..(Len(log) + 1)
    <3>1. CASE i \in 1..Len(log)
      <4>1. i \in DOMAIN log' /\ i \in DOMAIN log /\ log'[i] = log[i]
        BY <1>3, <3>1
      <4>2. Lines'[i] = Lines[i] BY <4>1 DEF Lines
      <4>3. Append(Lines, what)[i] = Lines[i] BY <1>5, <3>1
      <4> QED BY <4>2, <4>3
    <3>2. CASE i = Len(log) + 1
      <4>1. i \in DOMAIN log' /\ log'[i] = new BY <1>3, <3>2
      <4>2. Lines'[i] = what BY <4>1 DEF Lines
      <4>3. Append(Lines, what)[i] = what BY <1>5, <3>2
      <4> QED BY <4>2, <4>3
    <3>3. i \in 1..Len(log) \/ i = Len(log) + 1
      <4>1. Len(log) \in Nat BY <1>1
      <4> QED BY <4>1
    <3> QED BY <3>1, <3>2, <3>3
  <2>2. DOMAIN Lines' = 1..(Len(log) + 1) BY <1>3 DEF Lines
  <2>3. Lines' = [i \in 1..(Len(log) + 1) |-> Lines'[i]] BY <2>2 DEF Lines
  <2>4. Append(Lines, what) = [i \in 1..(Len(log) + 1) |-> Append(Lines, what)[i]]
    BY <1>5
  <2> QED BY <2>1, <2>3, <2>4
<1> QED BY <1>2, <1>6 DEF Trail!Log, Lines

\* What is mined reports the next access of its source.
LEMMA MineReports ==
    ASSUME AuditInvariant, NEW tx \in mempool, mine(tx)
    PROVE  Trail!Report
<1> USE DEF AuditInvariant
<1>1. tx.entry \in DOMAIN log /\ log[tx.entry].kind = "access"
  BY SentEntry DEF SentAreAccesses, IsAccess, Sent
<1>2. log[tx.entry] \in Line BY <1>1 DEF WatcherTypes
<1>3. Lines[tx.entry] = log[tx.entry].source /\ Lines[tx.entry] \in Source
  BY <1>1, <1>2 DEF Lines, Line
<1>4. \A k \in DOMAIN events :
        Lines[events[k].entry] = Lines[tx.entry] => events[k].entry < tx.entry
  <2> TAKE k \in DOMAIN events
  <2>1. events[k].entry \in DOMAIN log /\ log[events[k].entry].kind = "access"
    BY SentEntry DEF SentAreAccesses, IsAccess, Sent
  <2>2. Lines[events[k].entry] = log[events[k].entry].source BY <2>1 DEF Lines
  <2> QED BY <1>3, <2>2 DEF PendingAreNext
<1>5. /\ events' = Append(events, [entry |-> tx.entry, reporter |-> Wallet])
      /\ UNCHANGED log
  BY DEF mine, logAccess, logVars
<1>6. tx.entry \in DOMAIN Lines BY <1>1 DEF Lines
<1> QED BY <1>3, <1>4, <1>5, <1>6 DEF Trail!Report, Lines

\* Every step is one of AuditTrail, or leaves log and chain alone.
LEMMA TrailStep ==
    AuditInvariant /\ [AuditNext]_auditVars => [Trail!TrailNext]_(Trail!trailVars)
<1> SUFFICES ASSUME AuditInvariant, [AuditNext]_auditVars
             PROVE  [Trail!TrailNext]_(Trail!trailVars)
  OBVIOUS
<1>0. ASSUME UNCHANGED <<log, events>> PROVE UNCHANGED Trail!trailVars
  BY <1>0 DEF Trail!trailVars
<1>1. CASE UNCHANGED auditVars BY <1>0, <1>1 DEF auditVars
<1>2. CASE \E s \in Source : \E kind \in Kind(s) : write_line(s, kind)
  BY <1>2, WriteLineLogs DEF Trail!TrailNext
<1>3. CASE \/ \E s \in Source : rotate(s)
           \/ crash \/ oserror \/ operator_start \/ run
  BY <1>0, <1>3 DEF rotate, crash, oserror, operator_start, run, Ends,
     logVars, chainVars
<1>4. CASE Loop
  BY <1>0, <1>4 DEF Loop, open_source, add_watch, read, overflowed, read_line,
     end_of_file, get_transaction_count, send_raw_transaction, forget, Ends,
     logVars, chainVars
<1>5. CASE \E i \in Entry : stranger_calls(i)
  BY <1>0, <1>5 DEF stranger_calls, logAccess, Wallet, logVars
<1>6. CASE \E tx \in mempool : mine(tx) \/ evict(tx)
  <2>1. CASE \E tx \in mempool : mine(tx)
    BY <2>1, MineReports DEF Trail!TrailNext
  <2>2. CASE \E tx \in mempool : evict(tx) BY <1>0, <2>2 DEF evict, logVars
  <2> QED BY <1>6, <2>1, <2>2
<1> QED BY <1>1, <1>2, <1>3, <1>4, <1>5, <1>6 DEF AuditNext

\* For any number of lines: what the chain shows are accesses that happened,
\* each at most once, in the order of their source, from the wallet.
THEOREM WatcherImplementsTrail == AuditSpec => ImplementsAuditTrail
BY TrailInitHolds, TrailStep, AuditInitHolds, AuditStepKeeps, PTL
   DEF AuditSpec, ImplementsAuditTrail, Trail!TrailSpec
=============================================================================
