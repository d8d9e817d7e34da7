----------------------------- MODULE AuditTrail -----------------------------
(***************************************************************************)
(* What the chain may show of accesses to secrets: accesses that did       *)
(* happen, none of them twice, those of one source in the order they       *)
(* happened in, and all of them reported by one wallet.  It says nothing   *)
(* of accesses that are missing.                                           *)
(*                                                                         *)
(* AuditWatcher implements this with log files, a tailing process, the     *)
(* pending transactions of a node and the contract of AuditLog.sol.        *)
(***************************************************************************)
EXTENDS Naturals, Sequences

CONSTANTS
    Source,  \* where accesses are logged
    Wallet   \* who reports them

VARIABLES
    lines,   \* the source of each access, and the rest, as they were logged
    chain    \* the reports: the number of an access and its reporter

trailVars == <<lines, chain>>

TrailInit == lines = <<>> /\ chain = <<>>

\* Something is logged; NotAccess stands for what is no access.
Log(NotAccess) ==
    /\ \E s \in Source \cup {NotAccess} : lines' = Append(lines, s)
    /\ UNCHANGED chain

Report ==
    /\ \E i \in DOMAIN lines :
        /\ lines[i] \in Source
        /\ \A k \in DOMAIN chain :
             lines[chain[k].entry] = lines[i] => chain[k].entry < i
        /\ chain' = Append(chain, [entry |-> i, reporter |-> Wallet])
    /\ UNCHANGED lines

TrailNext == Log("other") \/ Report

TrailSpec == TrailInit /\ [][TrailNext]_trailVars
=============================================================================
