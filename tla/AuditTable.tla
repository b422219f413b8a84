----------------------------- MODULE AuditTable -----------------------------
(***************************************************************************)
(* AuditLogger.emit: the hash chain of an organisation in the Postgres     *)
(* table audit_events.                                                     *)
(*                                                                         *)
(* A transaction takes one advisory lock for all organisations, reads the  *)
(* hash of the newest row of its organisation and inserts a row linked to  *)
(* it.  Newest means by created_at, and created_at is NOW(), the time the  *)
(* transaction began: before it waited for the lock.                       *)
(*                                                                         *)
(* Transactions begin at different times, isolation is READ COMMITTED, and *)
(* the lock goes with the transaction.  The hash of a row is its number;   *)
(* 0 is the hash an empty chain starts from.                               *)
(***************************************************************************)
EXTENDS Naturals

CONSTANTS
  Emitters,    \* calls of emit that may be under way, in any process
  Orgs,        \* organisations
  None,        \* the holder of a lock that is free
  MaxEmits,    \* bound: transactions begun
  Env          \* what may befall a query

ASSUME AuditTableAssumption ==
  /\ None \notin Emitters
  /\ MaxEmits \in Nat
  /\ Env \subseteq {"fail"}

VARIABLES
  rows,        \* the committed rows of audit_events
  lock,        \* the holder of the advisory lock
  tx,          \* the transactions under way
  clock,       \* transactions begun, the source of NOW()
  written,     \* rows numbered
  overlapped   \* history: have two emits been under way at once?

vars == <<rows, lock, tx, clock, written, overlapped>>

Row == [hash : Nat, prev : Nat, org : Orgs, at : Nat]
PC == {"idle", "begun", "locked", "read"}
Tx == [pc : PC, org : Orgs, at : Nat, prev : Nat]

RowsOf(org) == {r \in rows : r.org = org}

Init ==
  /\ rows = {}
  /\ lock = None
  /\ tx \in [Emitters -> {[pc |-> "idle", org |-> o, at |-> 0, prev |-> 0] : o \in Orgs}]
  /\ clock = 0
  /\ written = 0
  /\ overlapped = FALSE

(* BEGIN.                                                                  *)
Begin(e, org) ==
  /\ tx[e].pc = "idle"
  /\ clock < MaxEmits
  /\ clock' = clock + 1
  /\ tx' = [tx EXCEPT ![e] = [pc |-> "begun", org |-> org, at |-> clock + 1, prev |-> 0]]
  /\ overlapped' = (overlapped \/ \E f \in Emitters : tx[f].pc # "idle")
  /\ UNCHANGED <<rows, lock, written>>

(* Mutant: the lock is not waited for.                                     *)
LockAnyway(e) ==
  /\ tx[e].pc = "begun"
  /\ lock' = e
  /\ tx' = [tx EXCEPT ![e].pc = "locked"]
  /\ UNCHANGED <<rows, clock, written, overlapped>>

(* SELECT pg_advisory_xact_lock(1)                                         *)
Lock(e) ==
  /\ tx[e].pc = "begun"
  /\ lock = None
  /\ lock' = e
  /\ tx' = [tx EXCEPT ![e].pc = "locked"]
  /\ UNCHANGED <<rows, clock, written, overlapped>>

(* Mutant: any row of the organisation may be returned.                    *)
ReadAnyHash(e) ==
  /\ tx[e].pc = "locked"
  /\ \/ RowsOf(tx[e].org) = {} /\ tx' = [tx EXCEPT ![e].pc = "read"]
     \/ \E r \in RowsOf(tx[e].org) : tx' = [tx EXCEPT ![e].pc = "read", ![e].prev = r.hash]
  /\ UNCHANGED <<rows, lock, clock, written, overlapped>>

(* SELECT hash ... ORDER BY created_at DESC LIMIT 1                        *)
ReadLastHash(e) ==
  /\ tx[e].pc = "locked"
  /\ \/ /\ RowsOf(tx[e].org) = {}
        /\ tx' = [tx EXCEPT ![e].pc = "read"]
     \/ \E r \in RowsOf(tx[e].org) :
          /\ \A x \in RowsOf(tx[e].org) : x.at <= r.at
          /\ tx' = [tx EXCEPT ![e].pc = "read", ![e].prev = r.hash]
  /\ UNCHANGED <<rows, lock, clock, written, overlapped>>

(* INSERT and COMMIT, which frees the lock.                                *)
InsertAndCommit(e) ==
  /\ tx[e].pc = "read"
  /\ written' = written + 1
  /\ rows' = rows \cup {[hash |-> written + 1, prev |-> tx[e].prev,
                         org |-> tx[e].org, at |-> tx[e].at]}
  /\ lock' = None
  /\ tx' = [tx EXCEPT ![e].pc = "idle"]
  /\ UNCHANGED <<clock, overlapped>>

(* Mutant: the client is released with its transaction open.               *)
FailWithoutRollback(e) ==
  /\ "fail" \in Env
  /\ tx[e].pc # "idle"
  /\ tx' = [tx EXCEPT ![e].pc = "idle"]
  /\ UNCHANGED <<rows, lock, clock, written, overlapped>>

(* A query fails: ROLLBACK, and the caller gets the error.                 *)
Fail(e) ==
  /\ "fail" \in Env
  /\ tx[e].pc # "idle"
  /\ tx' = [tx EXCEPT ![e].pc = "idle"]
  /\ lock' = IF lock = e THEN None ELSE lock
  /\ UNCHANGED <<rows, clock, written, overlapped>>

Query(e) == Lock(e) \/ ReadLastHash(e) \/ InsertAndCommit(e)

Next ==
  \E e \in Emitters :
    \/ \E org \in Orgs : Begin(e, org)
    \/ Query(e)
    \/ Fail(e)

Spec == Init /\ [][Next]_vars

(* Postgres answers, and grants its lock in the order it was asked for.    *)
Fairness == \A e \in Emitters : WF_vars(Query(e)) /\ SF_vars(Lock(e))
FairSpec == Spec /\ Fairness

-----------------------------------------------------------------------------

TypeOK ==
  /\ rows \subseteq Row
  /\ lock \in Emitters \cup {None}
  /\ tx \in [Emitters -> Tx]
  /\ \A e \in Emitters : lock = e <=> tx[e].pc \in {"locked", "read"}
  /\ clock \in Nat
  /\ written \in Nat
  /\ overlapped \in BOOLEAN

(* A row is linked to an older row of its own organisation, or starts the  *)
(* chain: following the links from any row ends at the start.              *)
LinksToOwnChain ==
  \A r \in rows :
    r.prev = 0 \/ \E x \in rows : x.hash = r.prev /\ x.org = r.org /\ x.hash < r.hash

(* The chain of an organisation starts once, and forks only at a row that  *)
(* began after one of those linked to it, while that one waited for the    *)
(* lock: emits that do not overlap never fork it.                          *)
ForkNeedsOverlap ==
  \A a, b \in rows :
    (a # b /\ a.org = b.org /\ a.prev = b.prev) =>
      \E x \in rows : x.hash = a.prev /\ (a.at < x.at \/ b.at < x.at)

(* While emits never overlap, and whether or not they fail, each row of an *)
(* organisation, read in the order of created_at as getAuditTrail does, is *)
(* linked to the one before it.                                            *)
TrailIsChain ==
  ~ overlapped =>
    \A r \in rows :
      LET older == {x \in RowsOf(r.org) : x.at < r.at}
      IN  IF older = {} THEN r.prev = 0
          ELSE \E x \in older : x.hash = r.prev /\ \A y \in older : y.at <= x.at

(* Every emit returns, whatever other emits and their failures do.         *)
EmitReturns == \A e \in Emitters : tx[e].pc # "idle" ~> tx[e].pc = "idle"
=============================================================================
