------------------------- MODULE Persistence_proofs -------------------------
(***************************************************************************)
(* What is kept of a run: what the two writes of the run store preserve,   *)
(* for any number of updates, any order of their puts, and crashes         *)
(* anywhere; what the rows of the audit table keep among themselves; and   *)
(* what the learning files keep of what runs taught (Learning).            *)
(***************************************************************************)
EXTENDS StateMirror, AuditTable, Learning, FiniteSetTheorems, TLAPS

(* A put under way was under way at the last update, or is that of it.     *)
PutsAreRecent == InFlight \subseteq overlap \cup ({last} \ {0})

(* While nothing disturbs the put of the last update, the file holds that  *)
(* update until the put truncates it, and again once it has written.       *)
Undisturbed ==
  (overlap = {} /\ last > 0 /\ ~ torn) =>
    disk = IF puts[last] = "opened" THEN Empty ELSE Whole(last)

(* A put that may still write finds the file as it truncated it, unless    *)
(* another one was under way.                                              *)
MixtureNeedsOverlap ==
  overlap = {} => /\ disk # Mixed
                  /\ \A u \in Updates : puts[u] = "opened" => disk = Empty

MirrorInv ==
  /\ MirrorTypeOK
  /\ PutsAreRecent
  /\ FileIsRecent
  /\ Undisturbed
  /\ MixtureNeedsOverlap

LEMMA FileKinds ==
  /\ \A u : Whole(u).kind = "whole" /\ Whole(u).update = u
  /\ \A u : Whole(u) # Empty /\ Whole(u) # Mixed /\ Whole(u) # Absent
  /\ Empty # Mixed /\ Empty # Absent /\ Absent # Mixed
  /\ Empty.kind = "empty" /\ Mixed.kind = "mixed" /\ Absent.kind = "absent"
BY DEF Whole, Empty, Mixed, Absent

LEMMA MirrorInvInit == MirrorInit => MirrorInv
<1>. SUFFICES ASSUME MirrorInit PROVE MirrorInv
  OBVIOUS
<1>1. /\ disk = Absent /\ last = 0 /\ overlap = {} /\ torn = FALSE
      /\ \A u \in Updates : puts[u] = "none"
  BY DEF MirrorInit
<1>2. MirrorTypeOK
  <2>1. disk \in File /\ overlap \subseteq Updates /\ torn \in BOOLEAN
    BY <1>1 DEF File
  <2>2. puts \in [Updates -> Stage]
    BY DEF MirrorInit, Stage
  <2>3. last \in 0 .. MaxUpdates
    BY <1>1, StateMirrorAssumption
  <2>. QED  BY <2>1, <2>2, <2>3 DEF MirrorTypeOK
<1>3. PutsAreRecent /\ FileIsRecent /\ Undisturbed /\ MixtureNeedsOverlap
  BY <1>1, FileKinds
     DEF PutsAreRecent, FileIsRecent, Undisturbed, MixtureNeedsOverlap, InFlight
<1>. QED  BY <1>2, <1>3 DEF MirrorInv

LEMMA UpdateStep ==
  ASSUME MirrorInv, Update
  PROVE  MirrorInv'
<1>1. /\ last \in 0 .. MaxUpdates /\ last + 1 \in Updates /\ MaxUpdates \in Nat
      /\ puts \in [Updates -> Stage] /\ last < MaxUpdates
  BY StateMirrorAssumption DEF MirrorInv, MirrorTypeOK, Update, Updates
<1>2. /\ last' = last + 1 /\ disk' = Whole(last + 1) /\ overlap' = InFlight
      /\ puts' = [puts EXCEPT ![last + 1] = "mkdir"] /\ torn' = FALSE
  BY DEF Update
<1>3. MirrorTypeOK'
  <2>1. disk' \in File /\ torn' \in BOOLEAN
    BY <1>1, <1>2 DEF File
  <2>4. last' \in 0 .. MaxUpdates
    BY <1>1, <1>2
  <2>2. puts' \in [Updates -> Stage]
    BY <1>1, <1>2 DEF Stage
  <2>3. overlap' \subseteq Updates
    BY <1>2 DEF InFlight
  <2>. QED  BY <2>1, <2>2, <2>3, <2>4 DEF MirrorTypeOK
<1>4. PutsAreRecent'
  BY <1>1, <1>2 DEF PutsAreRecent, InFlight
<1>5. FileIsRecent'
  BY <1>2, FileKinds DEF FileIsRecent
<1>6. puts'[last'] = "mkdir"
  BY <1>1, <1>2
<1>7. Undisturbed'
  BY <1>2, <1>6 DEF Undisturbed
<1>8. MixtureNeedsOverlap'
  <2>1. ASSUME overlap' = {}, NEW u \in Updates
        PROVE  puts'[u] # "opened"
    BY <2>1, <1>1, <1>2 DEF InFlight
  <2>. QED  BY <2>1, <1>2, FileKinds DEF MixtureNeedsOverlap
<1>. QED  BY <1>3, <1>4, <1>5, <1>7, <1>8 DEF MirrorInv

(* What a step of one put leaves as it was.                                *)
LEMMA PutStep ==
  ASSUME MirrorInv, NEW u \in Updates, puts[u] # "none", NEW stage \in Stage,
         puts' = [puts EXCEPT ![u] = stage], UNCHANGED <<last, overlap, torn>>,
         disk' \in File
  PROVE  /\ MirrorTypeOK' /\ PutsAreRecent'
         /\ u \in overlap \cup {last} /\ u > 0
         /\ (overlap = {} => u = last /\ \A v \in Updates : v # u => puts[v] = "none")
         /\ puts'[u] = stage
         /\ \A v \in Updates : v # u => puts'[v] = puts[v]
         /\ Updates' = Updates
<1>1. puts \in [Updates -> Stage] /\ PutsAreRecent /\ u \in Nat /\ u > 0
  BY StateMirrorAssumption DEF MirrorInv, MirrorTypeOK, Updates
<1>2. MirrorTypeOK'
  BY <1>1 DEF MirrorInv, MirrorTypeOK
<1>3. /\ puts'[u] = stage
      /\ \A v \in Updates : v # u => puts'[v] = puts[v]
  BY <1>1
<1>4. InFlight' \subseteq InFlight
  BY <1>3 DEF InFlight
<1>5. PutsAreRecent'
  BY <1>1, <1>4 DEF PutsAreRecent
<1>6. u \in InFlight
  BY DEF InFlight
<1>7. overlap = {} => u = last /\ \A v \in Updates : v # u => puts[v] = "none"
  BY <1>1, <1>6 DEF PutsAreRecent, InFlight
<1>. QED  BY <1>1, <1>2, <1>3, <1>5, <1>6, <1>7 DEF PutsAreRecent

LEMMA PutOpensStep ==
  ASSUME MirrorInv, NEW u \in Updates, PutOpens(u)
  PROVE  MirrorInv'
<1>1. /\ puts[u] # "none" /\ puts' = [puts EXCEPT ![u] = "opened"] /\ disk' = Empty
      /\ UNCHANGED <<last, overlap, torn>> /\ "opened" \in Stage
  BY DEF PutOpens, Stage
<1>2. disk' \in File
  BY <1>1 DEF File
<1>3. FileIsRecent' /\ MixtureNeedsOverlap'
  BY <1>1, FileKinds DEF FileIsRecent, MixtureNeedsOverlap
<1>4. Undisturbed'
  BY <1>1, <1>2, PutStep DEF Undisturbed
<1>. QED  BY <1>1, <1>2, <1>3, <1>4, PutStep DEF MirrorInv

LEMMA PutWritesStep ==
  ASSUME MirrorInv, NEW u \in Updates, PutWrites(u)
  PROVE  MirrorInv'
<1>1. /\ puts[u] = "opened" /\ puts' = [puts EXCEPT ![u] = "written"]
      /\ UNCHANGED <<last, overlap, torn>> /\ "written" \in Stage
      /\ (disk' = Whole(u) \/ (disk # Empty /\ disk' = Mixed))
  BY DEF PutWrites, Stage
<1>2. disk' \in File
  BY <1>1 DEF File
<1>3. /\ MirrorTypeOK' /\ PutsAreRecent' /\ u \in overlap \cup {last}
      /\ (overlap = {} => u = last /\ \A v \in Updates : v # u => puts[v] = "none")
      /\ puts'[u] = "written"
      /\ \A v \in Updates : v # u => puts'[v] = puts[v]
  BY <1>1, <1>2, PutStep
<1>4. overlap = {} => disk' = Whole(last) /\ u = last
  BY <1>1, <1>3 DEF MirrorInv, MixtureNeedsOverlap
<1>5. FileIsRecent'
  BY <1>1, <1>3, FileKinds DEF FileIsRecent
<1>6. MixtureNeedsOverlap'
  BY <1>1, <1>3, <1>4, FileKinds DEF MixtureNeedsOverlap
<1>7. Undisturbed'
  BY <1>1, <1>3, <1>4 DEF Undisturbed
<1>. QED  BY <1>3, <1>5, <1>6, <1>7 DEF MirrorInv

LEMMA PutReturnsStep ==
  ASSUME MirrorInv, NEW u \in Updates, PutReturns(u)
  PROVE  MirrorInv'
<1>1. /\ puts[u] = "written" /\ puts' = [puts EXCEPT ![u] = "none"]
      /\ UNCHANGED <<disk, last, overlap, torn>> /\ "none" \in Stage
  BY DEF PutReturns, Stage
<1>2. disk' \in File
  BY <1>1 DEF MirrorInv, MirrorTypeOK
<1>3. /\ MirrorTypeOK' /\ PutsAreRecent'
      /\ (overlap = {} => u = last)
      /\ puts'[u] = "none"
      /\ \A v \in Updates : v # u => puts'[v] = puts[v]
  BY <1>1, <1>2, PutStep
<1>4. FileIsRecent'
  BY <1>1 DEF MirrorInv, FileIsRecent
<1>5. MixtureNeedsOverlap'
  BY <1>1, <1>3 DEF MirrorInv, MixtureNeedsOverlap
<1>6. Undisturbed'
  BY <1>1, <1>3 DEF MirrorInv, Undisturbed
<1>. QED  BY <1>3, <1>4, <1>5, <1>6 DEF MirrorInv

LEMMA DeathStep ==
  ASSUME MirrorInv, Crash \/ CutShort
  PROVE  MirrorInv'
<1>1. /\ puts' = [u \in Updates |-> "none"] /\ UNCHANGED <<last, overlap>>
      /\ disk' \in {disk, Empty}
      /\ torn' \in BOOLEAN
      /\ (~ torn' => disk' = disk /\ disk # Empty /\ ~ torn)
  BY DEF Crash, CutShort, MirrorInv, MirrorTypeOK
<1>2. MirrorTypeOK'
  BY <1>1 DEF MirrorInv, MirrorTypeOK, File, Stage
<1>3. PutsAreRecent'
  BY <1>1 DEF PutsAreRecent, InFlight
<1>4. FileIsRecent'
  BY <1>1, FileKinds DEF MirrorInv, FileIsRecent
<1>5. MixtureNeedsOverlap'
  BY <1>1, FileKinds DEF MirrorInv, MixtureNeedsOverlap
<1>6. Undisturbed'
  <2>1. last \in 0 .. MaxUpdates /\ (last > 0 => last \in Updates)
    BY StateMirrorAssumption DEF MirrorInv, MirrorTypeOK, Updates
  <2>. QED  BY <1>1, <2>1 DEF MirrorInv, Undisturbed
<1>. QED  BY <1>2, <1>3, <1>4, <1>5, <1>6 DEF MirrorInv

LEMMA MirrorInvNext == MirrorInv /\ [MirrorNext]_mirrorVars => MirrorInv'
<1>. SUFFICES ASSUME MirrorInv, [MirrorNext]_mirrorVars PROVE MirrorInv'
  OBVIOUS
<1>1. CASE UNCHANGED mirrorVars
  BY <1>1 DEF mirrorVars, MirrorInv, MirrorTypeOK, PutsAreRecent, FileIsRecent, Undisturbed,
              MixtureNeedsOverlap, InFlight
<1>2. CASE MirrorNext
  BY <1>2, UpdateStep, PutOpensStep, PutWritesStep, PutReturnsStep, DeathStep DEF MirrorNext
<1>. QED  BY <1>1, <1>2

LEMMA IInvAlways == MirrorSpec => []MirrorInv
BY MirrorInvInit, MirrorInvNext, PTL DEF MirrorSpec

(* MirrorTypeOK: texts in the file are those of updates that were made.    *)
THEOREM MirrorTypeCorrect == MirrorSpec => []MirrorTypeOK
<1>1. MirrorInv => MirrorTypeOK
  BY DEF MirrorInv
<1>. QED  BY <1>1, IInvAlways, PTL

(* FileIsRecent: whatever the order of the puts, no text older than those  *)
(* under way at the last update comes back.                                *)
THEOREM RecentFile == MirrorSpec => []FileIsRecent
<1>1. MirrorInv => FileIsRecent
  BY DEF MirrorInv
<1>. QED  BY <1>1, IInvAlways, PTL

(* LoneUpdateLands: an update made while no put is under way is what the   *)
(* file holds in the end.                                                  *)
THEOREM LoneUpdate == MirrorSpec => []LoneUpdateLands
<1>1. MirrorInv => LoneUpdateLands
  <2>. SUFFICES ASSUME MirrorInv, Quiet, overlap = {}, last > 0, ~ torn
                PROVE  disk = Whole(last)
    BY DEF LoneUpdateLands
  <2>1. last \in Updates
    BY StateMirrorAssumption DEF MirrorInv, MirrorTypeOK, Updates
  <2>2. puts[last] = "none"
    BY <2>1 DEF Quiet, InFlight
  <2>. QED  BY <2>2 DEF MirrorInv, Undisturbed
<1>. QED  BY <1>1, IInvAlways, PTL

-----------------------------------------------------------------------------
RowsNumbered ==
  /\ \A r \in rows : r.hash \in 1 .. written /\ r.prev < r.hash /\ r.at \in 1 .. clock
  /\ \A a, b \in rows : a # b => a.hash # b.hash /\ a.at # b.at

(* NOW() tells transactions apart, and those under way from the rows.      *)
TimesDiffer ==
  /\ \A e \in Emitters : tx[e].pc # "idle" =>
       tx[e].at \in 1 .. clock /\ \A r \in rows : r.at # tx[e].at
  /\ \A e, f \in Emitters :
       (e # f /\ tx[e].pc # "idle" /\ tx[f].pc # "idle") => tx[e].at # tx[f].at

(* What a transaction has read is still true when it inserts.              *)
Newest(org, prev) ==
  \/ RowsOf(org) = {} /\ prev = 0
  \/ \E r \in RowsOf(org) : r.hash = prev /\ \A x \in RowsOf(org) : x.at <= r.at

ReadIsCurrent ==
  \A e \in Emitters : /\ tx[e].pc = "read" => Newest(tx[e].org, tx[e].prev)
                      /\ tx[e].pc \in {"begun", "locked"} => tx[e].prev = 0

IInv ==
  /\ TypeOK
  /\ RowsNumbered
  /\ TimesDiffer
  /\ ReadIsCurrent
  /\ LinksToOwnChain
  /\ ForkNeedsOverlap

LEMMA InitIInv == Init => IInv
<1>. SUFFICES ASSUME Init PROVE IInv
  OBVIOUS
<1>1. /\ rows = {} /\ lock = None /\ clock = 0 /\ written = 0 /\ overlapped = FALSE
      /\ tx \in [Emitters -> Tx] /\ \A e \in Emitters : tx[e].pc = "idle"
  BY DEF Init, Tx, PC
<1>2. TypeOK
  BY <1>1, AuditTableAssumption DEF TypeOK, Row
<1>. QED  BY <1>1, <1>2 DEF IInv, RowsNumbered, TimesDiffer, ReadIsCurrent,
            LinksToOwnChain, ForkNeedsOverlap

LEMMA Facts ==
  ASSUME IInv, NEW e \in Emitters
  PROVE  /\ tx \in [Emitters -> Tx] /\ tx[e] \in Tx /\ tx[e].pc \in PC
         /\ tx[e].org \in Orgs /\ tx[e].at \in Nat /\ tx[e].prev \in Nat
         /\ rows \subseteq Row /\ clock \in Nat /\ written \in Nat
         /\ (lock = e <=> tx[e].pc \in {"locked", "read"})
         /\ (lock = e => \A f \in Emitters : f # e => tx[f].pc \notin {"locked", "read"})
         /\ e # None /\ overlapped \in BOOLEAN
BY AuditTableAssumption DEF IInv, TypeOK, Tx

(* A step of one transaction that commits nothing.                         *)
LEMMA TxStep ==
  ASSUME IInv, NEW e \in Emitters, NEW t \in Tx, tx' = [tx EXCEPT ![e] = t],
         rows' = rows, written' = written, clock' \in Nat, clock <= clock',
         lock' \in Emitters \cup {None}, overlapped' \in BOOLEAN,
         \A f \in Emitters : lock' = f <=> tx'[f].pc \in {"locked", "read"},
         t.pc # "idle" => /\ t.at \in 1 .. clock' /\ \A r \in rows : r.at # t.at
                          /\ \A f \in Emitters : f # e /\ tx[f].pc # "idle" => tx[f].at # t.at,
         t.pc = "read" => Newest(t.org, t.prev),
         t.pc \in {"begun", "locked"} => t.prev = 0
  PROVE  IInv'
<1>1. /\ tx' \in [Emitters -> Tx] /\ tx'[e] = t
      /\ \A f \in Emitters : f # e => tx'[f] = tx[f]
      /\ clock \in Nat
  BY Facts
<1>2. TypeOK'
  BY <1>1 DEF IInv, TypeOK
<1>3. RowsNumbered'
  BY <1>1 DEF IInv, RowsNumbered, TypeOK, Row
<1>4. TimesDiffer'
  BY <1>1 DEF IInv, TimesDiffer
<1>5. ReadIsCurrent'
  BY <1>1 DEF IInv, ReadIsCurrent, Newest, RowsOf
<1>6. LinksToOwnChain' /\ ForkNeedsOverlap'
  BY DEF IInv, LinksToOwnChain, ForkNeedsOverlap
<1>. QED  BY <1>2, <1>3, <1>4, <1>5, <1>6 DEF IInv

LEMMA BeginStep ==
  ASSUME IInv, NEW e \in Emitters, NEW org \in Orgs, Begin(e, org)
  PROVE  IInv'
<1>. DEFINE t == [pc |-> "begun", org |-> org, at |-> clock + 1, prev |-> 0]
<1>1. /\ tx' = [tx EXCEPT ![e] = t] /\ clock' = clock + 1 /\ tx[e].pc = "idle"
      /\ overlapped' \in BOOLEAN
      /\ rows' = rows /\ lock' = lock /\ written' = written
  BY DEF Begin
<1>2. t \in Tx /\ t.pc = "begun" /\ t.at = clock + 1 /\ t.prev = 0
  BY Facts DEF Tx, PC
<1>. HIDE DEF t
<1>3. \A f \in Emitters : lock' = f <=> tx'[f].pc \in {"locked", "read"}
  BY <1>1, <1>2, Facts
<1>4. /\ t.at \in 1 .. clock' /\ \A r \in rows : r.at # t.at
      /\ \A f \in Emitters : f # e /\ tx[f].pc # "idle" => tx[f].at # t.at
  BY <1>1, <1>2, Facts DEF IInv, RowsNumbered, TimesDiffer
<1>5. lock' \in Emitters \cup {None} /\ clock' \in Nat /\ clock <= clock'
  BY <1>1, Facts DEF IInv, TypeOK
<1>. QED  BY <1>1, <1>2, <1>3, <1>4, <1>5, TxStep

LEMMA LockStep ==
  ASSUME IInv, NEW e \in Emitters, Lock(e)
  PROVE  IInv'
<1>. DEFINE t == [tx[e] EXCEPT !.pc = "locked"]
<1>1. /\ tx' = [tx EXCEPT ![e] = t] /\ clock' = clock /\ tx[e].pc = "begun"
      /\ rows' = rows /\ lock = None /\ lock' = e /\ written' = written
      /\ overlapped' \in BOOLEAN
  BY Facts DEF Lock
<1>2. t \in Tx /\ t.pc = "locked" /\ t.at = tx[e].at /\ t.prev = tx[e].prev
  BY Facts DEF Tx, PC
<1>. HIDE DEF t
<1>3. \A f \in Emitters : lock' = f <=> tx'[f].pc \in {"locked", "read"}
  BY <1>1, <1>2, Facts
<1>4. /\ t.at \in 1 .. clock' /\ \A r \in rows : r.at # t.at
      /\ \A f \in Emitters : f # e /\ tx[f].pc # "idle" => tx[f].at # t.at
      /\ t.prev = 0
  BY <1>1, <1>2 DEF IInv, TimesDiffer, ReadIsCurrent
<1>5. clock' \in Nat /\ clock <= clock'
  BY <1>1, Facts
<1>. QED  BY <1>1, <1>2, <1>3, <1>4, <1>5, TxStep

LEMMA ReadLastHashStep ==
  ASSUME IInv, NEW e \in Emitters, ReadLastHash(e)
  PROVE  IInv'
<1>1. /\ tx[e].pc = "locked" /\ rows' = rows /\ lock' = lock /\ clock' = clock
      /\ written' = written /\ lock = e /\ overlapped' \in BOOLEAN
  BY Facts DEF ReadLastHash
<1>2. PICK h \in Nat : /\ tx' = [tx EXCEPT ![e].pc = "read", ![e].prev = h]
                       /\ Newest(tx[e].org, h)
  <2>1. CASE RowsOf(tx[e].org) = {} /\ tx' = [tx EXCEPT ![e].pc = "read"]
    <3>1. tx[e].prev = 0
      BY <1>1 DEF IInv, ReadIsCurrent
    <3>2. [tx[e] EXCEPT !.pc = "read", !.prev = 0] = [tx[e] EXCEPT !.pc = "read"]
      BY <3>1, Facts DEF Tx
    <3>3. tx' = [tx EXCEPT ![e].pc = "read", ![e].prev = 0]
      BY <2>1, <3>2, Facts
    <3>. QED  BY <2>1, <3>3 DEF Newest
  <2>2. ASSUME NEW r \in RowsOf(tx[e].org), \A x \in RowsOf(tx[e].org) : x.at <= r.at,
               tx' = [tx EXCEPT ![e].pc = "read", ![e].prev = r.hash]
        PROVE  r.hash \in Nat /\ Newest(tx[e].org, r.hash)
    BY <2>2, Facts DEF Newest, RowsOf, Row
  <2>. QED  BY <2>1, <2>2 DEF ReadLastHash
<1>. DEFINE t == [tx[e] EXCEPT !.pc = "read", !.prev = h]
<1>3. tx' = [tx EXCEPT ![e] = t]
  BY <1>2, Facts
<1>4. t \in Tx /\ t.pc = "read" /\ t.at = tx[e].at /\ t.prev = h /\ t.org = tx[e].org
  BY Facts DEF Tx, PC
<1>. HIDE DEF t
<1>5. \A f \in Emitters : lock' = f <=> tx'[f].pc \in {"locked", "read"}
  BY <1>1, <1>3, <1>4, Facts
<1>6. /\ t.at \in 1 .. clock' /\ \A r \in rows : r.at # t.at
      /\ \A f \in Emitters : f # e /\ tx[f].pc # "idle" => tx[f].at # t.at
  BY <1>1, <1>4 DEF IInv, TimesDiffer
<1>7. lock' \in Emitters \cup {None} /\ clock' \in Nat /\ clock <= clock'
  BY <1>1, Facts
<1>8. Newest(t.org, t.prev)
  BY <1>2, <1>4
<1>. QED  BY <1>1, <1>3, <1>4, <1>5, <1>6, <1>7, <1>8, TxStep

LEMMA FailStep ==
  ASSUME IInv, NEW e \in Emitters, Fail(e)
  PROVE  IInv'
<1>. DEFINE t == [tx[e] EXCEPT !.pc = "idle"]
<1>1. /\ tx' = [tx EXCEPT ![e] = t] /\ clock' = clock /\ rows' = rows /\ written' = written
      /\ lock' = IF lock = e THEN None ELSE lock
      /\ overlapped' \in BOOLEAN
  BY Facts DEF Fail
<1>2. t \in Tx /\ t.pc = "idle"
  BY Facts DEF Tx, PC
<1>. HIDE DEF t
<1>3. \A f \in Emitters : lock' = f <=> tx'[f].pc \in {"locked", "read"}
  BY <1>1, <1>2, Facts
<1>4. lock' \in Emitters \cup {None} /\ clock' \in Nat /\ clock <= clock'
  BY <1>1, Facts DEF IInv, TypeOK
<1>. QED  BY <1>1, <1>2, <1>3, <1>4, TxStep

(* The new row is linked to the newest one: a row that is linked to the    *)
(* same one began before that one did.                                     *)
LEMMA InsertAndCommitStep ==
  ASSUME IInv, NEW e \in Emitters, InsertAndCommit(e)
  PROVE  IInv'
<1>. DEFINE n == [hash |-> written + 1, prev |-> tx[e].prev, org |-> tx[e].org, at |-> tx[e].at]
            t == [tx[e] EXCEPT !.pc = "idle"]
<1>1. /\ rows' = rows \cup {n} /\ written' = written + 1 /\ tx[e].pc = "read"
      /\ tx' = [tx EXCEPT ![e] = t] /\ lock' = None /\ clock' = clock /\ lock = e
      /\ overlapped' \in BOOLEAN
  BY Facts DEF InsertAndCommit
<1>2. n \in Row /\ n.hash = written + 1 /\ n.prev = tx[e].prev /\ n.org = tx[e].org
      /\ n.at = tx[e].at
  BY Facts DEF Row
<1>3. t \in Tx /\ t.pc = "idle"
  BY Facts DEF Tx, PC
<1>. HIDE DEF n, t
<1>4. /\ tx' \in [Emitters -> Tx] /\ tx'[e].pc = "idle"
      /\ \A f \in Emitters : f # e => tx'[f] = tx[f] /\ tx[f].pc \notin {"locked", "read"}
      /\ \A f \in Emitters : f # None
  BY <1>1, <1>3, Facts
<1>5. Newest(n.org, n.prev)
  BY <1>1, <1>2 DEF IInv, ReadIsCurrent
<1>6. /\ \A r \in rows : r \in Row /\ r.hash \in 1 .. written /\ r.prev < r.hash
                         /\ r.at \in 1 .. clock /\ r.at # n.at
      /\ n.at \in 1 .. clock /\ written \in Nat /\ clock \in Nat
  BY <1>1, <1>2, Facts DEF IInv, RowsNumbered, TimesDiffer
<1>7. n.prev < n.hash
  BY <1>2, <1>5, <1>6 DEF Newest, RowsOf, Row
<1>8. TypeOK'
  BY <1>1, <1>2, <1>4, Facts DEF IInv, TypeOK
<1>9. RowsNumbered'
  <2>1. \A r \in rows' : r.hash \in 1 .. written' /\ r.prev < r.hash /\ r.at \in 1 .. clock'
    BY <1>1, <1>2, <1>6, <1>7
  <2>2. \A a, b \in rows' : a # b => a.hash # b.hash /\ a.at # b.at
    BY <1>1, <1>2, <1>6 DEF IInv, RowsNumbered
  <2>. QED  BY <2>1, <2>2 DEF RowsNumbered
<1>10. TimesDiffer'
  BY <1>1, <1>2, <1>4, Facts DEF IInv, TimesDiffer
<1>11. ReadIsCurrent'
  BY <1>4 DEF IInv, ReadIsCurrent
<1>12. LinksToOwnChain'
  <2>1. n.prev = 0 \/ \E x \in rows : x.hash = n.prev /\ x.org = n.org /\ x.hash < n.hash
    BY <1>2, <1>5, <1>6 DEF Newest, RowsOf
  <2>2. \A r \in rows : r.prev = 0 \/ \E x \in rows' : x.hash = r.prev /\ x.org = r.org /\ x.hash < r.hash
    BY <1>1 DEF IInv, LinksToOwnChain
  <2>. QED  BY <1>1, <2>1, <2>2 DEF LinksToOwnChain
<1>13. ASSUME NEW a \in rows, a.org = n.org, a.prev = n.prev
       PROVE  \E x \in rows : x.hash = a.prev /\ a.at < x.at
  <2>1. a \in RowsOf(n.org)
    BY <1>13 DEF RowsOf
  <2>2. PICK x \in RowsOf(n.org) : x.hash = n.prev /\ \A y \in RowsOf(n.org) : y.at <= x.at
    BY <1>5, <2>1 DEF Newest
  <2>3. x \in rows /\ a # x
    BY <1>6, <1>13, <2>2 DEF RowsOf
  <2>4. a.at # x.at /\ a.at <= x.at
    BY <2>1, <2>2, <2>3 DEF IInv, RowsNumbered
  <2>5. a.at \in Nat /\ x.at \in Nat
    BY <1>6, <2>3 DEF Row
  <2>. QED  BY <1>13, <2>2, <2>3, <2>4, <2>5
<1>14. ForkNeedsOverlap'
  <2>. SUFFICES ASSUME NEW a \in rows', NEW b \in rows', a # b, a.org = b.org, a.prev = b.prev
                PROVE  \E x \in rows' : x.hash = a.prev /\ (a.at < x.at \/ b.at < x.at)
    BY DEF ForkNeedsOverlap
  <2>1. CASE a \in rows /\ b \in rows
    BY <1>1, <2>1 DEF IInv, ForkNeedsOverlap
  <2>2. CASE a \in rows /\ b = n
    BY <1>1, <1>13, <2>2
  <2>3. CASE a = n /\ b \in rows
    BY <1>1, <1>13, <2>3
  <2>. QED  BY <1>1, <2>1, <2>2, <2>3
<1>. QED  BY <1>8, <1>9, <1>10, <1>11, <1>12, <1>14 DEF IInv

LEMMA NextIInv == IInv /\ [Next]_vars => IInv'
<1>. SUFFICES ASSUME IInv, [Next]_vars PROVE IInv'
  OBVIOUS
<1>1. CASE UNCHANGED vars
  BY <1>1 DEF vars, IInv, TypeOK, RowsNumbered, TimesDiffer, ReadIsCurrent, Newest, RowsOf,
              LinksToOwnChain, ForkNeedsOverlap
<1>2. CASE Next
  BY <1>2, BeginStep, LockStep, ReadLastHashStep, InsertAndCommitStep, FailStep DEF Next, Query
<1>. QED  BY <1>1, <1>2

(* LinksToOwnChain: following the links from any row of audit_events ends  *)
(* at the start of the chain of its organisation.                          *)
THEOREM LinksLeadHome == Spec => []LinksToOwnChain
<1>1. IInv => LinksToOwnChain
  BY DEF IInv
<1>. QED  BY <1>1, InitIInv, NextIInv, PTL DEF Spec

(* ForkNeedsOverlap: two rows share a predecessor only if one of them      *)
(* began before it; the chain of an organisation starts once.              *)
THEOREM ForksOverlap == Spec => []ForkNeedsOverlap
<1>1. IInv => ForkNeedsOverlap
  BY DEF IInv
<1>. QED  BY <1>1, InitIInv, NextIInv, PTL DEF Spec

-----------------------------------------------------------------------------

(* While emits do not overlap there is at most one of them, and it began   *)
(* after every row: rows are then committed in the order of created_at.    *)
Alone ==
  ~ overlapped =>
    \A e \in Emitters : tx[e].pc # "idle" =>
      /\ \A f \in Emitters : tx[f].pc # "idle" => f = e
      /\ \A r \in rows : r.at < tx[e].at

TrailInv == Alone /\ TrailIsChain

LEMMA InitTrail == Init => TrailInv
<1>. SUFFICES ASSUME Init PROVE TrailInv
  OBVIOUS
<1>1. rows = {} /\ \A e \in Emitters : tx[e].pc = "idle"
  BY DEF Init
<1>. QED  BY <1>1 DEF TrailInv, Alone, TrailIsChain

LEMMA BeginTrail ==
  ASSUME IInv, TrailInv, NEW e \in Emitters, NEW org \in Orgs, Begin(e, org)
  PROVE  TrailInv'
<1>1. /\ tx'[e].at = clock + 1 /\ \A f \in Emitters : f # e => tx'[f] = tx[f]
      /\ rows' = rows
      /\ overlapped' = (overlapped \/ \E f \in Emitters : tx[f].pc # "idle")
  BY Facts DEF Begin
<1>2. TrailIsChain'
  BY <1>1, Facts DEF TrailInv, TrailIsChain, RowsOf
<1>3. \A r \in rows : r.at < clock + 1
  BY Facts DEF IInv, RowsNumbered
<1>4. Alone'
  BY <1>1, <1>3, Facts DEF Alone
<1>. QED  BY <1>2, <1>4 DEF TrailInv

(* A step of a transaction that is under way and commits nothing.          *)
LEMMA QuietTrail ==
  ASSUME TrailInv, NEW e \in Emitters, tx[e].pc # "idle", tx'[e].at = tx[e].at,
         \A f \in Emitters : f # e => tx'[f] = tx[f],
         rows' = rows, overlapped' = overlapped
  PROVE  TrailInv'
<1>1. TrailIsChain'
  BY DEF TrailInv, TrailIsChain, RowsOf
<1>2. Alone'
  BY DEF TrailInv, Alone
<1>. QED  BY <1>1, <1>2 DEF TrailInv

(* What is read is the newest row, and the row inserted is newer: the rows *)
(* older than it are all there are, and it is older than none of them.     *)
LEMMA InsertTrail ==
  ASSUME IInv, TrailInv, NEW e \in Emitters, InsertAndCommit(e)
  PROVE  TrailInv'
<1>. DEFINE n == [hash |-> written + 1, prev |-> tx[e].prev, org |-> tx[e].org, at |-> tx[e].at]
<1>1. /\ rows' = rows \cup {n} /\ tx[e].pc = "read" /\ tx'[e].pc = "idle"
      /\ \A f \in Emitters : f # e => tx'[f] = tx[f]
      /\ overlapped' = overlapped
  BY Facts DEF InsertAndCommit
<1>2. n.prev = tx[e].prev /\ n.org = tx[e].org /\ n.at = tx[e].at /\ n.at \in Nat
  BY Facts
<1>. HIDE DEF n
<1>. SUFFICES ASSUME ~ overlapped PROVE TrailInv'
  BY <1>1 DEF TrailInv, Alone, TrailIsChain
<1>3. /\ \A r \in rows : r.at < n.at
      /\ \A f \in Emitters : tx'[f].pc = "idle"
  BY <1>1, <1>2 DEF TrailInv, Alone
<1>4. \A r \in rows : r.at \in Nat
  BY Facts DEF Row
<1>5. Newest(n.org, n.prev)
  BY <1>1, <1>2 DEF IInv, ReadIsCurrent
<1>6. {x \in rows' : x.org = n.org /\ x.at < n.at} = RowsOf(n.org)
  BY <1>1, <1>2, <1>3 DEF RowsOf
<1>7. \A r \in rows : {x \in rows' : x.org = r.org /\ x.at < r.at} = {x \in RowsOf(r.org) : x.at < r.at}
  BY <1>1, <1>2, <1>3, <1>4 DEF RowsOf
<1>8. TrailIsChain'
  <2>. SUFFICES ASSUME NEW r \in rows'
                PROVE  LET older == {x \in rows' : x.org = r.org /\ x.at < r.at}
                       IN  IF older = {} THEN r.prev = 0
                           ELSE \E x \in older : x.hash = r.prev /\ \A y \in older : y.at <= x.at
    <3>1. \A r \in rows' : {x \in {y \in rows' : y.org = r.org} : x.at < r.at}
                           = {x \in rows' : x.org = r.org /\ x.at < r.at}
      OBVIOUS
    <3>. QED  BY <3>1 DEF TrailIsChain, RowsOf
  <2>1. CASE r \in rows
    BY <1>7, <2>1 DEF TrailInv, TrailIsChain
  <2>2. CASE r = n
    <3>1. CASE RowsOf(n.org) = {} /\ n.prev = 0
      BY <1>6, <2>2, <3>1
    <3>2. CASE \E x \in RowsOf(n.org) : x.hash = n.prev /\ \A y \in RowsOf(n.org) : y.at <= x.at
      BY <1>6, <2>2, <3>2
    <3>. QED  BY <1>5, <3>1, <3>2 DEF Newest
  <2>. QED  BY <1>1, <2>1, <2>2
<1>9. Alone'
  BY <1>3 DEF Alone
<1>. QED  BY <1>8, <1>9 DEF TrailInv

LEMMA NextTrail == IInv /\ TrailInv /\ [Next]_vars => TrailInv'
<1>. SUFFICES ASSUME IInv, TrailInv, [Next]_vars PROVE TrailInv'
  OBVIOUS
<1>1. CASE UNCHANGED vars
  BY <1>1 DEF vars, TrailInv, Alone, TrailIsChain, RowsOf
<1>2. ASSUME NEW e \in Emitters, NEW org \in Orgs, Begin(e, org)
      PROVE  TrailInv'
  BY <1>2, BeginTrail
<1>3. ASSUME NEW e \in Emitters, Lock(e)
      PROVE  TrailInv'
  <2>1. /\ tx'[e].at = tx[e].at /\ \A f \in Emitters : f # e => tx'[f] = tx[f]
        /\ tx[e].pc # "idle" /\ rows' = rows /\ overlapped' = overlapped
    BY <1>3, Facts DEF Lock, Tx
  <2>. QED  BY <2>1, QuietTrail
<1>4. ASSUME NEW e \in Emitters, ReadLastHash(e)
      PROVE  TrailInv'
  <2>1. /\ tx'[e].at = tx[e].at /\ \A f \in Emitters : f # e => tx'[f] = tx[f]
    BY <1>4, Facts DEF ReadLastHash, Tx
  <2>2. tx[e].pc # "idle" /\ rows' = rows /\ overlapped' = overlapped
    BY <1>4 DEF ReadLastHash
  <2>. QED  BY <2>1, <2>2, QuietTrail
<1>5. ASSUME NEW e \in Emitters, Fail(e)
      PROVE  TrailInv'
  <2>1. /\ tx'[e].at = tx[e].at /\ \A f \in Emitters : f # e => tx'[f] = tx[f]
        /\ tx[e].pc # "idle" /\ rows' = rows /\ overlapped' = overlapped
    BY <1>5, Facts DEF Fail, Tx
  <2>. QED  BY <2>1, QuietTrail
<1>6. CASE Next
  BY <1>6, <1>2, <1>3, <1>4, <1>5, InsertTrail DEF Next, Query
<1>. QED  BY <1>1, <1>6

(* TrailIsChain: while emits never overlap, whether or not they fail, the  *)
(* trail of an organisation, read in the order of created_at, is a chain.  *)
THEOREM TrailIsAChain == Spec => []TrailIsChain
<1>1. TrailInv => TrailIsChain
  BY DEF TrailInv
<1>. QED  BY <1>1, InitIInv, NextIInv, InitTrail, NextTrail, PTL DEF Spec

----------------------------------------------------------------------------
(* The learning store.  What a store owes every run it tells of: the       *)
(* failures of an adapter are among its patterns as often as they occurred,*)
(* and the adapter has an overlay, which a repeated failure makes careful. *)
Times(s, a, f) == Cardinality(Failed(s.outcomes, a, f))

Repeated(patterns, a) == \E id \in DOMAIN patterns : id[1] = a /\ patterns[id] >= 3

StoreSound(s) ==
  /\ s.outcomes \in Seq(Outcomes)
  /\ \A id \in DOMAIN s.patterns : s.patterns[id] \in Nat
  /\ \A a \in Adapters, f \in FailureTypes :
        Failed(s.outcomes, a, f) # {} =>
            <<a, f>> \in DOMAIN s.patterns /\ s.patterns[<<a, f>>] >= Times(s, a, f)
  /\ \A i \in DOMAIN s.outcomes : \A a \in ToSet(s.outcomes[i].adapters) :
        Repeated(s.patterns, a) => s.overlays[a].requireApproval

Policy == [DOMAIN DefaultThresholdPolicy -> Int]

(* A threshold policy that may be on file: the one for high risk is capped. *)
PolicySound(t) == t \in Policy /\ t["high"] <= 9000

(* The files a cycle has yet to write: all that it says of the thresholds  *)
(* is one sound policy.                                                    *)
WriteSound(w) ==
  /\ w.file \in {"agent", "thresholds", "skills"}
  /\ w.file = "thresholds" => PolicySound(w.value)

Left(left) ==
  /\ left # << >>
  /\ \E S : left \in Seq(S) /\ \A w \in S : WriteSound(w)
  /\ \A i, j \in DOMAIN left :
        left[i].file = "thresholds" /\ left[j].file = "thresholds" => left[i].value = left[j].value

LearnerSound(m) ==
  /\ "pc" \in DOMAIN m /\ m.pc \in {"idle", "store", "cycle"}
  /\ m.pc = "store" => StoreSound(m.value)
  /\ m.pc = "cycle" => "left" \in DOMAIN m /\ Left(m.left)

(* What a learner that is alone writes is no less careful than what is on  *)
(* file.                                                                   *)
Careful(m, s, t) ==
  /\ m.pc = "store" /\ s # Broken => Offenders(s) \subseteq Offenders(m.value)
  /\ m.pc = "cycle" /\ t # Broken =>
        \A i \in DOMAIN m.left :
          m.left[i].file = "thresholds" => m.left[i].value["high"] >= t["high"]

LoneLearner ==
  overlaps = 0 =>
    \A p \in Learners : learner[p].pc # "idle" =>
      /\ \A q \in Learners \ {p} : learner[q].pc = "idle"
      /\ Careful(learner[p], store, thresholds)

LearnInv ==
  /\ store # Broken => StoreSound(store)
  /\ thresholds # Broken => PolicySound(thresholds)
  /\ overlaps \in Nat
  /\ DOMAIN learner = Learners
  /\ \A p \in Learners : LearnerSound(learner[p])
  /\ LoneLearner

(* ----------------------------------------------------------------------- *)
LEMMA LearnStarts == LearnInit => LearnInv
<1> SUFFICES ASSUME LearnInit PROVE LearnInv
  OBVIOUS
<1>1. StoreSound(store)
  <2>1. store.outcomes = << >> /\ DOMAIN store.patterns = {}
    BY DEF LearnInit
  <2>2. \A a, f : Failed(store.outcomes, a, f) = {}
    BY <2>1 DEF Failed
  <2>3. store.outcomes \in Seq(Outcomes) /\ DOMAIN store.outcomes = {}
    BY <2>1
  <2> QED
    BY <2>1, <2>2, <2>3 DEF StoreSound
<1>2. PolicySound(thresholds)
  BY DEF LearnInit, PolicySound, Policy, DefaultThresholdPolicy
<1>3. \A p \in Learners : LearnerSound(learner[p]) /\ learner[p].pc = "idle"
  BY DEF LearnInit, LearnerSound, Resting
<1> QED
  BY <1>1, <1>2, <1>3 DEF LearnInit, LearnInv, LoneLearner

LEMMA FailedIsFinite ==
  ASSUME NEW s \in Seq(Outcomes), NEW a, NEW f
  PROVE  IsFiniteSet(Failed(s, a, f)) /\ Cardinality(Failed(s, a, f)) \in Nat
<1>1. DOMAIN s = 1..Len(s) /\ Len(s) \in Nat
  OBVIOUS
<1>2. Failed(s, a, f) \in SUBSET (1..Len(s))
  BY <1>1 DEF Failed
<1>3. IsFiniteSet(1..Len(s))
  BY <1>1, FS_Interval
<1>4. IsFiniteSet(Failed(s, a, f))
  BY <1>2, <1>3, FS_Subset
<1> QED
  BY <1>4, FS_CardinalityType

(* One more outcome: failures are counted as they were, or one more.       *)
LEMMA FailedGrows ==
  ASSUME NEW s \in Seq(Outcomes), NEW o \in Outcomes, NEW a, NEW f
  PROVE  LET t  == Append(s, o)
             is == ~ o.success /\ o.failure = f /\ o.adapters # << >> /\ Head(o.adapters) = a
         IN  /\ Failed(t, a, f) = Failed(s, a, f) \cup (IF is THEN {Len(s) + 1} ELSE {})
             /\ IsFiniteSet(Failed(s, a, f))
             /\ Cardinality(Failed(t, a, f)) =
                  Cardinality(Failed(s, a, f)) + (IF is THEN 1 ELSE 0)
             /\ Cardinality(Failed(s, a, f)) \in Nat
<1> DEFINE t == Append(s, o)
           is == ~ o.success /\ o.failure = f /\ o.adapters # << >> /\ Head(o.adapters) = a
           was == Failed(s, a, f)
<1>1. /\ Len(s) \in Nat /\ DOMAIN s = 1..Len(s) /\ DOMAIN t = 1..(Len(s) + 1)
      /\ t[Len(s) + 1] = o /\ \A i \in 1..Len(s) : t[i] = s[i]
  OBVIOUS
<1> HIDE DEF t
<1>2. Failed(t, a, f) = was \cup (IF is THEN {Len(s) + 1} ELSE {})
  BY <1>1 DEF Failed
<1>3. was \subseteq 1..Len(s) /\ Len(s) + 1 \notin was
  BY <1>1 DEF Failed
<1>4. IsFiniteSet(was) /\ Cardinality(was) \in Nat
  BY FailedIsFinite
<1> HIDE DEF is, was
<1>5. Cardinality(was \cup {Len(s) + 1}) = Cardinality(was) + 1
  BY <1>3, <1>4, FS_AddElement
<1>6. Cardinality(Failed(t, a, f)) = Cardinality(was) + (IF is THEN 1 ELSE 0)
  <2>1. CASE is
    BY <1>2, <1>5, <2>1
  <2>2. CASE ~ is
    <3>1. Failed(t, a, f) = was
      BY <1>2, <2>2
    <3> QED
      BY <1>4, <2>2, <3>1
  <2> QED
    BY <2>1, <2>2
<1> QED
  BY <1>2, <1>4, <1>6 DEF is, was, t

(* Patterns only grow, and the one of a failure by one.                    *)
LEMMA PatternsGrow ==
  ASSUME NEW patterns, NEW o \in Outcomes, \A id \in DOMAIN patterns : patterns[id] \in Nat
  PROVE  LET next == UpdatePatterns(patterns, o)
         IN  /\ DOMAIN patterns \subseteq DOMAIN next
             /\ \A id \in DOMAIN next : next[id] \in Nat
             /\ \A id \in DOMAIN patterns : next[id] >= patterns[id]
             /\ \A a, f : ~ o.success /\ o.failure = f /\ f # NoFailure
                            /\ o.adapters # << >> /\ Head(o.adapters) = a =>
                  /\ <<a, f>> \in DOMAIN next
                  /\ next[<<a, f>>] =
                       (IF <<a, f>> \in DOMAIN patterns THEN patterns[<<a, f>>] ELSE 0) + 1
<1> DEFINE next == UpdatePatterns(patterns, o)
           id == <<IF o.adapters = << >> THEN "unknown" ELSE Head(o.adapters), o.failure>>
<1>1. CASE o.success \/ o.failure = NoFailure
  BY <1>1 DEF UpdatePatterns
<1>2. CASE ~ (o.success \/ o.failure = NoFailure)
  <2>1. next = [x \in DOMAIN patterns \cup {id} |->
           (IF x \in DOMAIN patterns THEN patterns[x] ELSE 0) + (IF x = id THEN 1 ELSE 0)]
    BY <1>2 DEF UpdatePatterns
  <2>2. \A a, f : o.failure = f /\ o.adapters # << >> /\ Head(o.adapters) = a => id = <<a, f>>
    OBVIOUS
  <2> HIDE DEF next, id
  <2>3. DOMAIN next = DOMAIN patterns \cup {id}
    BY <2>1
  <2>4. \A x \in DOMAIN next : next[x] \in Nat /\ (x \in DOMAIN patterns => next[x] >= patterns[x])
    BY <2>1
  <2>5. next[id] = (IF id \in DOMAIN patterns THEN patterns[id] ELSE 0) + 1
    BY <2>1
  <2> QED
    BY <2>2, <2>3, <2>4, <2>5 DEF next
<1> QED
  BY <1>1, <1>2

(* What is learnt from a sound store is sound, and forgets no offender.    *)
LEMMA LearntIsSound ==
  ASSUME NEW s, StoreSound(s), NEW o \in Outcomes
  PROVE  /\ StoreSound(Learnt(s, o))
         /\ Offenders(s) \subseteq Offenders(Learnt(s, o))
<1> DEFINE outcomes == Append(s.outcomes, o)
           patterns == UpdatePatterns(s.patterns, o)
           overlays == BuildOverlays(outcomes, patterns)
           n == Learnt(s, o)
<1>1. n.outcomes = outcomes /\ n.patterns = patterns /\ n.overlays = overlays
  BY DEF Learnt
<1>2. s.outcomes \in Seq(Outcomes) /\ \A id \in DOMAIN s.patterns : s.patterns[id] \in Nat
  BY DEF StoreSound
<1>3. outcomes \in Seq(Outcomes)
  BY <1>2
<1>4. \A id \in DOMAIN patterns : patterns[id] \in Nat
  BY <1>2, PatternsGrow
<1>5. ASSUME NEW a \in Adapters, NEW f \in FailureTypes, Failed(outcomes, a, f) # {}
      PROVE  <<a, f>> \in DOMAIN patterns
             /\ patterns[<<a, f>>] >= Cardinality(Failed(outcomes, a, f))
  <2> DEFINE is == ~ o.success /\ o.failure = f /\ o.adapters # << >> /\ Head(o.adapters) = a
             was == Failed(s.outcomes, a, f)
  <2>1. f # NoFailure
    BY LearningAssumption
  <2>2. /\ Failed(outcomes, a, f) = was \cup (IF is THEN {Len(s.outcomes) + 1} ELSE {})
        /\ Cardinality(Failed(outcomes, a, f)) = Cardinality(was) + (IF is THEN 1 ELSE 0)
        /\ IsFiniteSet(was) /\ Cardinality(was) \in Nat
    BY <1>2, FailedGrows
  <2>3. was # {} => /\ <<a, f>> \in DOMAIN s.patterns
                    /\ s.patterns[<<a, f>>] >= Cardinality(was)
    BY DEF StoreSound, Times
  <2>4. was = {} => Cardinality(was) = 0
    BY FS_EmptySet
  <2>5. /\ DOMAIN s.patterns \subseteq DOMAIN patterns
        /\ \A id \in DOMAIN s.patterns : patterns[id] >= s.patterns[id]
    BY <1>2, PatternsGrow
  <2>6. is => /\ <<a, f>> \in DOMAIN patterns
              /\ patterns[<<a, f>>] =
                   (IF <<a, f>> \in DOMAIN s.patterns THEN s.patterns[<<a, f>>] ELSE 0) + 1
    BY <1>2, <2>1, PatternsGrow
  <2> HIDE DEF is, was, outcomes, patterns
  <2>7. CASE is
    BY <1>2, <2>2, <2>3, <2>4, <2>6, <2>7
  <2>8. CASE ~ is
    BY <1>2, <1>4, <1>5, <2>2, <2>3, <2>5, <2>8
  <2> QED
    BY <2>7, <2>8
<1>6. ASSUME NEW i \in DOMAIN outcomes, NEW a \in ToSet(outcomes[i].adapters), Repeated(patterns, a)
      PROVE  overlays[a].requireApproval
  <2> HIDE DEF outcomes, patterns
  <2>1. a \in UNION {ToSet(outcomes[k].adapters) : k \in DOMAIN outcomes}
    OBVIOUS
  <2>2. \E id \in DOMAIN patterns : id[1] = a /\ patterns[id] >= 3
    BY <1>6 DEF Repeated
  <2> QED
    BY <2>1, <2>2 DEF BuildOverlays
<1>7. StoreSound(n)
  BY <1>1, <1>3, <1>4, <1>5, <1>6 DEF StoreSound, Times
<1>8. \A a, f : Cardinality(Failed(s.outcomes, a, f)) >= 3 =>
                  Cardinality(Failed(outcomes, a, f)) >= 3
  BY <1>2, FailedGrows
<1> QED
  BY <1>1, <1>7, <1>8 DEF Offenders

(* Three runs that failed at an adapter in the same way make it careful.   *)
LEMMA SoundIsCautious ==
  ASSUME NEW s, StoreSound(s), NEW a \in Offenders(s)
  PROVE  s.overlays[a].requireApproval
<1>1. PICK f \in FailureTypes : Times(s, a, f) >= 3
  BY DEF Offenders, Times
<1>2. a \in Adapters
  BY DEF Offenders
<1>3. Failed(s.outcomes, a, f) # {}
  BY <1>1, FS_EmptySet DEF Times
<1>4. PICK i \in DOMAIN s.outcomes : s.outcomes[i].adapters # << >> /\ Head(s.outcomes[i].adapters) = a
  BY <1>3 DEF Failed
<1>5. s.outcomes[i].adapters \in Seq(Adapters)
  BY <1>4, LearningAssumption DEF StoreSound
<1>6. a \in ToSet(s.outcomes[i].adapters)
  BY <1>4, <1>5 DEF ToSet
<1>7. <<a, f>> \in DOMAIN s.patterns /\ s.patterns[<<a, f>>] >= Times(s, a, f)
      /\ s.patterns[<<a, f>>] \in Nat
  BY <1>2, <1>3 DEF StoreSound
<1>8. Times(s, a, f) \in Nat
  BY FailedIsFinite DEF StoreSound, Times
<1>9. Repeated(s.patterns, a)
  BY <1>1, <1>7, <1>8 DEF Repeated
<1> QED
  BY <1>4, <1>6, <1>9 DEF StoreSound

(* ----------------------------------------------------------------------- *)
(* The thresholds that follow an outcome are no lower for high risk.       *)
LEMMA EvolvedIsCareful ==
  ASSUME NEW t, PolicySound(t), NEW o \in RunOutcomes
  PROVE  LET next == EvolveThresholdPolicy(t, o)
         IN  PolicySound(next) /\ next["high"] >= t["high"]
<1> DEFINE up   == [low |-> 250, medium |-> 330, high |-> 500]
           down == [low |-> 125, medium |-> 165, high |-> 0]
           bad  == o.result = "failure" \/ o.rollback
           good == o.result = "success" /\ ~ o.override /\ ~ o.rollback
           shift == (IF bad THEN up[o.risk] ELSE 0) - (IF good THEN down[o.risk] ELSE 0)
           next == EvolveThresholdPolicy(t, o)
<1>1. o.risk \in {"low", "medium", "high"}
  BY LearningAssumption DEF DefaultThresholdPolicy
<1>2. /\ t \in [{"low", "medium", "high"} -> Int] /\ t["high"] <= 9000
      /\ DOMAIN DefaultThresholdPolicy = {"low", "medium", "high"}
  BY DEF PolicySound, Policy, DefaultThresholdPolicy
<1>3. shift \in Int /\ (o.risk = "high" => shift >= 0)
  BY <1>1
<1>4. next = IF shift = 0 THEN t ELSE [t EXCEPT ![o.risk] = Clamp(t[o.risk] + shift, 4000, 9000)]
  BY DEF EvolveThresholdPolicy
<1> HIDE DEF shift, next
<1>5. CASE shift = 0
  BY <1>2, <1>4, <1>5 DEF PolicySound, next
<1>6. CASE shift # 0
  <2> DEFINE n == t[o.risk] + shift
             c == Clamp(n, 4000, 9000)
  <2>1. n \in Int /\ t[o.risk] \in Int
    BY <1>1, <1>2, <1>3
  <2>2. c \in Int /\ c <= 9000 /\ (n <= 9000 => c >= n) /\ (n > 9000 => c = 9000)
    <3> HIDE DEF n
    <3> QED
      BY <2>1 DEF Clamp
  <2>3. next = [t EXCEPT ![o.risk] = c]
    BY <1>4, <1>6
  <2> HIDE DEF c
  <2>4. next \in [{"low", "medium", "high"} -> Int]
    BY <1>1, <1>2, <2>2, <2>3
  <2>5. next["high"] = IF o.risk = "high" THEN c ELSE t["high"]
    BY <1>1, <1>2, <2>3
  <2>6. next["high"] <= 9000 /\ next["high"] >= t["high"]
    BY <1>1, <1>2, <1>3, <2>1, <2>2, <2>5
  <2> QED
    BY <1>2, <2>4, <2>6 DEF PolicySound, Policy, next
<1> QED
  BY <1>5, <1>6

LEMMA AgentsAreListed == SetToSeq(LearningAgents) \in Seq(LearningAgents)
<1> DEFINE four == {"planner", "builder", "reviewer", "security"}
           n == Cardinality(LearningAgents)
<1>1. IsFiniteSet(four)
  <2>1. IsFiniteSet({} \cup {"planner"})
    BY FS_EmptySet, FS_AddElement
  <2>2. IsFiniteSet({} \cup {"planner"} \cup {"builder"})
    BY <2>1, FS_AddElement
  <2>3. IsFiniteSet({} \cup {"planner"} \cup {"builder"} \cup {"reviewer"})
    BY <2>2, FS_AddElement
  <2>4. IsFiniteSet({} \cup {"planner"} \cup {"builder"} \cup {"reviewer"} \cup {"security"})
    BY <2>3, FS_AddElement
  <2>5. four = {} \cup {"planner"} \cup {"builder"} \cup {"reviewer"} \cup {"security"}
    OBVIOUS
  <2> QED
    BY <2>4, <2>5
<1>2. IsFiniteSet(LearningAgents)
  BY <1>1, FS_Subset, LearningAssumption
<1>3. n \in Nat /\ ExistsBijection(1..n, LearningAgents)
  BY <1>2, FS_CardinalityType
<1> HIDE DEF n
<1>4. \E f \in [1..n -> LearningAgents] : IsInjective(f)
  BY <1>3 DEF ExistsBijection, Bijection, Injection
<1>5. SetToSeq(LearningAgents) = CHOOSE f \in [1..n -> LearningAgents] : IsInjective(f)
  BY DEF SetToSeq, n
<1>6. SetToSeq(LearningAgents) \in [1..n -> LearningAgents]
  BY <1>4, <1>5
<1> QED
  BY <1>3, <1>6

LEMMA WritesAreSound ==
  ASSUME PolicySound(thresholds), NEW o \in RunOutcomes
  PROVE  /\ Left(Writes(o))
         /\ \A i \in DOMAIN Writes(o) : Writes(o)[i].file = "thresholds" =>
               Writes(o)[i].value["high"] >= thresholds["high"]
<1> DEFINE agents == UpdateAgentProfiles(profiles, o)
           order == SetToSeq(LearningAgents)
           agentWrite(a) == [file |-> "agent", agent |-> a, value |-> agents[a]]
           first == [i \in DOMAIN order |-> agentWrite(order[i])]
           policy == EvolveThresholdPolicy(thresholds, o)
           rule == [file |-> "thresholds", agent |-> "", value |-> policy]
           skill == [file |-> "skills", agent |-> "", value |-> UpdateSkillStats(skillStats, o)]
           S == {agentWrite(a) : a \in LearningAgents} \cup {rule, skill}
           all == Writes(o)
<1>1. all = first \o <<rule, skill>>
  BY DEF Writes
<1>2. PolicySound(policy) /\ policy["high"] >= thresholds["high"]
  BY EvolvedIsCareful
<1>3. \A w \in S : WriteSound(w) /\ (w.file = "thresholds" => w = rule)
  <2>1. /\ rule.file = "thresholds" /\ rule.value = policy /\ skill.file = "skills"
        /\ \A a \in LearningAgents : agentWrite(a).file = "agent"
    OBVIOUS
  <2> HIDE DEF policy, rule, skill, agentWrite
  <2> QED
    BY <1>2, <2>1 DEF WriteSound
<1>4. rule.value = policy /\ rule \in S /\ skill \in S
  OBVIOUS
<1>5. order \in Seq(LearningAgents) /\ \A a \in LearningAgents : agentWrite(a) \in S
  BY AgentsAreListed
<1> HIDE DEF all, policy, order, rule, skill, agentWrite, S
<1>6. first \in Seq(S)
  BY <1>5
<1>7. <<rule, skill>> \in Seq(S) /\ Len(<<rule, skill>>) = 2
  BY <1>4
<1> HIDE DEF first
<1>8. all \in Seq(S) /\ Len(all) = Len(first) + 2 /\ Len(first) \in Nat
  BY <1>1, <1>6, <1>7
<1>9. all # << >> /\ \A i \in DOMAIN all : all[i] \in S
  BY <1>8
<1> QED
  BY <1>2, <1>3, <1>4, <1>8, <1>9 DEF Left, all

(* ----------------------------------------------------------------------- *)
(* A learner that starts has made nobody overlap unless it is alone.       *)
LEMMA BeginsKeeps ==
  ASSUME LearnInv, NEW p \in Learners, NEW m, Begins(p, m), UNCHANGED <<store, thresholds>>,
         LearnerSound(m), Careful(m, store, thresholds)
  PROVE  LearnInv'
<1>1. /\ DOMAIN learner' = Learners /\ learner'[p] = m
      /\ \A q \in Learners \ {p} : learner'[q] = learner[q]
  BY DEF Begins, LearnInv
<1>2. /\ overlaps' \in Nat
      /\ overlaps' = 0 => \A q \in Learners : learner[q].pc = "idle"
  BY DEF Begins, LearnInv
<1>3. LoneLearner'
  BY <1>1, <1>2 DEF LoneLearner
<1>4. \A q \in Learners : LearnerSound(learner'[q])
  BY <1>1 DEF LearnInv
<1> QED
  BY <1>1, <1>2, <1>3, <1>4 DEF LearnInv

(* A learner writes or dies; another that never overlapped is not there.   *)
LEMMA LearnerStepKeeps ==
  ASSUME LearnInv, NEW p \in Learners, NEW m, learner' = [learner EXCEPT ![p] = m],
         learner[p].pc # "idle", overlaps' = overlaps, LearnerSound(m),
         store' # Broken => StoreSound(store'), thresholds' # Broken => PolicySound(thresholds'),
         overlaps = 0 /\ m.pc # "idle" => Careful(m, store', thresholds')
  PROVE  LearnInv'
<1>1. /\ DOMAIN learner' = Learners /\ learner'[p] = m
      /\ \A q \in Learners \ {p} : learner'[q] = learner[q]
  BY DEF LearnInv
<1>2. LoneLearner'
  BY <1>1 DEF LearnInv, LoneLearner
<1>3. \A q \in Learners : LearnerSound(learner'[q])
  BY <1>1 DEF LearnInv
<1> QED
  BY <1>1, <1>2, <1>3 DEF LearnInv

LEMMA RestingIsSound == LearnerSound(Resting) /\ Resting.pc = "idle"
BY DEF LearnerSound, Resting

(* What a step may not do: it keeps what is learnt, unless processes       *)
(* overlapped or a file is broken.                                         *)
Kept ==
  overlaps' = 0 =>
    /\ store # Broken /\ store' # Broken => Offenders(store) \subseteq Offenders(store')
    /\ thresholds # Broken /\ thresholds' # Broken => thresholds'["high"] >= thresholds["high"]

LEMMA QuietKept == ASSUME LearnInv, UNCHANGED <<store, thresholds>> PROVE Kept
BY DEF Kept, LearnInv, PolicySound, Policy, DefaultThresholdPolicy

LEMMA LearnFromOutcomeKeeps ==
  ASSUME LearnInv, NEW p \in Learners, NEW o \in Outcomes, LearnFromOutcome(p, o)
  PROVE  LearnInv' /\ Kept
<1> DEFINE m == [pc |-> "store", value |-> Learnt(store, o)]
<1>1. Begins(p, m) /\ store # Broken /\ UNCHANGED <<store, thresholds>>
  BY DEF LearnFromOutcome, stateFiles
<1>2. StoreSound(Learnt(store, o)) /\ Offenders(store) \subseteq Offenders(Learnt(store, o))
  BY <1>1, LearntIsSound DEF LearnInv
<1>3. LearnerSound(m) /\ Careful(m, store, thresholds)
  BY <1>2 DEF LearnerSound, Careful
<1> HIDE DEF m
<1> QED
  BY <1>1, <1>3, BeginsKeeps, QuietKept

LEMMA SaveLearningStoreKeeps ==
  ASSUME LearnInv, NEW p \in Learners, SaveLearningStore(p)
  PROVE  LearnInv' /\ Kept
<1>1. /\ learner[p].pc = "store" /\ store' = learner[p].value /\ thresholds' = thresholds
      /\ learner' = [learner EXCEPT ![p] = Resting] /\ overlaps' = overlaps
  BY DEF SaveLearningStore, stateFiles
<1>2. StoreSound(store')
  BY <1>1 DEF LearnInv, LearnerSound
<1>3. LearnInv'
  BY <1>1, <1>2, RestingIsSound, LearnerStepKeeps DEF LearnInv
<1>4. Kept
  BY <1>1 DEF Kept, LearnInv, LoneLearner, Careful, PolicySound, Policy, DefaultThresholdPolicy
<1> QED
  BY <1>3, <1>4

LEMMA ApplyLearningCycleKeeps ==
  ASSUME LearnInv, NEW p \in Learners, NEW o \in RunOutcomes, ApplyLearningCycle(p, o)
  PROVE  LearnInv' /\ Kept
<1> DEFINE left == Writes(o)
           m == [pc |-> "cycle", left |-> left]
<1>1. Begins(p, m) /\ thresholds # Broken /\ UNCHANGED <<store, thresholds>>
  BY DEF ApplyLearningCycle, stateFiles
<1>2. Left(left) /\ \A i \in DOMAIN left : left[i].file = "thresholds" =>
                       left[i].value["high"] >= thresholds["high"]
  BY <1>1, WritesAreSound DEF LearnInv
<1> HIDE DEF left
<1>3. LearnerSound(m) /\ Careful(m, store, thresholds)
  BY <1>2 DEF LearnerSound, Careful
<1> HIDE DEF m
<1> QED
  BY <1>1, <1>3, BeginsKeeps, QuietKept

(* The next file that a cycle writes, and what it leaves to write.         *)
LEMMA NextWrite ==
  ASSUME NEW left, Left(left)
  PROVE  /\ WriteSound(Head(left)) /\ Len(left) \in Nat \ {0}
         /\ Head(left) = left[1] /\ 1 \in DOMAIN left
         /\ Tail(left) # << >> =>
              /\ Left(Tail(left))
              /\ \A i \in DOMAIN Tail(left) :
                    i + 1 \in DOMAIN left /\ Tail(left)[i] = left[i + 1]
<1>1. PICK S : left \in Seq(S) /\ \A w \in S : WriteSound(w)
  BY DEF Left
<1>2. left # << >>
  BY DEF Left
<1>3. /\ Head(left) \in S /\ Head(left) = left[1] /\ Len(left) \in Nat \ {0} /\ 1 \in DOMAIN left
  BY <1>1, <1>2
<1>4. /\ Tail(left) \in Seq(S)
      /\ \A i \in DOMAIN Tail(left) : i + 1 \in DOMAIN left /\ Tail(left)[i] = left[i + 1]
  BY <1>1, <1>2
<1> QED
  BY <1>1, <1>3, <1>4 DEF Left

LEMMA PutSets ==
  ASSUME NEW w, WriteSound(w), NEW value, Put(w, value)
  PROVE  thresholds' = IF w.file = "thresholds" THEN value ELSE thresholds
BY DEF WriteSound, Put

LEMMA SaveLearningStateKeeps ==
  ASSUME LearnInv, NEW p \in Learners, SaveLearningState(p)
  PROVE  LearnInv' /\ Kept
<1> DEFINE r == learner[p]
           w == Head(r.left)
           rest == Tail(r.left)
           n == [pc |-> "cycle", left |-> rest]
           m == IF rest = << >> THEN Resting ELSE n
<1>0. Put(w, w.value)
  BY DEF SaveLearningState
<1>1. /\ r.pc = "cycle" /\ learner' = [learner EXCEPT ![p] = m] /\ overlaps' = overlaps
      /\ store' = store
  BY DEF SaveLearningState
<1>2. Left(r.left)
  BY <1>1 DEF LearnInv, LearnerSound
<1>3. n.pc = "cycle" /\ n.left = rest /\ DOMAIN n = {"pc", "left"}
  OBVIOUS
<1>4. WriteSound(w) /\ w = r.left[1] /\ 1 \in DOMAIN r.left
  BY <1>2, NextWrite
<1>5. thresholds' = IF w.file = "thresholds" THEN w.value ELSE thresholds
  BY <1>0, <1>4, PutSets
<1>6. thresholds' # Broken => PolicySound(thresholds')
  BY <1>4, <1>5 DEF WriteSound, LearnInv
<1> HIDE DEF n, w, r
<1>7. LearnerSound(m) /\ m.pc \in {"idle", "cycle"}
  BY <1>2, <1>3, NextWrite, RestingIsSound DEF LearnerSound
<1>8. overlaps = 0 => Careful(r, store, thresholds)
  BY <1>1 DEF LearnInv, LoneLearner, r
<1>9. ASSUME overlaps = 0, m.pc # "idle" PROVE Careful(m, store', thresholds')
  <2>1. m = n /\ rest # << >>
    BY <1>9, RestingIsSound
  <2>2. SUFFICES ASSUME thresholds' # Broken, NEW i \in DOMAIN n.left,
                        n.left[i].file = "thresholds"
                 PROVE  n.left[i].value["high"] >= thresholds'["high"]
    BY <1>3, <2>1 DEF Careful
  <2>3. i + 1 \in DOMAIN r.left /\ n.left[i] = r.left[i + 1]
    BY <1>2, <1>3, <2>1, <2>2, NextWrite
  <2>4. CASE w.file = "thresholds"
    <3>1. n.left[i].value = w.value
      BY <1>2, <1>4, <2>2, <2>3, <2>4 DEF Left
    <3>2. PolicySound(w.value)
      BY <1>4, <2>4 DEF WriteSound
    <3> QED
      BY <1>5, <2>4, <3>1, <3>2 DEF PolicySound, Policy, DefaultThresholdPolicy
  <2>5. CASE w.file # "thresholds"
    BY <1>1, <1>5, <1>8, <1>9, <2>2, <2>3, <2>5 DEF Careful
  <2> QED
    BY <2>4, <2>5
<1>10. LearnInv'
  <2>1. store' # Broken => StoreSound(store')
    BY <1>1 DEF LearnInv
  <2> HIDE DEF m
  <2> QED
    BY <1>1, <1>6, <1>7, <1>9, <2>1, LearnerStepKeeps DEF r
<1>11. Kept
  <2>1. CASE w.file = "thresholds"
    BY <1>1, <1>4, <1>5, <1>8, <2>1 DEF Kept, Careful
  <2>2. CASE w.file # "thresholds"
    BY <1>1, <1>5, <2>2, QuietKept
  <2> QED
    BY <2>1, <2>2
<1> QED
  BY <1>10, <1>11

LEMMA LearnerDiesKeeps ==
  ASSUME LearnInv, NEW p \in Learners, LearnerDies(p)
  PROVE  LearnInv' /\ Kept
<1>1. /\ learner[p].pc # "idle" /\ learner' = [learner EXCEPT ![p] = Resting]
      /\ overlaps' = overlaps
  BY DEF LearnerDies
<1>2. store' \in {store, Broken} /\ thresholds' \in {thresholds, Broken}
  <2>1. CASE UNCHANGED <<store, stateFiles>>
    BY <2>1 DEF stateFiles
  <2>2. CASE store' = Broken /\ UNCHANGED stateFiles
    BY <2>2 DEF stateFiles
  <2>3. CASE learner[p].pc = "cycle" /\ Put(Head(learner[p].left), Broken) /\ UNCHANGED store
    <3>1. WriteSound(Head(learner[p].left))
      BY <2>3, NextWrite DEF LearnInv, LearnerSound
    <3> QED
      BY <2>3, <3>1, PutSets
  <2> QED
    BY <2>1, <2>2, <2>3 DEF LearnerDies
<1>3. /\ store' # Broken => store' = store /\ StoreSound(store')
      /\ thresholds' # Broken => thresholds' = thresholds /\ PolicySound(thresholds')
  BY <1>2 DEF LearnInv
<1>4. LearnInv'
  BY <1>1, <1>3, RestingIsSound, LearnerStepKeeps
<1>5. Kept
  BY <1>3 DEF Kept, PolicySound, Policy, DefaultThresholdPolicy
<1> QED
  BY <1>4, <1>5

LEMMA LearnStep == LearnInv /\ [LearnNext]_learnVars => LearnInv' /\ Kept
<1> SUFFICES ASSUME LearnInv, [LearnNext]_learnVars PROVE LearnInv' /\ Kept
  OBVIOUS
<1>1. CASE UNCHANGED learnVars
  <2>1. UNCHANGED <<store, thresholds>> /\ LearnInv'
    BY <1>1 DEF learnVars, LearnInv, LoneLearner
  <2> QED
    BY <2>1, QuietKept
<1>2. CASE StoreNext
  BY <1>2, LearnFromOutcomeKeeps, SaveLearningStoreKeeps, LearnerDiesKeeps DEF StoreNext
<1>3. CASE CycleNext
  BY <1>3, ApplyLearningCycleKeeps, SaveLearningStateKeeps, LearnerDiesKeeps DEF CycleNext
<1> QED
  BY <1>1, <1>2, <1>3 DEF LearnNext

(* CautionIsKept, for any processes, adapters, outcomes and agents: the    *)
(* overlays of every store that learning-store.json may hold ask approval  *)
(* for an adapter that failed three times in one way, whichever process    *)
(* overwrote or lost what; and while none overlap, no such adapter and no  *)
(* rise of the threshold for high risk is lost, whoever dies.              *)
THEOREM LearningStaysCautious == LearnSpec => CautionIsKept
<1>1. LearnInv => Cautious
  BY SoundIsCautious DEF LearnInv, Cautious
<1>2. LearnInv /\ [LearnNext]_learnVars => LearnInv'
  BY LearnStep
<1>3. LearnInv /\ LearnInv' /\ [LearnNext]_learnVars =>
        [ /\ Cautious'
          /\ overlaps' = 0 =>
                /\ store # Broken /\ store' # Broken => Offenders(store) \subseteq Offenders(store')
                /\ thresholds # Broken /\ thresholds' # Broken =>
                      thresholds'.high >= thresholds.high ]_learnVars
  <2>1. LearnInv' => Cautious'
    BY <1>1, PTL
  <2> QED
    BY <2>1, LearnStep DEF Kept
<1> QED
  BY LearnStarts, <1>2, <1>3, PTL DEF LearnSpec, CautionIsKept

=============================================================================
