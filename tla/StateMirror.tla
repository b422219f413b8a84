---------------------------- MODULE StateMirror ----------------------------
(***************************************************************************)
(* One file of a run (state.json, adapters.json, ...) under the run store. *)
(*                                                                         *)
(* Each update writes the file synchronously and then hands the same text  *)
(* to the storage provider, whose local implementation creates the         *)
(* directory, truncates the file and writes it again, asynchronously.  The *)
(* base directory of the provider is the artifacts root: both writes go to *)
(* one path.  The executor does not await the second one.                  *)
(*                                                                         *)
(* A text is the number of the update that wrote it.  A put that writes    *)
(* over a text written since it truncated the file leaves a mixture when   *)
(* its own text is the shorter one.                                        *)
(***************************************************************************)
EXTENDS Naturals

CONSTANTS
  MaxUpdates,    \* bound: updates of the file
  Accidents      \* what may befall the process

AccidentNames == {"crash", "cut-short"}

ASSUME StateMirrorAssumption ==
  /\ MaxUpdates \in Nat
  /\ Accidents \subseteq AccidentNames

VARIABLES
  disk,      \* the file
  last,      \* number of updates made
  puts,      \* where the provider is with each update
  overlap,   \* history: puts in flight when the last update was made
  torn       \* history: has a crash emptied the file since the last update?

mirrorVars == <<disk, last, puts, overlap, torn>>

Updates == 1 .. MaxUpdates
Stage == {"none", "mkdir", "opened", "written"}

Whole(u) == [kind |-> "whole", update |-> u]
Absent == [kind |-> "absent", update |-> 0]
Empty == [kind |-> "empty", update |-> 0]
Mixed == [kind |-> "mixed", update |-> 0]
File == {Absent, Empty, Mixed} \cup {Whole(u) : u \in Updates}

InFlight == {u \in Updates : puts[u] # "none"}
Quiet == InFlight = {}

MirrorInit ==
  /\ disk = Absent
  /\ last = 0
  /\ puts = [u \in Updates |-> "none"]
  /\ overlap = {}
  /\ torn = FALSE

(* updateRunState and its siblings: the synchronous write, and the start   *)
(* of the put, which runs until it awaits mkdir.                           *)
Update ==
  /\ last < MaxUpdates
  /\ last' = last + 1
  /\ disk' = Whole(last + 1)
  /\ puts' = [puts EXCEPT ![last + 1] = "mkdir"]
  /\ overlap' = InFlight
  /\ torn' = FALSE

(* Mutant: the provider opens the file without truncating it.              *)
PutOpensWithoutTruncating(u) ==
  /\ puts[u] = "mkdir"
  /\ puts' = [puts EXCEPT ![u] = "opened"]
  /\ UNCHANGED <<disk, last, overlap, torn>>

(* fs.writeFile opens the file with truncation ...                         *)
PutOpens(u) ==
  /\ puts[u] = "mkdir"
  /\ puts' = [puts EXCEPT ![u] = "opened"]
  /\ disk' = Empty
  /\ UNCHANGED <<last, overlap, torn>>

(* Mutant: the provider is handed the text of the update before.           *)
PutWritesPrevious(u) ==
  /\ puts[u] = "opened"
  /\ puts' = [puts EXCEPT ![u] = "written"]
  /\ disk' = Whole(u - 1)
  /\ UNCHANGED <<last, overlap, torn>>

(* ... and writes it later, from its first byte.                           *)
PutWrites(u) ==
  /\ puts[u] = "opened"
  /\ puts' = [puts EXCEPT ![u] = "written"]
  /\ \/ disk' = Whole(u)
     \/ disk # Empty /\ disk' = Mixed
  /\ UNCHANGED <<last, overlap, torn>>

(* stat and the hash, which nobody waits for.                              *)
PutReturns(u) ==
  /\ puts[u] = "written"
  /\ puts' = [puts EXCEPT ![u] = "none"]
  /\ UNCHANGED <<disk, last, overlap, torn>>

(* The process dies, also because a put rejects: nobody handles it, and    *)
(* the service exits on an unhandled rejection.                            *)
Crash ==
  /\ "crash" \in Accidents
  /\ ~ Quiet
  /\ puts' = [u \in Updates |-> "none"]
  /\ torn' = (torn \/ disk = Empty)
  /\ UNCHANGED <<disk, last, overlap>>

(* The process dies inside the synchronous write of an update.             *)
CutShort ==
  /\ "cut-short" \in Accidents
  /\ last < MaxUpdates
  /\ disk' = Empty
  /\ puts' = [u \in Updates |-> "none"]
  /\ torn' = TRUE
  /\ UNCHANGED <<last, overlap>>

MirrorNext ==
  \/ Update
  \/ \E u \in Updates : PutOpens(u) \/ PutWrites(u) \/ PutReturns(u)
  \/ Crash
  \/ CutShort

MirrorSpec == MirrorInit /\ [][MirrorNext]_mirrorVars

-----------------------------------------------------------------------------

MirrorTypeOK ==
  /\ disk \in File
  /\ last \in 0 .. MaxUpdates
  /\ puts \in [Updates -> Stage]
  /\ overlap \subseteq Updates
  /\ torn \in BOOLEAN

(* A text in the file is that of the last update, or of one whose put was  *)
(* still under way when the last update was made: whatever the order in    *)
(* which the puts complete, nothing older comes back.                      *)
FileIsRecent ==
  disk.kind = "whole" => disk.update \in overlap \cup {last}

(* An update made while no put was under way is what the file holds once   *)
(* its own put has completed, unless a crash emptied the file since.       *)
LoneUpdateLands ==
  Quiet /\ overlap = {} /\ last > 0 /\ ~ torn => disk = Whole(last)
=============================================================================
