------------------------------ MODULE Recovery ------------------------------
(***************************************************************************)
(* Restoring a set in recovery mode, and the boot of Grom after it:        *)
(* restore.go, recovery.go and unbundle.go of                              *)
(* backend/internal/platform/backup, and run in backend/cmd/grom/main.go.  *)
(*                                                                         *)
(* The volumes are the pieces that are in place.  Restore puts them there  *)
(* one rename at a time; the marker and the SQLite database are entries of *)
(* one directory, renamed in the order of their names.                     *)
(***************************************************************************)
EXTENDS Backups, Sequences

VARIABLES grom,      \* "up", "down", or where the boot is: "boot", "record", "consume"
          mode,      \* "normal", or "recovery" when the recovery image runs instead
          placed,    \* the pieces in the volumes, the PostgreSQL database among them
          restore,   \* the restoration under way
          marker,    \* the set the restore marker names, or Nobody
          origin,    \* the set the database was restored from, or Nobody
          ephemeral, \* the database has sessions or reset links of a recovery point
          recorded,  \* how many events tell of the restoration the database comes from
          undone     \* a roll back took the marker away and left the database in place

recoveryVars == <<grom, mode, placed, restore, marker, origin, ephemeral, recorded, undone>>

Pieces == {"marker", "database", "certs", "registry", "config"}
NoRestore == [phase |-> "idle", set |-> Nobody,
              moved |-> 0,      \* how many pieces were moved, and not tried to move back
              stuck |-> FALSE]  \* one of them could not be moved back

\* Fault: the database is in place before the marker is.
MovesDatabaseFirst(k) ==
  <<"database", "marker", "certs", "registry", "config">>

\* The order in which the pieces get their place; pg_restore comes last.
Moves(k) ==
  IF k = "sqlite" THEN <<"marker", "database", "certs", "registry", "config">>
  ELSE <<"marker", "certs", "registry", "config", "database">>

RecoveryInit ==
  /\ grom = "up" /\ mode = "normal" /\ placed = Pieces \ {"marker"}
  /\ restore = NoRestore
  /\ marker = Nobody /\ origin = Nobody /\ ephemeral = FALSE /\ recorded = 0
  /\ undone = FALSE

RecoveryTypeOK ==
  /\ grom \in {"up", "down", "boot", "record", "consume"} /\ mode \in {"normal", "recovery"}
  /\ placed \subseteq Pieces
  /\ restore.phase \in {"idle", "staging", "extracted", "moving", "back", "dirty"}
  /\ restore.moved \in 0 .. Len(Moves(kind)) /\ restore.stuck \in BOOLEAN
  /\ (marker # Nobody) <=> ("marker" \in placed)
  /\ restore.phase = "moving" => placed \ {"database"} \subseteq
                                   {Moves(kind)[i] : i \in 1 .. restore.moved} \cup {"database"}
  /\ {ephemeral, undone} \subseteq BOOLEAN /\ recorded \in 0 .. 1
  /\ mode = "recovery" => grom = "down"

-----------------------------------------------------------------------------
(***************************************************************************)
(* Recovery mode                                                           *)
(***************************************************************************)
RecoveryUnchanged ==
  UNCHANGED <<gateVars, kind, dump, manager, call, job, grom, mode>>

\* The operator stopped the stack and gives the recovery image new volumes.
EnterRecovery ==
  /\ mode = "normal" /\ grom = "down" /\ job = NoJob
  /\ Event
  /\ mode' = "recovery"
  /\ placed' = {} /\ restore' = NoRestore /\ marker' = Nobody
  /\ origin' = Nobody /\ ephemeral' = FALSE /\ recorded' = 0 /\ undone' = FALSE
  /\ UNCHANGED <<gateVars, content, dump, manager, volume, grom>>

\* Unbundle: the upload is inspected in a directory of its own, then renamed.
Upload(s) ==
  /\ mode = "recovery" /\ sets[s].phase = "none"
  /\ sets' = [sets EXCEPT ![s] = [NoSet EXCEPT !.phase = "listed"]]
  /\ RecoveryUnchanged
  /\ UNCHANGED <<dbAt, registryAt, events, placed, restore, marker, origin, ephemeral,
                 recorded, undone>>

\* requireEmptyDirectory for three volumes and the absence of the fourth; the
\* PostgreSQL database is not looked at.
Empty == placed \subseteq (IF kind = "postgres" THEN {"database"} ELSE {})

\* The restoring flag, the checks, and everything up to the first rename.
BeginRestore(s) ==
  /\ mode = "recovery" /\ restore = NoRestore
  /\ s \in Listed /\ Empty
  /\ restore' = [NoRestore EXCEPT !.phase = "staging", !.set = s]
  /\ RecoveryUnchanged
  /\ UNCHANGED <<dbAt, registryAt, sets, events, placed, marker, origin, ephemeral,
                 recorded, undone>>

\* The archives are extracted under their targets ...
Extract ==
  /\ restore.phase = "staging"
  /\ \/ restore' = [restore EXCEPT !.phase = "extracted"] /\ UNCHANGED events
     \/ restore' = NoRestore /\ Event
  /\ RecoveryUnchanged
  /\ UNCHANGED <<dbAt, registryAt, sets, placed, marker, origin, ephemeral, recorded, undone>>

\* ... the marker and the configuration are added and all of it is checked; an
\* error removes what is staged.
Staged ==
  /\ restore.phase = "extracted"
  /\ \/ restore' = [restore EXCEPT !.phase = "moving"] /\ UNCHANGED events
     \/ restore' = NoRestore /\ Event
  /\ RecoveryUnchanged
  /\ UNCHANGED <<dbAt, registryAt, sets, placed, marker, origin, ephemeral, recorded, undone>>

\* The database of the set with everything that is in it; pg_restore does it in
\* one transaction.
RestoreDatabase(s) ==
  dbAt' = sets[s].db /\ origin' = s /\ ephemeral' = TRUE /\ recorded' = 0

\* The next piece gets its place.
Move ==
  LET s == restore.set
      piece == Moves(kind)[restore.moved + 1]
  IN /\ restore.phase = "moving" /\ restore.moved < Len(Moves(kind))
     /\ restore' = [restore EXCEPT !.moved = @ + 1]
     /\ placed' = placed \cup {piece}
     /\ marker' = IF piece = "marker" THEN s ELSE marker
     /\ registryAt' = IF piece = "registry" THEN sets[s].registry ELSE registryAt
     /\ IF piece = "database" THEN RestoreDatabase(s)
        ELSE UNCHANGED <<dbAt, origin, ephemeral, recorded>>
     /\ RecoveryUnchanged
     /\ UNCHANGED <<sets, events, undone>>

\* The staging directories are gone: the restoration succeeded.
Restored ==
  /\ restore.phase = "moving" /\ restore.moved = Len(Moves(kind))
  /\ restore' = NoRestore
  /\ RecoveryUnchanged
  /\ UNCHANGED <<dbAt, registryAt, sets, events, placed, marker, origin, ephemeral,
                 recorded, undone>>

\* A rename, pg_restore or the removal of a staging directory failed:
\* rollbackPromotion, which goes through what was moved from the last to the first.
RollBack ==
  /\ restore.phase = "moving"
  /\ Event
  /\ restore' = [restore EXCEPT !.phase = "back"]
  /\ RecoveryUnchanged
  /\ UNCHANGED <<dbAt, registryAt, sets, placed, marker, origin, ephemeral, recorded, undone>>

\* What pg_restore committed is not undone.
Committed(piece) == piece = "database" /\ kind = "postgres"

\* A piece that was tried and is still in place.
Left(piece) ==
  /\ piece \in placed
  /\ \E i \in restore.moved + 1 .. Len(Moves(kind)) : Moves(kind)[i] = piece

\* The next piece is moved back.
MoveBack ==
  LET piece == Moves(kind)[restore.moved]
  IN /\ restore.phase = "back" /\ restore.moved > 0
     /\ restore' = [restore EXCEPT !.moved = @ - 1]
     /\ placed' = IF Committed(piece) THEN placed ELSE placed \ {piece}
     /\ marker' = IF piece = "marker" THEN Nobody ELSE marker
     /\ IF piece = "database" /\ ~Committed(piece) THEN origin' = Nobody /\ ephemeral' = FALSE
        ELSE UNCHANGED <<origin, ephemeral>>
     /\ undone' = (undone \/ (piece = "marker" /\ Left("database")))
     /\ RecoveryUnchanged
     /\ UNCHANGED <<dbAt, registryAt, sets, events, recorded>>

\* It cannot be, and the roll back goes on with the others.
MoveBackFails ==
  /\ restore.phase = "back" /\ restore.moved > 0 /\ ~Committed(Moves(kind)[restore.moved])
  /\ Event
  /\ restore' = [restore EXCEPT !.moved = @ - 1, !.stuck = TRUE]
  /\ RecoveryUnchanged
  /\ UNCHANGED <<dbAt, registryAt, sets, placed, marker, origin, ephemeral, recorded, undone>>

\* Everything was tried.  Unless something is stuck the staging directories go,
\* and the restoration may be repeated; the answer is the same (recovery.go).
RolledBack ==
  /\ restore.phase = "back" /\ restore.moved = 0
  /\ restore' = IF restore.stuck THEN [restore EXCEPT !.phase = "dirty"] ELSE NoRestore
  /\ RecoveryUnchanged
  /\ UNCHANGED <<dbAt, registryAt, sets, events, placed, marker, origin, ephemeral,
                 recorded, undone>>

\* The image stops in the middle: nothing is moved any more, and the staging
\* directories keep another restoration from starting.
LeftDirty ==
  /\ restore.phase \in {"staging", "extracted", "moving", "back"}
  /\ Event
  /\ restore' = [restore EXCEPT !.phase = "dirty"]
  /\ RecoveryUnchanged
  /\ UNCHANGED <<dbAt, registryAt, sets, placed, marker, origin, ephemeral, recorded, undone>>

\* The operator stops the image; then the normal stack may start, or the
\* volumes are wiped once more.
LeaveRecovery ==
  /\ mode = "recovery" /\ restore.phase \in {"idle", "dirty"}
  /\ mode' = "normal"
  /\ UNCHANGED <<gateVars, content, dump, manager, volume, events, grom, placed,
                 restore, marker, origin, ephemeral, recorded, undone>>

-----------------------------------------------------------------------------
(***************************************************************************)
(* The boot of Grom                                                        *)
(***************************************************************************)
BootUnchanged ==
  /\ UNCHANGED <<gateVars, kind, registryAt, dump, manager, volume, events, mode>>
  /\ UNCHANGED <<restore, origin, undone>>

\* Open and Migrate: a missing database is created.  The other volumes are
\* those of the stack, or get fresh content from it.  Versions only tell what
\* belongs together: from a boot on that is what the boot finds.
OpenDatabase ==
  /\ mode = "normal" /\ grom = "down"
  /\ grom' = "boot"
  /\ placed' = placed \cup (Pieces \ {"marker"})
  /\ dbAt' = registryAt
  /\ BootUnchanged
  /\ UNCHANGED <<marker, ephemeral, recorded>>

\* ReadRestoreMarker.
Marked == marker # Nobody

\* InvalidateEphemeralCredentials when there is a marker.
Invalidate ==
  /\ grom = "boot"
  /\ IF Marked THEN grom' = "record" /\ ephemeral' = FALSE
     ELSE grom' = "up" /\ UNCHANGED ephemeral
  /\ BootUnchanged
  /\ UNCHANGED <<dbAt, placed, marker, recorded>>

\* RecordOnce: the event carries the identifier of the set, so that a boot
\* that repeats this adds none.
RecordRestore ==
  /\ grom = "record"
  /\ grom' = "consume"
  /\ recorded' = IF recorded = 0 THEN 1 ELSE recorded
  /\ BootUnchanged
  /\ UNCHANGED <<dbAt, placed, marker, ephemeral>>

ConsumeMarker ==
  /\ grom = "consume"
  /\ grom' = "up" /\ marker' = Nobody /\ placed' = placed \ {"marker"}
  /\ BootUnchanged
  /\ UNCHANGED <<dbAt, ephemeral, recorded>>

RecoveryStep ==
  \/ EnterRecovery \/ \E s \in Sets : Upload(s) \/ BeginRestore(s)
  \/ Extract \/ Staged \/ Move \/ Restored \/ LeftDirty \/ LeaveRecovery
  \/ RollBack \/ MoveBack \/ MoveBackFails \/ RolledBack
  \/ OpenDatabase \/ Invalidate \/ RecordRestore \/ ConsumeMarker

-----------------------------------------------------------------------------
\* What a boot makes of a database that comes from a recovery point: the
\* sessions and links in it are dead, and the restoration is recorded.
Dealt == ~ephemeral /\ recorded = 1 /\ marker = Nobody

\* When Grom serves on a restored database it has dealt with it, whatever
\* restoration, roll back or boot was cut short before; except after a roll
\* back that could not take the database back and then took the marker away.
RestoredBoot == grom = "up" /\ origin # Nobody /\ ~undone => Dealt

\* The documentation has no exception: the first normal boot on restored
\* content invalidates, records and consumes the marker.
EveryRestoredBoot == grom = "up" /\ origin # Nobody => Dealt
=============================================================================
