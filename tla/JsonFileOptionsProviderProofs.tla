--------------------- MODULE JsonFileOptionsProviderProofs ---------------------
(***************************************************************************)
(* Save is atomic, and the watcher misses nothing: for any contents, any   *)
(* number of crashes, failures and foreign writes, and any interleaving of *)
(* saves, polls and reloads.                                               *)
(***************************************************************************)
EXTENDS JsonFileOptionsProvider, TLAPS

Places == {"idle", "create", "write", "flush", "replace", "replacing", "move", "cleanup", "restore"}
FileType == [contents : Revisions, time : Nat, flushed : BOOLEAN]

(* The part of the state that Save is about has its type.                    *)
DiskTypeOK == /\ file \in FileType /\ temporary \in FileType /\ backup \in FileType
              /\ clock \in Nat
              /\ removed \in BOOLEAN /\ retained \in BOOLEAN /\ orphaned \in BOOLEAN
              /\ saving \in [at : Places, contents : Good \cup {Nothing}]

(* The file and the backup are whole and on the disk, or not there.          *)
KeptFiles == \A f \in {file, backup} : /\ f.flushed /\ f.contents # Torn
                                       /\ f.contents = Missing => f = NoFile

(* What the temporary file holds when Save is about to move it.              *)
TemporaryIsReady ==
  /\ saving.at # "idle" => saving.contents \in Good
  /\ saving.at = "flush" => temporary.contents \in Good
  /\ saving.at \in {"replace", "replacing", "move"} => temporary.contents \in Good /\ temporary.flushed

(* The old document stays until the new one is in place.                     *)
BackupIsKept ==
  /\ saving.at \in {"replacing", "restore"} => Whole(backup)
  /\ file = NoFile /\ ~removed => Whole(backup)
  /\ saving.at = "cleanup" /\ file = NoFile => removed

(* What Save leaves is what it reports as retained, and the temporary file   *)
(* that could not be removed.                                                *)
NothingForgotten ==
  ~retained => /\ saving.at \in {"idle", "create", "cleanup"} => temporary = NoFile \/ orphaned
               /\ saving.at \in {"idle", "create", "write", "flush", "replace", "move"} => backup = NoFile

DiskInv == DiskTypeOK /\ KeptFiles /\ TemporaryIsReady /\ BackupIsKept /\ NothingForgotten

USE ContentsAssumption

LEMMA NoFileFacts == NoFile \in FileType /\ NoFile.flushed /\ NoFile.contents = Missing
  BY DEF NoFile, FileType, Revisions

LEMMA DiskInit == Init => DiskInv
<1> SUFFICES ASSUME Init PROVE DiskInv
  OBVIOUS
<1>1. /\ file \in FileType /\ file.flushed /\ file.contents # Torn
      /\ file.contents = Missing => file = NoFile
  <2>1. CASE file = NoFile
    BY <2>1, NoFileFacts
  <2>2. CASE \E c \in Good : file = [contents |-> c, time |-> 0, flushed |-> TRUE]
    BY <2>2 DEF FileType, Contents, Revisions
  <2> QED
    BY <2>1, <2>2 DEF Init
<1>2. removed \in BOOLEAN /\ (file = NoFile => removed)
  BY DEF Init
<1>3. /\ temporary = NoFile /\ backup = NoFile /\ clock = 0 /\ ~retained /\ retained \in BOOLEAN
      /\ orphaned \in BOOLEAN
  BY DEF Init
<1>4. saving.at = "idle" /\ saving \in [at : Places, contents : Good \cup {Nothing}]
  BY DEF Init, NoSave, Places
<1> QED
  BY <1>1, <1>2, <1>3, <1>4, NoFileFacts
  DEF DiskInv, DiskTypeOK, KeptFiles, TemporaryIsReady, BackupIsKept, NothingForgotten

(* What none of these steps touches: everything but Save, others and crashes.*)
LEMMA OtherSteps ==
  ASSUME DiskInv,
         Watching \/ Apply \/ UserReloads \/ AddProvider \/ Registering \/ DropMonitor \/ UNCHANGED vars
  PROVE  DiskInv'
<1>1. UNCHANGED <<disk, saving, retained>>
  BY DEF vars, Watching, Poll, ReadSignature, Decide, StorePending, LoadActive, ExchangePending, BeginApply,
         ReleaseMonitor, WatcherExits, Apply, ApplyExists, ApplyReads, ApplyRecords, Publish,
         UserReloads, AddProvider, Registering, Activate, ReloadPending, Reject, Join, DropMonitor
<1> QED
  BY <1>1 DEF disk, DiskInv, DiskTypeOK, KeptFiles, TemporaryIsReady, BackupIsKept, NothingForgotten, Whole

(* Each step of Save.                                                        *)
LEMMA SaveSteps ==
  ASSUME DiskInv, BeginSave \/ Save
  PROVE  DiskInv'
<1> USE NoFileFacts DEF DiskInv, SaveGoes
<1>1. CASE BeginSave
  BY <1>1 DEF BeginSave, DiskTypeOK, KeptFiles, TemporaryIsReady, BackupIsKept, NothingForgotten,
              disk, Places, Whole
<1>2. CASE SaveFails
  BY <1>2 DEF SaveFails, RemovesTemporary, DiskTypeOK, KeptFiles, TemporaryIsReady, BackupIsKept, NothingForgotten,
              Places, Whole
<1>3. CASE CreateTemporary
  BY <1>3 DEF CreateTemporary, DiskTypeOK, KeptFiles, TemporaryIsReady, BackupIsKept, NothingForgotten,
              Places, Whole, FileType, Revisions
<1>4. CASE WriteTemporary
  BY <1>4 DEF WriteTemporary, DiskTypeOK, KeptFiles, TemporaryIsReady, BackupIsKept, NothingForgotten,
              Places, Whole, FileType, Revisions, Contents
<1>5. CASE FlushTemporary
  BY <1>5 DEF FlushTemporary, DiskTypeOK, KeptFiles, TemporaryIsReady, BackupIsKept, NothingForgotten,
              Places, Whole, FileType
<1>6. CASE MoveTemporary
  BY <1>6 DEF MoveTemporary, DiskTypeOK, KeptFiles, TemporaryIsReady, BackupIsKept, NothingForgotten,
              Places, Whole, Contents
<1>7. CASE BeginReplace
  BY <1>7 DEF BeginReplace, DiskTypeOK, KeptFiles, TemporaryIsReady, BackupIsKept, NothingForgotten,
              Places, Whole
<1>8. CASE EndReplace
  BY <1>8 DEF EndReplace, DiskTypeOK, KeptFiles, TemporaryIsReady, BackupIsKept, NothingForgotten,
              Places, Whole, Contents
<1>9. CASE DeleteBackup
  <2>1. /\ UNCHANGED <<file, temporary, clock, removed, orphaned>>
        /\ saving' = [saving EXCEPT !.at = "idle"]
        /\ file = NoFile => removed
        /\ ~retained => temporary = NoFile \/ orphaned
    BY <1>9 DEF DeleteBackup, BackupIsKept, NothingForgotten
  <2>2. CASE backup' = NoFile /\ UNCHANGED retained
    BY <2>1, <2>2 DEF DiskTypeOK, KeptFiles, TemporaryIsReady, BackupIsKept, NothingForgotten, Places, Whole
  <2>3. CASE retained' = TRUE /\ UNCHANGED backup
    BY <2>1, <2>3 DEF DiskTypeOK, KeptFiles, TemporaryIsReady, BackupIsKept, NothingForgotten, Places, Whole
  <2> QED
    BY <1>9, <2>2, <2>3 DEF DeleteBackup
<1>10. CASE Restore
  <2>1. CASE file = NoFile /\ file' = backup /\ backup' = NoFile /\ RemovesTemporary /\ UNCHANGED retained
    BY <1>10, <2>1 DEF Restore, RemovesTemporary, DiskTypeOK, KeptFiles, TemporaryIsReady, BackupIsKept, NothingForgotten,
                       Places, Whole
  <2>2. CASE retained' = TRUE /\ UNCHANGED <<file, backup, temporary, orphaned>>
    BY <1>10, <2>2 DEF Restore, DiskTypeOK, KeptFiles, TemporaryIsReady, BackupIsKept, NothingForgotten,
                       Places, Whole
  <2> QED
    BY <1>10, <2>1, <2>2 DEF Restore
<1> QED
  BY <1>1, <1>2, <1>3, <1>4, <1>5, <1>6, <1>7, <1>8, <1>9, <1>10 DEF Save

(* Somebody else writes or removes the file.                                 *)
LEMMA OtherWritesStep ==
  ASSUME DiskInv, OtherWrites
  PROVE  DiskInv'
<1>1. /\ file' \in FileType /\ file'.flushed /\ file'.contents # Torn
      /\ file'.contents = Missing => file' = NoFile
      /\ file' = NoFile => removed'
      /\ removed' \in BOOLEAN /\ clock' \in Nat
  <2>1. CASE /\ \E c \in Contents : file' = [contents |-> c, time |-> clock + 1, flushed |-> TRUE]
             /\ removed' = FALSE
    <3>1. PICK c \in Contents : file' = [contents |-> c, time |-> clock + 1, flushed |-> TRUE]
      BY <2>1
    <3>2. clock \in Nat /\ clock' = clock + 1
      BY DEF OtherWrites, DiskInv, DiskTypeOK
    <3>3. file'.contents = c /\ file'.flushed /\ c # Torn /\ c # Missing
      BY <3>1 DEF Contents
    <3>4. file' \in FileType
      BY <3>1, <3>2 DEF FileType, Revisions
    <3>5. file' # NoFile
      BY <3>3, NoFileFacts
    <3>6. clock' \in Nat
      BY <3>2
    <3>7. removed' \in BOOLEAN
      BY <2>1
    <3> QED
      BY <3>3, <3>4, <3>5, <3>6, <3>7
  <2>2. CASE file' = NoFile /\ removed' = TRUE
    BY <2>2, NoFileFacts DEF OtherWrites, DiskInv, DiskTypeOK
  <2> QED
    BY <2>1, <2>2 DEF OtherWrites
<1>2. UNCHANGED <<temporary, backup, saving, retained, orphaned>> /\ saving.at # "replacing"
  BY DEF OtherWrites
<1> QED
  BY <1>1, <1>2, NoFileFacts
  DEF DiskInv, DiskTypeOK, KeptFiles, TemporaryIsReady, BackupIsKept, NothingForgotten, Whole

(* A crash loses what was not on the disk, which only the temporary file is. *)
LEMMA CrashStep ==
  ASSUME DiskInv, Crash
  PROVE  DiskInv'
<1>1. /\ file \in FileType /\ temporary \in FileType /\ backup \in FileType
      /\ file.flushed /\ backup.flushed /\ NoFile.flushed
  BY NoFileFacts DEF DiskInv, DiskTypeOK, KeptFiles
<1>2. /\ file' = file /\ backup' = backup
      /\ temporary' \in FileType
      /\ temporary = NoFile => temporary' = NoFile
  <2>1. CASE UNCHANGED <<file, temporary, backup>>
    BY <1>1, <2>1
  <2>2. CASE /\ file' = AfterPowerLoss(file)
             /\ temporary' = AfterPowerLoss(temporary)
             /\ backup' = AfterPowerLoss(backup)
    <3>1. /\ file' = file /\ backup' = backup
          /\ temporary = NoFile => temporary' = temporary
      BY <1>1, <2>2 DEF AfterPowerLoss
    <3>2. temporary' \in FileType
      BY <1>1, <2>2 DEF AfterPowerLoss, FileType, Revisions
    <3> QED BY <3>1, <3>2
  <2> QED BY <2>1, <2>2 DEF Crash
<1> QED
  BY <1>2, NoFileFacts
  DEF Crash, NoSave, DiskInv, DiskTypeOK, KeptFiles, TemporaryIsReady, BackupIsKept, NothingForgotten,
      Places, Whole

LEMMA DiskStep == DiskInv /\ [Next]_vars => DiskInv'
  BY OtherSteps, SaveSteps, OtherWritesStep, CrashStep DEF Next

(* The file is a whole document at every moment, and Save cleans up behind   *)
(* it, or could not remove the temporary file: for every set of contents, on both platforms, through every sequence  *)
(* of failures, power losses and foreign writes (WriteOptionsFileNative).    *)
THEOREM SaveIsAtomicHolds == Spec => []SaveIsAtomic
<1>1. Spec => []DiskInv
  BY DiskInit, DiskStep, PTL DEF Spec
<1>2. DiskInv => SaveIsAtomic
  BY DEF DiskInv, KeptFiles, BackupIsKept, NothingForgotten, SaveIsAtomic
<1> QED
  BY <1>1, <1>2, PTL

(***************************************************************************)
(* What the watcher believes to be published.                              *)
(***************************************************************************)
WatcherPlaces == {"none", "sleep", "read", "decide", "notify", "load", "exchange", "reload",
                  "returned", "exited"}
Registrations == {"new", "apply", "activate", "exchange", "reload", "done", "reject", "join", "over"}
Read == Revisions \cup {Nothing}
Signatures == [contents : Read, time : Nat]

(* The part of the state that the watcher is about has its type.             *)
WatchTypeOK ==
  /\ watcher \in [at : WatcherPlaces, current : Signatures, previous : Signatures,
                  acknowledged : Read, needs : BOOLEAN, observed : Read, accepted : BOOLEAN]
  /\ initial \in Read \cup {"waiting"}
  /\ reader \in [by : {"none", "owner", "watch", "user"},
                 at : {"none", "exists", "open", "record", "publish"}, read : Read]
  /\ gate \in [active : BOOLEAN, pending : BOOLEAN]
  /\ registration \in Registrations

(* Who reads the file, for what.                                             *)
ReaderInv ==
  /\ reader.by = "none" => reader.at = "none"
  /\ reader.at \in {"record", "publish"} => reader.read \in Revisions
  /\ reader.by = "owner" => registration \in {"apply", "reload"}
  /\ reader.by = "watch" => watcher.at = "reload"
  /\ reader.by = "watch" /\ reader.at = "publish" => watcher.observed = reader.read
  /\ registration = "new" => reader.by = "none"

(* The initial observation waits for the first Apply of the registration, and*)
(* the watcher does nothing before it.                                       *)
InitialInv ==
  /\ initial = "waiting" => /\ registration \in {"apply", "reject", "join", "over"}
                            /\ ~(reader.by = "owner" /\ reader.at = "publish")
  /\ watcher.at \in {"notify", "load", "exchange", "reload", "returned"} => initial = Nothing

(* The watcher reloads only once the gate is open.                           *)
GateInv ==
  /\ watcher.at \in {"exchange", "reload", "returned"} => gate.active
  /\ registration \in {"new", "apply", "activate", "reject"} => ~gate.active

ObservedInv ==
  watcher.at \in {"sleep", "read", "decide", "notify", "load", "exchange"} =>
    watcher.observed = Nothing

(* Revision v is what a successful registration publishes, or was published  *)
(* and, if at all, replaced by another thread's reload.                      *)
Vouched(v) ==
  \/ registration \in {"reject", "join", "over"}
  \/ /\ registration = "apply"
     /\ reader.by = "owner" /\ reader.at = "publish" /\ reader.read = v
  \/ /\ registration \in {"activate", "exchange", "reload", "done"}
     /\ published = v \/ elsewhere

(* The revision at which a poll does nothing.                                *)
Knows(v) == \/ Acknowledged = v
            \/ Acknowledged = Nothing /\ ~watcher.needs /\ watcher.previous.contents = v

Believed == watcher.at \in {"sleep", "read", "decide"} =>
              \A v \in Revisions : Knows(v) => Vouched(v)

Reported == watcher.at = "returned" /\ watcher.accepted =>
              watcher.observed \in Revisions /\ Vouched(watcher.observed)

WatchInv == /\ WatchTypeOK /\ ReaderInv /\ InitialInv /\ GateInv /\ ObservedInv
            /\ Believed /\ Reported

LEMMA WatcherTypes ==
  ASSUME WatchTypeOK
  PROVE  /\ watcher.at \in WatcherPlaces /\ watcher.needs \in BOOLEAN
         /\ watcher.acknowledged \in Read /\ watcher.observed \in Read
         /\ watcher.current \in Signatures /\ watcher.previous \in Signatures
         /\ watcher.previous.contents \in Read /\ watcher.current.contents \in Read
         /\ Acknowledged \in Read
BY DEF WatchTypeOK, Signatures, Acknowledged, Read

LEMMA Names == Nothing \notin Revisions /\ "waiting" \notin Read
BY DEF Read, Revisions, Contents

(* The watcher's record at the end of a poll: what it keeps and what it drops.*)
WatcherRecords == [at : WatcherPlaces, current : Signatures, previous : Signatures,
                   acknowledged : Read, needs : BOOLEAN, observed : Read, accepted : BOOLEAN]

LEMMA UnreadableTyped == Unreadable \in Signatures /\ Nothing \in Read
BY DEF Unreadable, Signatures, Read

LEMMA SleepsTyped ==
  ASSUME NEW w \in WatcherRecords
  PROVE  /\ Sleeps(w) \in WatcherRecords
         /\ Sleeps(w).at = "sleep" /\ Sleeps(w).observed = Nothing
         /\ Sleeps(w).acknowledged = w.acknowledged /\ Sleeps(w).previous = w.previous
         /\ Sleeps(w).needs = w.needs
BY UnreadableTyped DEF Sleeps, WatcherRecords, WatcherPlaces

LEMMA SettlesTyped ==
  ASSUME NEW w \in WatcherRecords
  PROVE  /\ Settles(w) \in WatcherRecords
         /\ Settles(w).at = "sleep" /\ Settles(w).observed = Nothing
         /\ Settles(w).acknowledged = Nothing /\ Settles(w).previous = w.current
<1> DEFINE x == [w EXCEPT !.previous = w.current, !.acknowledged = Nothing, !.needs = FALSE]
<1>1. /\ x \in WatcherRecords
      /\ x.previous = w.current /\ x.acknowledged = Nothing
  BY UnreadableTyped DEF WatcherRecords
<1>2. Settles(w) = Sleeps(x)
  BY DEF Settles
<1> HIDE DEF x
<1> QED BY <1>1, <1>2, SleepsTyped

LEMMA WatchInit == Init => WatchInv
<1> SUFFICES ASSUME Init PROVE WatchInv
  OBVIOUS
<1>1. WatchTypeOK
  BY DEF Init, WatchTypeOK, NoWatcher, NoReader, ClosedGate, WatcherPlaces, Registrations, Read,
         Signatures, Unreadable
<1>2. watcher.at = "none" /\ initial = Nothing /\ ~gate.active /\ registration = "new"
      /\ reader.at = "none" /\ reader.by = "none"
  BY DEF Init, NoWatcher, NoReader, ClosedGate
<1> QED BY <1>1, <1>2, Names
        DEF WatchInv, ReaderInv, InitialInv, GateInv, ObservedInv, Believed, Reported, Read

(* Nothing the watcher is about changes.                                     *)
LEMMA WatchStays ==
  ASSUME WatchInv,
         UNCHANGED <<watcher, initial, reader, registration, published, elsewhere, gate>>
  PROVE  WatchInv'
BY DEF WatchInv, WatchTypeOK, ReaderInv, InitialInv, GateInv, ObservedInv, Believed, Reported,
       Knows, Vouched, Acknowledged

LEMMA WatchCrash ==
  ASSUME Crash
  PROVE  WatchInv'
<1>1. WatchTypeOK'
  BY DEF Crash, WatchTypeOK, NoWatcher, NoReader, ClosedGate, WatcherPlaces, Registrations, Read,
         Signatures, Unreadable
<1>2. watcher'.at = "none" /\ initial' = Nothing /\ ~gate'.active /\ registration' = "new"
      /\ reader'.at = "none" /\ reader'.by = "none"
  BY DEF Crash, NoWatcher, NoReader, ClosedGate
<1> QED BY <1>1, <1>2, Names
        DEF WatchInv, ReaderInv, InitialInv, GateInv, ObservedInv, Believed, Reported, Read

(***************************************************************************)
(* The steps of the watcher.                                               *)
(***************************************************************************)
(* None of them changes what vouches for a revision.                         *)
LEMMA VouchedThroughout ==
  ASSUME UNCHANGED <<reader, registration, published, elsewhere>>
  PROVE  \A v : Vouched(v)' <=> Vouched(v)
BY DEF Vouched

(* The watcher goes from place to place between two decisions.               *)
LEMMA WatchPolls ==
  ASSUME DiskInv, WatchInv, Poll \/ ReadSignature
  PROVE  WatchInv'
<1>1. /\ UNCHANGED <<initial, reader, registration, published, elsewhere, gate>>
      /\ watcher.at \in {"sleep", "read"} /\ watcher'.at \in {"read", "decide"}
      /\ watcher'.acknowledged = watcher.acknowledged /\ watcher'.needs = watcher.needs
      /\ watcher'.previous = watcher.previous /\ watcher'.observed = watcher.observed
  BY DEF Poll, ReadSignature, monitor, WatchInv, WatchTypeOK
<1>2. WatchTypeOK'
  <2>1. file.contents \in Revisions /\ file.time \in Nat
    BY DEF DiskInv, DiskTypeOK, FileType
  <2>2. /\ Signature(NoFile) \in Signatures /\ Unreadable \in Signatures
        /\ [Unreadable EXCEPT !.time = file.time] \in Signatures
        /\ [watcher.current EXCEPT !.contents = file.contents] \in Signatures
    BY <2>1, WatcherTypes
       DEF WatchInv, Signature, NoFile, Unreadable, Read, Signatures, Revisions
  <2>3. \E c \in Signatures, place \in {"read", "decide"} :
          watcher' = [watcher EXCEPT !.at = place, !.current = c]
    <3>1. CASE Poll
      BY <2>2, <3>1 DEF Poll
    <3>2. CASE ReadSignature /\ watcher' = [watcher EXCEPT !.at = "decide", !.current = Unreadable]
      BY <2>2, <3>2
    <3>3. CASE watcher' = [watcher EXCEPT !.at = "decide", !.current.contents = file.contents]
      <4>1. watcher' = [watcher EXCEPT !.at = "decide",
                          !.current = [watcher.current EXCEPT !.contents = file.contents]]
        BY <3>3 DEF WatchInv, WatchTypeOK
      <4> QED BY <2>2, <4>1
    <3> QED BY <3>1, <3>2, <3>3 DEF ReadSignature
  <2> QED BY <1>1, <2>3 DEF WatchInv, WatchTypeOK, WatcherPlaces
<1>3. Acknowledged' = Acknowledged
  BY <1>1 DEF Acknowledged
<1>4. \A v : Vouched(v)' <=> Vouched(v)
  BY <1>1, VouchedThroughout
<1>5. Believed'
  BY <1>1, <1>3, <1>4 DEF WatchInv, Believed, Knows
<1>6. ReaderInv' /\ InitialInv' /\ GateInv' /\ ObservedInv' /\ Reported'
  BY <1>1 DEF WatchInv, ReaderInv, InitialInv, GateInv, ObservedInv, Reported
<1> QED BY <1>2, <1>5, <1>6 DEF WatchInv

LEMMA WatchDecide ==
  ASSUME WatchInv, Decide
  PROVE  WatchInv'
<1>1. /\ UNCHANGED <<reader, registration, published, elsewhere, gate>>
      /\ watcher.at = "decide" /\ watcher.observed = Nothing
      /\ initial' = IF initial = "waiting" THEN "waiting" ELSE Nothing
  BY DEF Decide, monitor, WatchInv, ObservedInv
<1>2. \A v : Vouched(v)' <=> Vouched(v)
  BY <1>1, VouchedThroughout
<1>3. initial \in Read \cup {"waiting"} /\ initial' \in {"waiting", Nothing}
  BY <1>1 DEF WatchInv, WatchTypeOK
<1>4. /\ WatchTypeOK' /\ watcher'.observed = Nothing
      /\ watcher'.at \in {"sleep", "notify"}
      /\ watcher'.at = "notify" => initial' = Nothing
      /\ watcher'.at = "sleep" => \A v \in Revisions : Knows(v)' => Knows(v)
  <2>0. /\ Acknowledged \in Read /\ watcher.current \in Signatures
        /\ Acknowledged' = IF initial' \in Revisions THEN initial' ELSE watcher'.acknowledged
        /\ initial' \notin Revisions /\ Nothing \in Read
    BY <1>3, WatcherTypes, Names DEF WatchInv, Acknowledged, Read
  <2>a. /\ watcher \in WatcherRecords
        /\ watcher' \in WatcherRecords => WatchTypeOK'
    BY <1>1, <1>3, <2>0 DEF WatchInv, WatchTypeOK, WatcherRecords, Read
  <2>1. CASE initial = "waiting"
    <3>1. watcher' = Sleeps(watcher) /\ initial' = initial
      BY <1>1, <2>1 DEF Decide
    <3>2. Acknowledged' = Acknowledged
      BY <3>1 DEF Acknowledged, Sleeps, WatchInv, WatchTypeOK
    <3>a. /\ Sleeps(watcher) \in WatcherRecords
              /\ Sleeps(watcher).at = "sleep" /\ Sleeps(watcher).observed = Nothing
              /\ Sleeps(watcher).acknowledged = watcher.acknowledged
              /\ Sleeps(watcher).previous = watcher.previous
              /\ Sleeps(watcher).needs = watcher.needs
      BY <2>a, SleepsTyped
    <3>3. /\ WatchTypeOK' /\ watcher'.observed = Nothing /\ watcher'.at = "sleep"
          /\ watcher'.previous = watcher.previous /\ watcher'.needs = watcher.needs
      BY <1>1, <2>a, <3>1, <3>a
    <3> QED BY <3>2, <3>3 DEF Knows
  <2>2. CASE initial # "waiting" /\ IsAcknowledged(watcher.current)
    <3>1. watcher' = Settles(watcher)
      BY <2>2 DEF Decide, IsAcknowledged, IsPrevious
    <3>2. watcher.current.contents = Acknowledged /\ Acknowledged # Nothing
      BY <2>2 DEF IsAcknowledged, Matches
    <3>a. /\ Settles(watcher) \in WatcherRecords
              /\ Settles(watcher).at = "sleep" /\ Settles(watcher).observed = Nothing
              /\ Settles(watcher).acknowledged = Nothing
              /\ Settles(watcher).previous = watcher.current
      BY <2>a, SettlesTyped
    <3>3. /\ WatchTypeOK' /\ watcher'.observed = Nothing /\ watcher'.at = "sleep"
          /\ watcher'.acknowledged = Nothing /\ watcher'.previous = watcher.current
      BY <1>1, <2>a, <3>1, <3>a
    <3>4. Acknowledged' = Nothing
      BY <2>0, <3>3
    <3> QED BY <3>2, <3>3, <3>4, Names DEF Knows
  <2>3. CASE initial # "waiting" /\ ~IsAcknowledged(watcher.current) /\ IsPrevious(watcher.current)
    <3>1. watcher' = Sleeps(watcher)
      BY <2>3 DEF Decide
    <3>2. Acknowledged = Nothing
      BY <2>3 DEF IsPrevious
    <3>a. /\ Sleeps(watcher) \in WatcherRecords
              /\ Sleeps(watcher).at = "sleep" /\ Sleeps(watcher).observed = Nothing
              /\ Sleeps(watcher).acknowledged = watcher.acknowledged
              /\ Sleeps(watcher).previous = watcher.previous
              /\ Sleeps(watcher).needs = watcher.needs
      BY <2>a, SleepsTyped
    <3>3. /\ WatchTypeOK' /\ watcher'.observed = Nothing /\ watcher'.at = "sleep"
          /\ watcher'.acknowledged = watcher.acknowledged /\ watcher'.previous = watcher.previous
          /\ watcher'.needs = watcher.needs
      BY <1>1, <2>a, <3>1, <3>a
    <3>4. Acknowledged' = Nothing
      BY <2>0, <3>2, <3>3, Names DEF Acknowledged
    <3> QED BY <3>2, <3>3, <3>4, Names DEF Knows
  <2>4. CASE initial # "waiting" /\ ~IsAcknowledged(watcher.current) /\ ~IsPrevious(watcher.current)
    <3>1. watcher' = [watcher EXCEPT !.at = "notify", !.acknowledged = Acknowledged]
      BY <2>4 DEF Decide
    <3> QED BY <1>1, <1>3, <2>0, <2>4, <3>1 DEF WatchInv, WatchTypeOK, WatcherPlaces
  <2> QED BY <2>1, <2>2, <2>3, <2>4
<1>5. Believed'
  BY <1>1, <1>2, <1>4 DEF WatchInv, Believed
<1>6. ReaderInv' /\ InitialInv' /\ GateInv' /\ ObservedInv' /\ Reported'
  BY <1>1, <1>3, <1>4 DEF WatchInv, ReaderInv, InitialInv, GateInv, ObservedInv, Reported
<1> QED BY <1>4, <1>5, <1>6 DEF WatchInv

(* The end of a callback: a revision is known if the reload published it.    *)
LEMMA EndOfCallback ==
  ASSUME WatchInv, NEW ok \in BOOLEAN, watcher' = AfterCallback(watcher, ok),
         initial = Nothing, initial' = Nothing
  PROVE  /\ watcher' \in [at : WatcherPlaces, current : Signatures, previous : Signatures,
                          acknowledged : Read, needs : BOOLEAN, observed : Read,
                          accepted : BOOLEAN]
         /\ watcher'.at = "sleep" /\ watcher'.observed = Nothing
         /\ \A v \in Revisions : Knows(v)' => ok /\ v = watcher.observed
<1>1. Nothing \in Read /\ Unreadable \in Signatures
  BY DEF Read, Signatures, Unreadable
<1>2. /\ watcher \in [at : WatcherPlaces, current : Signatures, previous : Signatures,
                      acknowledged : Read, needs : BOOLEAN, observed : Read, accepted : BOOLEAN]
      /\ "sleep" \in WatcherPlaces
  BY DEF WatchInv, WatchTypeOK, WatcherPlaces
<1>3. Acknowledged' = watcher'.acknowledged
  BY Names DEF Acknowledged
<1>4. CASE ~ok \/ watcher.observed = Nothing
  <2>1. watcher' = Sleeps([watcher EXCEPT !.acknowledged = Nothing, !.needs = TRUE])
    BY <1>4 DEF AfterCallback
  <2>2. /\ watcher' \in [at : WatcherPlaces, current : Signatures, previous : Signatures,
                          acknowledged : Read, needs : BOOLEAN, observed : Read,
                          accepted : BOOLEAN]
        /\ watcher'.at = "sleep" /\ watcher'.observed = Nothing
        /\ watcher'.acknowledged = Nothing /\ watcher'.needs
    BY <1>1, <1>2, <2>1 DEF Sleeps
  <2> QED BY <1>3, <2>2, Names DEF Knows
<1>5. CASE ok /\ watcher.observed # Nothing /\ Matches(watcher.current, watcher.observed)
  <2>1. watcher' = Settles(watcher) /\ watcher.current.contents = watcher.observed
    BY <1>5 DEF AfterCallback, Matches
  <2>2. /\ watcher' \in [at : WatcherPlaces, current : Signatures, previous : Signatures,
                          acknowledged : Read, needs : BOOLEAN, observed : Read,
                          accepted : BOOLEAN]
        /\ watcher'.at = "sleep" /\ watcher'.observed = Nothing
        /\ watcher'.acknowledged = Nothing /\ watcher'.previous = watcher.current
    BY <1>1, <1>2, <2>1 DEF Settles, Sleeps
  <2> QED BY <1>3, <1>5, <2>1, <2>2, Names DEF Knows
<1>6. CASE ok /\ watcher.observed # Nothing /\ ~Matches(watcher.current, watcher.observed)
  <2>1. watcher' = Sleeps([watcher EXCEPT !.acknowledged = watcher.observed, !.needs = FALSE])
    BY <1>6 DEF AfterCallback
  <2>2. /\ watcher' \in [at : WatcherPlaces, current : Signatures, previous : Signatures,
                          acknowledged : Read, needs : BOOLEAN, observed : Read,
                          accepted : BOOLEAN]
        /\ watcher'.at = "sleep" /\ watcher'.observed = Nothing
        /\ watcher'.acknowledged = watcher.observed
    BY <1>1, <1>2, <2>1 DEF Sleeps
  <2> QED BY <1>3, <1>6, <2>2, Names DEF Knows
<1> QED BY <1>4, <1>5, <1>6

(* The watcher asks the monitor to reload, or is told what came of it.       *)
LEMMA WatchNotifies ==
  ASSUME WatchInv, StorePending \/ LoadActive \/ ExchangePending \/ ReleaseMonitor
  PROVE  WatchInv'
<1>1. /\ UNCHANGED <<initial, reader, registration, published, elsewhere>>
      /\ gate'.active = gate.active /\ gate' \in [active : BOOLEAN, pending : BOOLEAN]
      /\ watcher.at \in {"notify", "load", "exchange", "returned"}
      /\ watcher.at # "returned" => watcher.observed = Nothing
      /\ initial = Nothing
  BY DEF StorePending, LoadActive, ExchangePending, ReleaseMonitor, monitor, WatchInv, InitialInv,
         ObservedInv, WatchTypeOK
<1>2. \A v : Vouched(v)' <=> Vouched(v)
  BY <1>1, VouchedThroughout
<1>3. CASE /\ watcher.at = "notify" /\ watcher' = [watcher EXCEPT !.at = "load"]
  <2>1. WatchTypeOK' /\ watcher'.at = "load" /\ watcher'.observed = Nothing
    BY <1>1, <1>3 DEF WatchInv, WatchTypeOK, WatcherPlaces
  <2> QED BY <1>1, <1>3, <2>1
          DEF WatchInv, ReaderInv, InitialInv, GateInv, ObservedInv, Believed, Reported
<1>4. CASE \/ /\ watcher.at = "load" /\ gate.active
              /\ watcher' = [watcher EXCEPT !.at = "exchange"]
           \/ watcher.at = "exchange" /\ watcher' = [watcher EXCEPT !.at = "reload"]
  <2>1. WatchTypeOK' /\ watcher'.at \in {"exchange", "reload"} /\ watcher'.observed = Nothing
    BY <1>1, <1>4 DEF WatchInv, WatchTypeOK, WatcherPlaces
  <2>2. gate.active
    BY <1>4 DEF WatchInv, GateInv
  <2> QED BY <1>1, <1>4, <2>1, <2>2
          DEF WatchInv, ReaderInv, InitialInv, GateInv, ObservedInv, Believed, Reported
<1>5. ASSUME NEW ok \in BOOLEAN, watcher' = AfterCallback(watcher, ok),
             watcher.at = "returned" => ok = watcher.accepted
      PROVE  WatchInv'
  <2>1. WatchTypeOK' /\ watcher'.at = "sleep" /\ watcher'.observed = Nothing
    BY <1>1, <1>5, EndOfCallback DEF WatchInv, WatchTypeOK
  <2>2. ASSUME NEW v \in Revisions, Knows(v)' PROVE Vouched(v)
    <3>1. ok /\ v = watcher.observed
      BY <1>1, <1>5, <2>2, EndOfCallback
    <3> QED BY <1>1, <1>5, <3>1, Names DEF WatchInv, Reported
  <2>3. Believed'
    BY <1>2, <2>2 DEF Believed
  <2> QED BY <1>1, <2>1, <2>3
          DEF WatchInv, ReaderInv, InitialInv, GateInv, ObservedInv, Reported
<1>6. CASE StorePending
  BY <1>3, <1>6 DEF StorePending
<1>7. CASE LoadActive
  BY <1>4, <1>5, <1>7 DEF LoadActive
<1>8. CASE ExchangePending
  BY <1>4, <1>5, <1>8 DEF ExchangePending
<1>9. CASE ReleaseMonitor
  <2>1. watcher.accepted \in BOOLEAN /\ watcher' = AfterCallback(watcher, watcher.accepted)
    BY <1>9 DEF ReleaseMonitor, WatchInv, WatchTypeOK
  <2> QED BY <1>5, <2>1
<1> QED BY <1>6, <1>7, <1>8, <1>9

LEMMA WatchExits ==
  ASSUME WatchInv, WatcherExits
  PROVE  WatchInv'
<1>1. /\ UNCHANGED <<reader, registration, published, elsewhere, gate>>
      /\ watcher.at = "sleep" /\ initial' = Nothing
      /\ watcher'.at = "exited" /\ WatchTypeOK'
  BY DEF WatcherExits, monitor, WatchInv, WatchTypeOK, WatcherPlaces, Read
<1> QED BY <1>1, Names
        DEF WatchInv, ReaderInv, InitialInv, GateInv, ObservedInv, Believed, Reported, Read

(***************************************************************************)
(* The steps of the thread that applies the file, and of the owner.        *)
(***************************************************************************)
(* What the watcher knows does not change.                                   *)
LEMMA BelievedStays ==
  ASSUME WatchInv, watcher' = watcher, initial' = initial,
         \A v : Vouched(v) => Vouched(v)'
  PROVE  Believed' /\ Reported' /\ ObservedInv'
BY DEF WatchInv, Believed, Reported, ObservedInv, Knows, Acknowledged

LEMMA WatchBeginsApply ==
  ASSUME WatchInv, BeginApply("watch") \/ BeginApply("owner") \/ UserReloads
  PROVE  WatchInv'
<1>1. /\ UNCHANGED <<watcher, initial, registration, published, elsewhere, gate>>
      /\ reader.at = "none" /\ reader'.at = "exists" /\ reader'.by # "none"
      /\ registration # "new" \/ watcher.at = "reload"
      /\ reader'.by = "owner" => registration \in {"apply", "reload"}
      /\ reader'.by = "watch" => watcher.at = "reload"
  BY DEF BeginApply, UserReloads, ReloadsNow, watch, NoReader
<1>2. registration # "new"
  BY <1>1 DEF WatchInv, GateInv
<1>3. WatchTypeOK'
  BY <1>1 DEF BeginApply, UserReloads, WatchInv, WatchTypeOK, Read
<1>4. ReaderInv' /\ InitialInv' /\ GateInv'
  BY <1>1, <1>2 DEF WatchInv, ReaderInv, InitialInv, GateInv
<1>5. Believed' /\ Reported' /\ ObservedInv'
  BY <1>1, BelievedStays DEF Vouched
<1> QED BY <1>3, <1>4, <1>5 DEF WatchInv

(* A reload that fails publishes nothing; it ends a registration.            *)
LEMMA WatchFails ==
  ASSUME WatchInv, Fails, reader.at # "none", UNCHANGED <<initial, gate>>
  PROVE  WatchInv'
<1>1. /\ reader'.by = "none" /\ reader'.at = "none" /\ UNCHANGED <<published, elsewhere>>
      /\ \/ reader.by # "owner" /\ registration' = registration
         \/ reader.by = "owner" /\ registration = "apply" /\ registration' = "reject"
         \/ reader.by = "owner" /\ registration = "reload" /\ registration' = "done"
      /\ \/ reader.by # "watch" /\ watcher' = watcher
         \/ /\ reader.by = "watch" /\ watcher.at = "reload"
            /\ watcher'.at = "returned" /\ ~watcher'.accepted
      /\ WatchTypeOK'
  BY DEF Fails, Returns, NoReader, WatchInv, WatchTypeOK, ReaderInv, Read, WatcherPlaces,
         Registrations
<1>2. ReaderInv' /\ InitialInv' /\ GateInv'
  BY <1>1 DEF WatchInv, ReaderInv, InitialInv, GateInv
<1>3. CASE watcher' = watcher
  <2>1. \A v : Vouched(v) => Vouched(v)'
    BY <1>1 DEF Vouched
  <2> QED BY <1>1, <1>2, <1>3, <2>1, BelievedStays DEF WatchInv
<1>4. CASE watcher'.at = "returned" /\ ~watcher'.accepted
  BY <1>1, <1>2, <1>4 DEF WatchInv, Believed, Reported, ObservedInv
<1> QED BY <1>1, <1>3, <1>4

LEMMA WatchReads ==
  ASSUME DiskInv, WatchInv, ApplyExists \/ ApplyReads
  PROVE  WatchInv'
<1>1. /\ UNCHANGED <<initial, gate>> /\ reader.at \in {"exists", "open"}
      /\ Fails \/ \/ reader' = [reader EXCEPT !.at = "open"]
                  \/ \E r \in Revisions : reader' = [reader EXCEPT !.at = "record", !.read = r]
      /\ Fails \/ UNCHANGED <<watcher, registration, published, elsewhere>>
  <2>1. file.contents \in Revisions /\ Missing \in Revisions
    BY DEF DiskInv, DiskTypeOK, FileType, Revisions
  <2> QED BY <2>1 DEF ApplyExists, ApplyReads
<1>2. CASE Fails
  BY <1>1, <1>2, WatchFails
<1>3. CASE ~Fails
  <2>1. /\ WatchTypeOK' /\ reader'.by = reader.by /\ reader'.at \in {"open", "record"}
        /\ reader'.at = "record" => reader'.read \in Revisions
    BY <1>1, <1>3 DEF WatchInv, WatchTypeOK, Read
  <2>2. ReaderInv' /\ InitialInv' /\ GateInv'
    BY <1>1, <1>3, <2>1 DEF WatchInv, ReaderInv, InitialInv, GateInv
  <2>3. \A v : Vouched(v) => Vouched(v)'
    BY <1>1, <1>3 DEF Vouched
  <2> QED BY <1>1, <1>3, <2>1, <2>2, <2>3, BelievedStays DEF WatchInv
<1> QED BY <1>2, <1>3

(* The first Apply of a registration answers the initial observation with    *)
(* the revision that it will publish.                                        *)
LEMMA WatchRecords ==
  ASSUME WatchInv, ApplyRecords
  PROVE  WatchInv'
<1>1. CASE reader.read \in {Unparsable, Torn}
  BY <1>1, WatchFails DEF ApplyRecords
<1>2. CASE reader.read \notin {Unparsable, Torn}
  <2>1. /\ reader.at = "record" /\ reader' = [reader EXCEPT !.at = "publish"]
        /\ UNCHANGED <<registration, published, elsewhere, gate>>
        /\ initial' = IF reader.by = "owner" /\ initial = "waiting" THEN reader.read ELSE initial
        /\ watcher' = IF reader.by = "watch" THEN [watcher EXCEPT !.observed = reader.read]
                      ELSE watcher
    BY <1>2 DEF ApplyRecords
  <2>2. /\ reader.read \in Revisions
        /\ reader'.by = reader.by /\ reader'.at = "publish" /\ reader'.read = reader.read
    BY <2>1 DEF WatchInv, WatchTypeOK, ReaderInv
  <2>3. \A v : Vouched(v) => Vouched(v)'
    BY <2>1 DEF Vouched
  <2>4. CASE reader.by = "watch"
    <3>1. /\ watcher.at = "reload" /\ watcher'.at = "reload" /\ initial' = initial
          /\ watcher'.observed = reader.read /\ WatchTypeOK'
      BY <2>1, <2>2, <2>4 DEF WatchInv, WatchTypeOK, ReaderInv, Read
    <3> QED BY <2>1, <2>2, <2>4, <3>1
            DEF WatchInv, ReaderInv, InitialInv, GateInv, ObservedInv, Believed, Reported
  <2>5. CASE reader.by = "owner" /\ initial = "waiting"
    <3>1. /\ initial' = reader.read /\ watcher' = watcher /\ registration = "apply"
          /\ WatchTypeOK'
      BY <2>1, <2>2, <2>5 DEF WatchInv, WatchTypeOK, InitialInv, ReaderInv, Read
    <3>2. watcher.at \notin {"notify", "load", "exchange", "reload", "returned"}
      BY <2>5, Names DEF WatchInv, InitialInv, Read
    <3>3. ReaderInv' /\ InitialInv' /\ GateInv' /\ ObservedInv' /\ Reported'
      BY <2>1, <2>2, <2>5, <3>1, <3>2, Names
         DEF WatchInv, ReaderInv, InitialInv, GateInv, ObservedInv, Reported, Read
    <3>0. PICK r \in Revisions : r = reader.read
      BY <2>2
    <3>4. \A v \in Revisions : Knows(v)' => v = r
      BY <2>2, <3>0, <3>1, Names DEF Knows, Acknowledged
    <3>5. Vouched(r)'
      BY <2>1, <2>2, <2>5, <3>0, <3>1 DEF Vouched
    <3>6. Believed'
      BY <3>4, <3>5 DEF Believed
    <3> QED BY <3>1, <3>3, <3>6 DEF WatchInv
  <2>6. CASE reader.by # "watch" /\ ~(reader.by = "owner" /\ initial = "waiting")
    <3>1. initial' = initial /\ watcher' = watcher
      BY <2>1, <2>6
    <3>2. WatchTypeOK' /\ ReaderInv' /\ InitialInv' /\ GateInv'
      BY <2>1, <2>2, <2>6, <3>1 DEF WatchInv, WatchTypeOK, ReaderInv, InitialInv, GateInv
    <3> QED BY <2>3, <3>1, <3>2, BelievedStays DEF WatchInv
  <2> QED BY <2>4, <2>5, <2>6
<1> QED BY <1>1, <1>2

LEMMA WatchPublishes ==
  ASSUME WatchInv, Publish
  PROVE  WatchInv'
<1>1. CASE reader.read = Refused
  BY <1>1, WatchFails DEF Publish
<1>2. CASE reader.read # Refused
  <2>1. /\ reader.at = "publish" /\ UNCHANGED <<initial, gate>>
        /\ published' = reader.read
        /\ elsewhere' = (reader.by = "user" \/ (registration = "reload" /\ reader.by = "owner"))
        /\ reader'.by = "none" /\ reader'.at = "none"
        /\ \/ reader.by # "owner" /\ registration' = registration
           \/ reader.by = "owner" /\ registration = "apply" /\ registration' = "activate"
           \/ reader.by = "owner" /\ registration = "reload" /\ registration' = "done"
        /\ \/ reader.by # "watch" /\ watcher' = watcher
           \/ /\ reader.by = "watch" /\ watcher.at = "reload"
              /\ watcher'.at = "returned" /\ watcher'.observed = watcher.observed
        /\ WatchTypeOK'
    <3>1. /\ reader.at = "publish" /\ UNCHANGED <<initial, gate>> /\ Returns(TRUE)
          /\ published' = reader.read
          /\ elsewhere' = (reader.by = "user" \/ (registration = "reload" /\ reader.by = "owner"))
      BY <1>2 DEF Publish
    <3>2. /\ reader.by = "owner" => registration \in {"apply", "reload"}
          /\ reader.by = "watch" => watcher.at = "reload"
      BY DEF WatchInv, ReaderInv
    <3>3. WatchTypeOK'
      BY <3>1, <3>2 DEF Returns, NoReader, WatchInv, WatchTypeOK, Read, WatcherPlaces,
                        Registrations
    <3>4. /\ reader'.by = "none" /\ reader'.at = "none"
          /\ \/ reader.by # "owner" /\ registration' = registration
             \/ reader.by = "owner" /\ registration = "apply" /\ registration' = "activate"
             \/ reader.by = "owner" /\ registration = "reload" /\ registration' = "done"
          /\ \/ reader.by # "watch" /\ watcher' = watcher
             \/ /\ reader.by = "watch" /\ watcher.at = "reload"
                /\ watcher'.at = "returned" /\ watcher'.observed = watcher.observed
      BY <3>1, <3>2 DEF Returns, NoReader, WatchInv, WatchTypeOK
    <3> QED BY <3>1, <3>3, <3>4
  <2>2. ReaderInv' /\ InitialInv' /\ GateInv'
    BY <2>1 DEF WatchInv, ReaderInv, InitialInv, GateInv
  <2>3. CASE reader.by = "watch"
    <3>0. PICK r \in Revisions : r = reader.read
      BY <2>1 DEF WatchInv, ReaderInv
    <3>1. /\ watcher'.observed = r
          /\ registration' \in {"exchange", "reload", "done", "join", "over"}
      BY <2>1, <2>3, <3>0 DEF WatchInv, WatchTypeOK, ReaderInv, GateInv, Registrations
    <3>2. Vouched(r)'
      BY <2>1, <2>3, <3>0, <3>1 DEF Vouched
    <3>3. watcher'.observed \in Revisions /\ Vouched(watcher.observed)'
      BY <3>1, <3>2 DEF Vouched
    <3> QED BY <2>1, <2>2, <2>3, <3>3 DEF WatchInv, Believed, Reported, ObservedInv
  <2>4. CASE reader.by # "watch"
    <3>1. \A v : Vouched(v) => Vouched(v)'
      <4>1. reader.by \in {"none", "owner", "user"} /\ elsewhere' \in BOOLEAN
        BY <2>1, <2>4 DEF WatchInv, WatchTypeOK
      <4>2. CASE reader.by # "owner"
        <5>1. reader.by = "user"
          BY <2>1, <4>1, <4>2 DEF WatchInv, ReaderInv
        <5> QED BY <2>1, <5>1 DEF Vouched
      <4>3. CASE reader.by = "owner"
        BY <2>1, <4>3 DEF Vouched
      <4> QED BY <4>2, <4>3
    <3> QED BY <2>1, <2>2, <2>4, <3>1, BelievedStays DEF WatchInv
  <2> QED BY <2>3, <2>4
<1> QED BY <1>1, <1>2

LEMMA WatchBegins ==
  ASSUME WatchInv, AddProvider
  PROVE  WatchInv'
<1>1. /\ UNCHANGED <<reader, gate>> /\ reader.by = "none" /\ ~gate.active
      /\ registration' = "apply" /\ initial' = "waiting"
      /\ watcher'.at = "sleep" /\ watcher'.observed = Nothing /\ watcher'.acknowledged = Nothing
      /\ watcher'.previous.contents = Nothing
  BY DEF AddProvider, WatchInv, ReaderInv, GateInv, NoWatcher, Unreadable
<1>2. WatchTypeOK'
  BY <1>1 DEF AddProvider, WatchInv, WatchTypeOK, NoWatcher, Unreadable, Read, Signatures,
              WatcherPlaces, Registrations
<1>3. \A v \in Revisions : ~Knows(v)'
  BY <1>1, Names DEF Knows, Acknowledged, Read
<1> QED BY <1>1, <1>2, <1>3
        DEF WatchInv, ReaderInv, InitialInv, GateInv, ObservedInv, Believed, Reported

LEMMA WatchRegisters ==
  ASSUME WatchInv, Activate \/ ReloadPending \/ Reject \/ DropMonitor \/ Join
  PROVE  WatchInv'
<1>1. /\ UNCHANGED <<watcher, initial, reader, published, elsewhere>>
      /\ gate' \in [active : BOOLEAN, pending : BOOLEAN]
      /\ \/ registration = "activate" /\ registration' = "exchange" /\ gate'.active
         \/ /\ registration = "exchange" /\ registration' \in {"reload", "done"}
            /\ gate'.active = gate.active
         \/ registration = "reject" /\ registration' = "join" /\ gate' = gate
         \/ registration = "done" /\ registration' \in {"join", "over"} /\ gate' = gate
         \/ registration = "join" /\ registration' = "over" /\ gate' = gate
  BY DEF Activate, ReloadPending, Reject, DropMonitor, Join, watch, WatchInv, WatchTypeOK
<1>2. WatchTypeOK' /\ ReaderInv' /\ InitialInv' /\ GateInv'
  BY <1>1 DEF WatchInv, WatchTypeOK, ReaderInv, InitialInv, GateInv, Registrations
<1>3. \A v : Vouched(v) => Vouched(v)'
  BY <1>1 DEF Vouched
<1> QED BY <1>1, <1>2, <1>3, BelievedStays DEF WatchInv

LEMMA WatchStep ==
  ASSUME DiskInv, WatchInv, [Next]_vars
  PROVE  WatchInv'
<1>1. CASE OtherWrites \/ BeginSave \/ Save \/ UNCHANGED vars
  <2>1. UNCHANGED <<watch, monitor>>
    BY <1>1 DEF OtherWrites, BeginSave, Save, SaveFails, CreateTemporary, WriteTemporary,
         FlushTemporary, MoveTemporary, BeginReplace, EndReplace, DeleteBackup, Restore, vars
  <2> QED BY <2>1, WatchStays DEF watch, monitor
<1>2. CASE Watching
  BY <1>2, WatchPolls, WatchDecide, WatchNotifies, WatchBeginsApply, WatchExits DEF Watching
<1>3. CASE Apply \/ UserReloads
  BY <1>3, WatchReads, WatchRecords, WatchPublishes, WatchBeginsApply DEF Apply
<1>4. CASE AddProvider \/ Registering \/ DropMonitor
  BY <1>4, WatchBegins, WatchRegisters, WatchBeginsApply DEF Registering
<1> QED BY <1>1, <1>2, <1>3, <1>4, WatchCrash DEF Next

(* A watcher that sleeps over the file as it is has published it, or another *)
(* thread reloaded since: whatever writes, failures, crashes and reloads     *)
(* came between its polls (FileWatchState::Run, AddProvider, Reload).        *)
THEOREM NothingMissedHolds == Spec => []NothingMissed
<1>1. Spec => []DiskInv
  BY DiskInit, DiskStep, PTL DEF Spec
<1>2. Init => WatchInv
  BY WatchInit
<1>3. DiskInv /\ WatchInv /\ [Next]_vars => WatchInv'
  BY WatchStep
<1>4. DiskInv /\ WatchInv => NothingMissed
  <2> SUFFICES ASSUME DiskInv, WatchInv, Live, watcher.at = "sleep",
                      IsAcknowledged(Signature(file)) \/ IsPrevious(Signature(file))
               PROVE  published = file.contents \/ elsewhere
    BY DEF NothingMissed
  <2>1. file.contents \in Revisions /\ Signature(file).contents = file.contents
    BY DEF DiskInv, DiskTypeOK, FileType, Signature
  <2>2. Knows(file.contents)
    BY <2>1 DEF IsAcknowledged, IsPrevious, Matches, Knows
  <2>3. Vouched(file.contents)
    BY <2>1, <2>2 DEF WatchInv, Believed
  <2> QED BY <2>3 DEF Vouched, Live
<1> QED BY <1>1, <1>2, <1>3, <1>4, PTL DEF Spec
===============================================================================
