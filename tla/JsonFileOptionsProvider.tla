------------------------ MODULE JsonFileOptionsProvider ------------------------
(***************************************************************************)
(* JsonFileOptionsProvider on a disk that others write too: Save replaces  *)
(* the file atomically (JsonFileOptionsProvider.cpp), Apply reads it as a  *)
(* source of an OptionsMonitor, and FileWatchState polls it and tells the  *)
(* monitor of changes through the gate of AddProvider.  A process may be   *)
(* killed, with or without a power loss, at any step, and started again;   *)
(* any system call may fail.                                               *)
(*                                                                         *)
(* A file is its contents and the time of its last write; every write gets *)
(* a time of its own.  A revision is the contents, or Missing: what the    *)
(* code knows as size and hash.  Torn stands for contents of which only a  *)
(* part is on the disk.                                                    *)
(***************************************************************************)
EXTENDS Naturals

CONSTANTS
  Good,                     (* contents the options accept                  *)
  Unparsable,               (* contents that are no JSON document           *)
  Refused,                  (* contents that the monitor's validators refuse*)
  Torn, Missing, Nothing,   (* see above; no revision at all                *)
  Optional,                 (* settings.optional                            *)
  Platforms,                (* those of the two WriteOptionsFileNative      *)
  Kinds, MaxEvents          (* which events there are, and how many (bound) *)

ASSUME BoundAssumption == /\ Optional \in BOOLEAN
                          /\ Platforms \subseteq {"posix", "windows"}
                          /\ Kinds \subseteq {"write", "save", "fault", "crash", "reload"}
                          /\ MaxEvents \in Nat
ASSUME ContentsAssumption == /\ {Torn, Missing} \cap (Good \cup {Unparsable, Refused}) = {}
                             /\ Torn # Missing
                             /\ {Nothing, "waiting"} \cap (Good \cup {Unparsable, Refused, Torn, Missing}) = {}
                             /\ Nothing # "waiting"

VARIABLES
  file, temporary, backup,  (* the disk                                     *)
  clock,                    (* the time of the latest write                 *)
  saving,                   (* the thread in Save: where, and the contents  *)
  fileLock,                 (* who holds fileMutex                          *)
  watcher,                  (* the watcher thread and its FileWatchState    *)
  initial,                  (* initialObservation and its revision          *)
  reader,                   (* the thread that has updateMutex, in Apply    *)
  gate,                     (* struct WatchGate                             *)
  registration,             (* where the owner's AddProvider is             *)
  owners,                   (* who keeps the monitor alive                  *)
  stopping,                 (* the watcher's stop token                     *)
  published,                (* the revision the monitor's value comes from  *)
  elsewhere,                (* history: another reload than the watcher's published it *)
  removed,                  (* history: somebody else removed the file      *)
  retained,                 (* history: a recovery file is left on purpose  *)
  orphaned,                 (* history: the temporary file, of which nobody is told, could not be removed *)
  events                    (* how many events there have been              *)

disk == <<file, temporary, backup, clock, removed, orphaned>>
watch == <<watcher, initial, stopping>>
monitor == <<reader, gate, registration, owners, published, elsewhere>>
vars == <<disk, saving, fileLock, watch, monitor, retained, events>>

Contents == Good \cup {Unparsable, Refused}
Revisions == Contents \cup {Missing, Torn}
NoFile == [contents |-> Missing, time |-> 0, flushed |-> TRUE]
Unreadable == [contents |-> Nothing, time |-> 0]
Signature(f) == [contents |-> f.contents, time |-> f.time]
Matches(signature, revision) == signature.contents = revision

Accepted(revision) == revision \in Good \/ (revision = Missing /\ Optional)

NoReader == [by |-> "none", at |-> "none", read |-> Nothing]
NoWatcher == [at |-> "none", current |-> Unreadable, previous |-> Unreadable,
              acknowledged |-> Nothing, needs |-> FALSE, observed |-> Nothing, accepted |-> FALSE]

NoSave == [at |-> "idle", contents |-> Nothing]
ClosedGate == [active |-> FALSE, pending |-> FALSE]

Init == /\ file \in {NoFile} \cup {[contents |-> c, time |-> 0, flushed |-> TRUE] : c \in Good}
        /\ removed = (file = NoFile)
        /\ temporary = NoFile /\ backup = NoFile
        /\ clock = 0
        /\ retained = FALSE /\ orphaned = FALSE
        /\ events = 0
        /\ saving = NoSave /\ fileLock = "none"
        /\ watcher = NoWatcher /\ initial = Nothing /\ stopping = FALSE
        /\ reader = NoReader /\ gate = ClosedGate /\ registration = "new" /\ owners = {"user"}
        /\ published = Nothing /\ elsewhere = FALSE

Event(kind) == /\ kind \in Kinds /\ events < MaxEvents
               /\ events' = events + 1
Fault == Event("fault")
Uses(lock) == fileLock = lock /\ fileLock' = "none"

-----------------------------------------------------------------------------
(* Others use the disk, and the process may end at any point.  ReplaceFileW  *)
(* keeps the file to itself while it works.                                  *)
OtherWrites ==
  /\ saving.at # "replacing"
  /\ Event("write")
  /\ clock' = clock + 1
  /\ \/ /\ \E c \in Contents : file' = [contents |-> c, time |-> clock + 1, flushed |-> TRUE]
        /\ removed' = FALSE
     \/ /\ file.contents # Missing
        /\ file' = NoFile
        /\ removed' = TRUE
  /\ UNCHANGED <<temporary, backup, orphaned, saving, fileLock, watch, monitor, retained>>

AfterPowerLoss(f) == IF f.flushed THEN f ELSE [f EXCEPT !.contents = Torn, !.flushed = TRUE]

Crash ==
  /\ Event("crash")
  /\ \/ /\ file' = AfterPowerLoss(file)
        /\ temporary' = AfterPowerLoss(temporary)
        /\ backup' = AfterPowerLoss(backup)
     \/ UNCHANGED <<file, temporary, backup>>
  /\ saving' = NoSave /\ fileLock' = "none"
  /\ watcher' = NoWatcher /\ initial' = Nothing /\ stopping' = FALSE
  /\ reader' = NoReader /\ gate' = ClosedGate /\ registration' = "new" /\ owners' = {"user"}
  /\ published' = Nothing /\ elsewhere' = FALSE
  /\ retained' = (retained \/ temporary # NoFile \/ backup # NoFile)
  /\ UNCHANGED <<clock, removed, orphaned>>

-----------------------------------------------------------------------------
(* Save: the two forms of WriteOptionsFileNative.                            *)
SaveGoes(place) == saving' = [saving EXCEPT !.at = place]

BeginSave ==
  /\ saving.at = "idle" /\ fileLock = "none"
  /\ Event("save")
  /\ fileLock' = "save"
  /\ \E c \in Good : saving' = [at |-> "create", contents |-> c]
  /\ UNCHANGED <<disk, watch, monitor, retained>>

(* The end of TemporaryPathGuard removes the temporary file, or cannot, and  *)
(* ignores that: no error tells of the file that stays.                      *)
RemovesTemporary == \/ temporary' = NoFile /\ UNCHANGED orphaned
                    \/ temporary # NoFile /\ orphaned' = TRUE /\ UNCHANGED temporary

SaveFails ==
  /\ saving.at \in {"create", "write", "flush", "replace", "move"}
  /\ Fault
  /\ SaveGoes("idle") /\ Uses("save")
  /\ IF saving.at = "create" THEN UNCHANGED <<temporary, orphaned>> ELSE RemovesTemporary
  /\ UNCHANGED <<file, backup, clock, removed, watch, monitor, retained>>

(* Its name is its own: what another Save left behind is no longer looked at.*)
CreateTemporary ==
  /\ saving.at = "create"
  /\ SaveGoes("write")
  /\ temporary' = [contents |-> Torn, time |-> clock, flushed |-> FALSE]
  /\ orphaned' = FALSE
  /\ UNCHANGED <<file, backup, clock, removed, fileLock, watch, monitor, retained, events>>

WriteTemporary ==
  /\ saving.at = "write"
  /\ SaveGoes("flush")
  /\ clock' = clock + 1
  /\ temporary' = [contents |-> saving.contents, time |-> clock + 1, flushed |-> FALSE]
  /\ UNCHANGED <<file, backup, removed, orphaned, fileLock, watch, monitor, retained, events>>

SkipsFlush ==
  /\ saving.at = "flush"
  /\ \E platform \in Platforms :
       SaveGoes(IF platform = "windows" /\ file # NoFile THEN "replace" ELSE "move")
  /\ UNCHANGED <<disk, fileLock, watch, monitor, retained, events>>

FlushTemporary ==
  /\ saving.at = "flush"
  /\ temporary' = [temporary EXCEPT !.flushed = TRUE]
  /\ \E platform \in Platforms :
       SaveGoes(IF platform = "windows" /\ file # NoFile THEN "replace" ELSE "move")
  /\ UNCHANGED <<file, backup, clock, removed, orphaned, fileLock, watch, monitor, retained, events>>

(* rename, or MoveFileExW onto a file that is not there.                     *)
MoveTemporary ==
  /\ saving.at = "move"
  /\ file' = temporary /\ temporary' = NoFile /\ removed' = FALSE
  /\ SaveGoes("idle") /\ Uses("save")
  /\ UNCHANGED <<backup, clock, orphaned, watch, monitor, retained, events>>

(* ReplaceFileW makes the old file the backup, then moves the new one in;    *)
(* it finds no file when somebody removed it meanwhile.                      *)
BeginReplace ==
  /\ saving.at = "replace"
  /\ \/ /\ file = NoFile
        /\ SaveGoes("move")
        /\ UNCHANGED <<file, backup>>
     \/ /\ file # NoFile
        /\ backup' = file /\ file' = NoFile
        /\ SaveGoes("replacing")
  /\ UNCHANGED <<temporary, clock, removed, orphaned, fileLock, watch, monitor, retained, events>>

EndReplace ==
  /\ saving.at = "replacing"
  /\ \/ /\ file' = temporary /\ temporary' = NoFile
        /\ SaveGoes("cleanup")
        /\ UNCHANGED events
     \/ /\ Fault
        /\ SaveGoes("restore")
        /\ UNCHANGED <<file, temporary>>
  /\ UNCHANGED <<backup, clock, removed, orphaned, fileLock, watch, monitor, retained>>

DeleteBackup ==
  /\ saving.at = "cleanup"
  /\ SaveGoes("idle") /\ Uses("save")
  /\ \/ /\ backup' = NoFile
        /\ UNCHANGED <<retained, events>>
     \/ /\ Fault
        /\ retained' = TRUE
        /\ UNCHANGED backup
  /\ UNCHANGED <<file, temporary, clock, removed, orphaned, watch, monitor>>

(* The move does not replace a file that somebody has written meanwhile.     *)
Restore ==
  /\ saving.at = "restore"
  /\ SaveGoes("idle") /\ Uses("save")
  /\ \/ /\ file = NoFile
        /\ file' = backup /\ backup' = NoFile
        /\ RemovesTemporary
        /\ UNCHANGED <<retained, events>>
     \/ /\ IF file = NoFile THEN Fault ELSE UNCHANGED events
        /\ retained' = TRUE
        /\ UNCHANGED <<file, backup, temporary, orphaned>>
  /\ UNCHANGED <<clock, removed, watch, monitor>>

Save == \/ SaveFails \/ CreateTemporary \/ WriteTemporary \/ FlushTemporary \/ MoveTemporary
        \/ BeginReplace \/ EndReplace \/ DeleteBackup \/ Restore

-----------------------------------------------------------------------------
(* The watcher: FileWatchState::Run.                                         *)
Poll ==
  /\ watcher.at = "sleep" /\ ~stopping
  /\ fileLock = "none"
  /\ \/ /\ file = NoFile
        /\ watcher' = [watcher EXCEPT !.at = "decide", !.current = Signature(NoFile)]
        /\ UNCHANGED fileLock
     \/ /\ file # NoFile
        /\ watcher' = [watcher EXCEPT !.at = "read", !.current = [Unreadable EXCEPT !.time = file.time]]
        /\ fileLock' = "watch"
  /\ UNCHANGED <<disk, saving, initial, stopping, monitor, retained, events>>

(* The file may be another one by now, or gone.                              *)
ReadSignature ==
  /\ watcher.at = "read"
  /\ Uses("watch")
  /\ \/ /\ file # NoFile
        /\ watcher' = [watcher EXCEPT !.at = "decide", !.current.contents = file.contents]
        /\ UNCHANGED events
     \/ /\ IF file = NoFile THEN UNCHANGED events ELSE Fault
        /\ watcher' = [watcher EXCEPT !.at = "decide", !.current = Unreadable]
  /\ UNCHANGED <<disk, saving, initial, stopping, monitor, retained>>

Acknowledged == IF initial \in Revisions THEN initial ELSE watcher.acknowledged
Sleeps(w) == [w EXCEPT !.at = "sleep", !.current = Unreadable, !.observed = Nothing, !.accepted = FALSE]
KeepsNeeding(w) ==
  Sleeps([w EXCEPT !.previous = w.current, !.acknowledged = Nothing])
Settles(w) == Sleeps([w EXCEPT !.previous = w.current, !.acknowledged = Nothing, !.needs = FALSE])

(* What a poll does with the signature it has read.                          *)
IsAcknowledged(current) == Acknowledged # Nothing /\ Matches(current, Acknowledged)
IsPrevious(current) == Acknowledged = Nothing /\ ~watcher.needs /\ current = watcher.previous

Decide ==
  /\ watcher.at = "decide"
  /\ initial' = IF initial = "waiting" THEN "waiting" ELSE Nothing
  /\ watcher' = CASE initial = "waiting" -> Sleeps(watcher)
                  [] initial # "waiting" /\ IsAcknowledged(watcher.current) -> Settles(watcher)
                  [] initial # "waiting" /\ IsPrevious(watcher.current) -> Sleeps(watcher)
                  [] OTHER -> [watcher EXCEPT !.at = "notify", !.acknowledged = Acknowledged]
  /\ UNCHANGED <<disk, saving, fileLock, stopping, monitor, retained, events>>

(* The end of a callback.                                                    *)
ForgetsFailure(w, ok) == IF ok /\ w.observed # Nothing
                         THEN Sleeps([w EXCEPT !.acknowledged = w.observed, !.needs = FALSE])
                         ELSE Settles(w)

AfterCallback(w, ok) ==
  CASE ~ok \/ w.observed = Nothing -> Sleeps([w EXCEPT !.acknowledged = Nothing, !.needs = TRUE])
    [] ok /\ w.observed # Nothing /\ Matches(w.current, w.observed) -> Settles(w)
    [] OTHER -> Sleeps([w EXCEPT !.acknowledged = w.observed, !.needs = FALSE])

(* WatchGate::Notify and ReloadPending on the watcher thread.                *)
StorePending ==
  /\ watcher.at = "notify"
  /\ gate' = [gate EXCEPT !.pending = TRUE]
  /\ watcher' = [watcher EXCEPT !.at = "load"]
  /\ UNCHANGED <<disk, saving, fileLock, initial, stopping, reader, registration, owners,
                 published, elsewhere, retained, events>>

LoadActive ==
  /\ watcher.at = "load"
  /\ watcher' = IF gate.active THEN [watcher EXCEPT !.at = "exchange"] ELSE AfterCallback(watcher, FALSE)
  /\ UNCHANGED <<disk, saving, fileLock, initial, stopping, monitor, retained, events>>

ExchangePending ==
  /\ watcher.at = "exchange"
  /\ gate' = [gate EXCEPT !.pending = FALSE]
  /\ CASE ~gate.pending -> watcher' = AfterCallback(watcher, TRUE) /\ UNCHANGED owners
       [] gate.pending /\ owners = {} -> watcher' = AfterCallback(watcher, FALSE) /\ UNCHANGED owners
       [] OTHER -> watcher' = [watcher EXCEPT !.at = "reload"] /\ owners' = owners \cup {"watch"}
  /\ UNCHANGED <<disk, saving, fileLock, initial, stopping, reader, registration,
                 published, elsewhere, retained, events>>

(* The watcher may be the last owner: the monitor's subscription then stops  *)
(* it from its own thread, which detaches instead of joining.                *)
JoinsItself ==
  /\ watcher.at = "returned"
  /\ owners' = owners \ {"watch"}
  /\ stopping' = (stopping \/ owners' = {})
  /\ watcher' = IF owners' = {} THEN [watcher EXCEPT !.at = "joining"] ELSE AfterCallback(watcher, watcher.accepted)
  /\ UNCHANGED <<disk, saving, fileLock, initial, reader, gate, registration,
                 published, elsewhere, retained, events>>

ReleaseMonitor ==
  /\ watcher.at = "returned"
  /\ owners' = owners \ {"watch"}
  /\ stopping' = (stopping \/ owners' = {})
  /\ watcher' = AfterCallback(watcher, watcher.accepted)
  /\ UNCHANGED <<disk, saving, fileLock, initial, reader, gate, registration,
                 published, elsewhere, retained, events>>

WatcherExits ==
  /\ watcher.at = "sleep" /\ stopping
  /\ watcher' = [watcher EXCEPT !.at = "exited"]
  /\ initial' = Nothing
  /\ UNCHANGED <<disk, saving, fileLock, stopping, monitor, retained, events>>

-----------------------------------------------------------------------------
(* Apply and the publication after it, by the thread that has updateMutex.   *)
ReloadsNow(thread) == \/ thread = "watch" /\ watcher.at = "reload"
                      \/ thread = "owner" /\ registration \in {"apply", "reload"}
BeginApply(thread) ==
  /\ reader = NoReader /\ ReloadsNow(thread)
  /\ reader' = [by |-> thread, at |-> "exists", read |-> Nothing]
  /\ UNCHANGED <<disk, saving, fileLock, watch, gate, registration, owners, published, elsewhere,
                 retained, events>>

UserReloads ==
  /\ reader = NoReader /\ registration \in {"activate", "exchange", "done"} /\ "user" \in owners
  /\ Event("reload")
  /\ reader' = [by |-> "user", at |-> "exists", read |-> Nothing]
  /\ UNCHANGED <<disk, saving, fileLock, watch, gate, registration, owners, published, elsewhere, retained>>

(* What the thread makes of the result.                                      *)
Returns(ok) ==
  /\ reader' = NoReader
  /\ registration' = IF reader.by # "owner" THEN registration
                     ELSE IF registration = "reload" THEN "done"
                     ELSE IF ok THEN "activate" ELSE "reject"
  /\ watcher' = IF reader.by = "watch" THEN [watcher EXCEPT !.at = "returned", !.accepted = ok]
                ELSE watcher

Fails == /\ Returns(FALSE)
         /\ UNCHANGED <<published, elsewhere>>

(* A file that is gone is no document; a failed call is an error.            *)
ApplyExists ==
  /\ reader.at = "exists" /\ fileLock = "none"
  /\ \/ /\ file # NoFile
        /\ reader' = [reader EXCEPT !.at = "open"]
        /\ fileLock' = "apply"
        /\ UNCHANGED <<registration, watcher, published, elsewhere, events>>
     \/ /\ file = NoFile /\ Optional
        /\ reader' = [reader EXCEPT !.at = "record", !.read = Missing]
        /\ UNCHANGED <<fileLock, registration, watcher, published, elsewhere, events>>
     \/ /\ IF file = NoFile /\ ~Optional THEN UNCHANGED events ELSE Fault
        /\ Fails
        /\ UNCHANGED fileLock
  /\ UNCHANGED <<disk, saving, initial, stopping, gate, owners, retained>>

ApplyReads ==
  /\ reader.at = "open"
  /\ Uses("apply")
  /\ \/ /\ file # NoFile \/ Optional
        /\ reader' = [reader EXCEPT !.at = "record", !.read = file.contents]
        /\ UNCHANGED <<registration, watcher, published, elsewhere, events>>
     \/ /\ IF file = NoFile /\ ~Optional THEN UNCHANGED events ELSE Fault
        /\ Fails
  /\ UNCHANGED <<disk, saving, initial, stopping, gate, owners, retained>>

(* DeserializeOptionsInto, then Record for the observations of this thread:  *)
(* the initial one keeps its first revision, the callback's its last.        *)
ApplyRecords ==
  /\ reader.at = "record"
  /\ IF reader.read \in {Unparsable, Torn}
     THEN Fails /\ UNCHANGED initial
     ELSE /\ reader' = [reader EXCEPT !.at = "publish"]
          /\ initial' = IF reader.by = "owner" /\ initial = "waiting" THEN reader.read ELSE initial
          /\ watcher' = IF reader.by = "watch" THEN [watcher EXCEPT !.observed = reader.read] ELSE watcher
          /\ UNCHANGED <<registration, published, elsewhere>>
  /\ UNCHANGED <<disk, saving, fileLock, stopping, gate, owners, retained, events>>

Publish ==
  /\ reader.at = "publish"
  /\ IF reader.read = Refused
     THEN Fails
     ELSE /\ published' = reader.read
          /\ elsewhere' = (reader.by = "user" \/ (registration = "reload" /\ reader.by = "owner"))
          /\ Returns(TRUE)
  /\ UNCHANGED <<disk, saving, fileLock, initial, stopping, gate, owners, retained, events>>

Apply == ApplyExists \/ ApplyReads \/ ApplyRecords \/ Publish

-----------------------------------------------------------------------------
(* The owner: AddProvider, and the end of the monitor.                       *)
AddProvider ==
  /\ registration = "new"
  /\ registration' = "apply"
  /\ initial' = "waiting"
  /\ watcher' = [NoWatcher EXCEPT !.at = "sleep"]
  /\ UNCHANGED <<disk, saving, fileLock, stopping, reader, gate, owners, published, elsewhere, retained, events>>

Activate ==
  /\ registration = "activate"
  /\ gate' = [gate EXCEPT !.active = TRUE]
  /\ registration' = "exchange"
  /\ UNCHANGED <<disk, saving, fileLock, watch, reader, owners, published, elsewhere, retained, events>>

ReloadPending ==
  /\ registration = "exchange"
  /\ gate' = [gate EXCEPT !.pending = FALSE]
  /\ registration' = IF gate.pending THEN "reload" ELSE "done"
  /\ UNCHANGED <<disk, saving, fileLock, watch, reader, owners, published, elsewhere, retained, events>>

(* OptionsSubscription::Reset of a rejected registration: stop, then join.   *)
Reject ==
  /\ registration = "reject"
  /\ stopping' = TRUE
  /\ registration' = "join"
  /\ UNCHANGED <<disk, saving, fileLock, watcher, initial, reader, gate, owners, published, elsewhere, retained, events>>

DropMonitor ==
  /\ registration = "done" /\ reader.by # "user"
  /\ owners' = owners \ {"user"}
  /\ stopping' = (owners' = {})
  /\ registration' = IF owners' = {} THEN "join" ELSE "over"
  /\ UNCHANGED <<disk, saving, fileLock, watcher, initial, reader, gate, published, elsewhere, retained, events>>

Join ==
  /\ registration = "join" /\ watcher.at = "exited"
  /\ registration' = "over"
  /\ UNCHANGED <<disk, saving, fileLock, watch, reader, gate, owners, published, elsewhere, retained, events>>

Watching == Poll \/ ReadSignature \/ Decide \/ StorePending \/ LoadActive \/ ExchangePending
            \/ BeginApply("watch") \/ ReleaseMonitor \/ WatcherExits
Registering == Activate \/ ReloadPending \/ BeginApply("owner") \/ Reject \/ Join

Next == \/ OtherWrites \/ Crash \/ BeginSave \/ Save
        \/ Watching \/ Apply \/ UserReloads
        \/ AddProvider \/ Registering \/ DropMonitor

(* Threads of a process that lives keep running.  Nobody has to save, to     *)
(* write, or to call AddProvider.                                            *)
Spec == Init /\ [][Next]_vars
        /\ WF_vars(Save) /\ WF_vars(Watching) /\ WF_vars(Apply) /\ WF_vars(Registering)

-----------------------------------------------------------------------------
Live == registration = "done"
Whole(f) == f.contents \notin {Missing, Torn}

(* No step, failure or power loss leaves a part of a document under the      *)
(* file's name; while the file is missing, and nobody else removed it, a     *)
(* whole document is beside it; a Save that returns leaves no backup but one *)
(* it reports as retained, and no temporary file but one it reports, or that *)
(* could not be removed after a failure (WriteOptionsFileNative).            *)
SaveIsAtomic == /\ file.contents # Torn
                /\ file = NoFile /\ ~removed => Whole(backup)
                /\ saving.at = "idle" /\ ~retained
                     => backup = NoFile /\ (temporary = NoFile \/ orphaned)

(* A watcher that would sleep over the file as it is now has published it,   *)
(* unless a reload on another thread came last (FileWatchState::Run).        *)
NothingMissed ==
  Live /\ watcher.at = "sleep" /\ initial # "waiting"
  /\ (IsAcknowledged(Signature(file)) \/ IsPrevious(Signature(file)))
    => published = file.contents \/ elsewhere

(* The same without the exception: what a poll acknowledges is what is       *)
(* published (FileWatchState::Run, "that exact successfully published        *)
(* content").                                                                *)
AcknowledgedIsPublished ==
  Live /\ watcher.at = "sleep" /\ initial # "waiting"
  /\ (IsAcknowledged(Signature(file)) \/ IsPrevious(Signature(file)))
    => published = file.contents

(* A provider that stays registered ends up with what the file says, once    *)
(* nobody writes it, as long as the options accept it.                       *)
Converges == <>[](Live /\ Accepted(file.contents) => published = file.contents \/ elsewhere)

(* It then stops reloading: the watcher only polls.                          *)
ReloadsEnd == <>[](Live /\ Accepted(file.contents) => watcher.at \in {"sleep", "read", "decide"})

(* Together: the watcher comes to rest, and at the right value.              *)
SettlesOnFile == Converges /\ ReloadsEnd

(* A registration that is rejected, and a monitor that is dropped, on any    *)
(* thread, end the watcher, and nobody waits for it forever (Stop).          *)
WatcherEnds == /\ registration \in {"reject", "join"} ~> registration \in {"over", "new"}
               /\ owners = {} ~> watcher.at = "exited" \/ registration = "new"
=============================================================================
