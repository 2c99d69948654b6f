----------------------------- MODULE ConfigWatch -----------------------------
(* Watching the configuration file (internal/kernel/config/watch.go and      *)
(* stable_file.go, and the Watch loops of both coordinators): an editor      *)
(* writes the file in place, block by block, or replaces it by a rename; the *)
(* watcher debounces its events; the loop takes a notification from a slot   *)
(* for one and reloads; and a reload reads the file until two samples agree. *)
EXTENDS Naturals, Sequences, FiniteSets

CONSTANTS
    Blocks,     \* blocks of a whole file (bound; 2)
    Writes,     \* how often the file is written (bound)
    Attempts    \* stableFileReadAttempts (12 in the code)

ASSUME WatchAssumption == Blocks \in Nat \ {0} /\ Writes \in Nat /\ Attempts \in Nat \ {0, 1}

VARIABLES
    disk,       \* the file, as the versions of its blocks
    stamp,      \* its modification time
    version,    \* the version written last
    editor,     \* "idle" or "writing" (in place)
    event,      \* an event of the file is in the watcher's channel
    timer,      \* the debounce timer runs
    slot,       \* the notification waiting in changes
    watch,      \* "starting", "watching", "failed" or "stopped"
    reader,     \* the load that is reading: its phase, attempt and samples
    loadedData, \* what the last load got, or "none"
    onDisk      \* every content since that load began (history)

watchVars == <<disk, stamp, version, editor, event, timer, slot, watch, reader, loadedData, onDisk>>

Whole(v) == [i \in 1..Blocks |-> v]
NoSample == [data |-> << >>, stamp |-> 0]
Idle == [phase |-> "idle", attempt |-> 0, data |-> << >>, previous |-> NoSample]
Watching == watch = "watching"

-----------------------------------------------------------------------------
(* The editor.                                                               *)
Changes(content) ==
    /\ disk' = content /\ stamp' = stamp + 1
    /\ event' = Watching
    /\ onDisk' = onDisk \cup {content}
    /\ UNCHANGED <<timer, slot, watch, reader, loadedData>>

Truncate ==
    /\ editor = "idle" /\ version < Writes
    /\ version' = version + 1 /\ editor' = "writing"
    /\ Changes(<< >>)

WriteBlock ==
    /\ editor = "writing"
    /\ editor' = IF Len(disk) + 1 = Blocks THEN "idle" ELSE "writing"
    /\ Changes(Append(disk, version)) /\ UNCHANGED version

Rename ==
    /\ editor = "idle" /\ version < Writes
    /\ version' = version + 1
    /\ Changes(Whole(version + 1)) /\ UNCHANGED editor

-----------------------------------------------------------------------------
(* watchFiles.                                                               *)
\* The directory is registered, and OnReady asks for a load at once: what
\* changed since the initial load had no event.
Register ==
    /\ watch = "starting"
    /\ \/ watch' = "watching" /\ slot' = TRUE
       \/ watch' = "failed" /\ UNCHANGED slot
    /\ UNCHANGED <<disk, stamp, version, editor, event, timer, reader, loadedData, onDisk>>

\* An event of a tracked file starts the timer, or starts it again.
TakeEvent ==
    /\ Watching /\ event
    /\ event' = FALSE /\ timer' = TRUE
    /\ UNCHANGED <<disk, stamp, version, editor, slot, watch, reader, loadedData, onDisk>>

\* Faulty: the timer's notification is dropped while a load runs.
FireUnlessBusy ==
    /\ Watching /\ timer
    /\ timer' = FALSE /\ slot' = (reader.phase = "idle")
    /\ UNCHANGED <<disk, stamp, version, editor, event, watch, reader, loadedData, onDisk>>

\* OnChange; a notification that does not fit is already there.
Fire ==
    /\ Watching /\ timer
    /\ timer' = FALSE /\ slot' = TRUE
    /\ UNCHANGED <<disk, stamp, version, editor, event, watch, reader, loadedData, onDisk>>

\* An error of the watcher, or the end of the context, ends the loop (a reload
\* that is running is canceled).
EndWatch ==
    /\ Watching
    /\ watch' \in {"failed", "stopped"}
    /\ reader' = Idle
    /\ UNCHANGED <<disk, stamp, version, editor, event, timer, slot, loadedData, onDisk>>

-----------------------------------------------------------------------------
(* The loop of Watch, and the read of a reload.                              *)
TakeChange ==
    /\ Watching /\ slot /\ reader.phase = "idle"
    /\ slot' = FALSE
    /\ reader' = [Idle EXCEPT !.phase = "read", !.attempt = 1]
    /\ onDisk' = {disk}
    /\ UNCHANGED <<disk, stamp, version, editor, event, timer, watch, loadedData>>

\* os.ReadFile reads a block at a time, up to the end it finds.
ReadBlock ==
    /\ reader.phase = "read"
    /\ LET next == Len(reader.data) + 1
       IN  reader' = IF next <= Len(disk) THEN [reader EXCEPT !.data = Append(@, disk[next])]
                     ELSE [reader EXCEPT !.phase = "stat"]
    /\ UNCHANGED <<disk, stamp, version, editor, event, timer, slot, watch, loadedData, onDisk>>

\* The sample is compared with the one before; a file that changed size while it
\* was read starts over, and so does one that differs, until Attempts are used.
Sample == [data |-> reader.data, stamp |-> stamp]
SameSample(s, t) == s = t

GivesUp(attempt) == attempt = Attempts

Stat ==
    /\ reader.phase = "stat"
    /\ LET torn == Len(reader.data) # Len(disk)
           next == [phase |-> "read", attempt |-> reader.attempt + 1, data |-> << >>,
                    previous |-> IF torn THEN NoSample ELSE Sample]
       IN  IF ~torn /\ SameSample(reader.previous, Sample)
           THEN reader' = Idle /\ loadedData' = reader.data
           ELSE /\ reader' = IF GivesUp(reader.attempt) THEN Idle ELSE next
                /\ UNCHANGED loadedData
    /\ UNCHANGED <<disk, stamp, version, editor, event, timer, slot, watch, onDisk>>

-----------------------------------------------------------------------------
\* The initial load has been done when the watch starts.
WatchInit ==
    /\ disk = Whole(0) /\ stamp = 1 /\ version = 0 /\ editor = "idle"
    /\ event = FALSE /\ timer = FALSE /\ slot = FALSE /\ watch = "starting"
    /\ reader = Idle /\ loadedData = Whole(0) /\ onDisk = {Whole(0)}

Edits == Truncate \/ WriteBlock \/ Rename
Reloads == TakeChange \/ ReadBlock \/ Stat
Observes == Register \/ TakeEvent \/ Fire

WatchNext == Edits \/ Observes \/ EndWatch \/ Reloads

WatchSpec == WatchInit /\ [][WatchNext]_watchVars

-----------------------------------------------------------------------------
(* Properties.                                                               *)
WatchTypeOK ==
    /\ disk \in Seq(0..Writes) /\ Len(disk) <= Blocks /\ version \in 0..Writes
    /\ editor \in {"idle", "writing"} /\ {event, timer, slot} \subseteq BOOLEAN
    /\ watch \in {"starting", "watching", "failed", "stopped"}
    /\ reader \in [phase : {"idle", "read", "stat"}, attempt : 0..Attempts, data : Seq(0..Writes),
                   previous : [data : Seq(0..Writes), stamp : Nat]]
    /\ stamp \in Nat /\ loadedData \in Seq(0..Writes)

\* While the modification time is the one of the last sample, what has been read
\* since is the beginning of the file.
ReadsABeginning ==
    /\ disk \in onDisk /\ stamp > 0
    /\ reader.previous.stamp <= stamp
    /\ reader.previous.stamp = stamp =>
            /\ Len(reader.data) <= Len(disk)
            /\ \A k \in 1..Len(reader.data) : reader.data[k] = disk[k]

WatchInv == WatchTypeOK /\ (editor = "writing" => Len(disk) < Blocks) /\ ReadsABeginning

\* A load never sees a mixture of two writes: what it returns was the file's
\* content at some moment of that load.
ReadsAreReal == [][loadedData' # loadedData => loadedData' \in onDisk]_watchVars

\* Once the editor is done, the last thing a load got is what the file holds,
\* unless the watch failed or was stopped: no change is lost between the first
\* load and the registration, in the debounce, in the one-slot channel, or to a
\* reader that gave up because the file kept changing.
LastChangeIsLoaded == <>[](Watching /\ editor = "idle" => loadedData = disk)

\* Both: what is loaded was on the disk, and the last of it is loaded.
ChangesAreLoaded == ReadsAreReal /\ LastChangeIsLoaded
=============================================================================
