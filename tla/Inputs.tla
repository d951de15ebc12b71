---- MODULE Inputs ----
(***************************************************************************)
(* The input plugins that fill the picture in a thread of their own:       *)
(* input_file with new or with existing files, input_testpicture,          *)
(* input_opencv and input_ptp2 (with its zoom command). Each is a loop of  *)
(* fetch, lock, fill, publish; what differs is where it can fail, what it  *)
(* holds then and who owns the memory of the picture.                      *)
(***************************************************************************)
EXTENDS SharedPicture

CONSTANT Retries  \* empty reads in a row after which ptp2 restarts the camera

ASSUME InputsAssumption == Retries \in Nat

InputKinds == {"newFiles", "existing", "testpicture", "opencv", "ptp2"}
Files      == {"newFiles", "existing"}
Causes     == {"none", "stop", "cancelled", "failed", "noMemory", "library", "gaveUp"}

VARIABLES
    input,    \* which plugin it is
    at,       \* where its thread is
    cause,    \* why it left its loop
    got,      \* the size of the picture it fetched, 0 once it is in in->buf
    empties,  \* ptp2: empty reads in a row
    control,  \* ptp2: who holds control_mutex
    zoom      \* an HTTP thread in ptp2's input_cmd

inputVars == <<input, at, cause, got, empties, control, zoom>>

InputTypeOK ==
    /\ input \in InputKinds
    /\ at \in {"test", "fetch", "preview", "lock", "fill", "publish", "quit", "clean", "gone"}
    /\ cause \in Causes
    /\ got \in 0..MaxSize
    /\ empties \in 0..Retries
    /\ control \in {"nobody", "input", "zoom"}
    /\ zoom \in {"idle", "lock", "set"}

\* input_testpicture and input_ptp2 allocate before the loop. ptp2 finds no
\* memory, or the scandir of existing files fails: the thread returns at once.
InputInit(kind) ==
    /\ input = kind
    /\ got = 0
    /\ empties = 0
    /\ control = "nobody"
    /\ zoom = "idle"
    /\ \/ /\ at = "test"
          /\ cause = "none"
          /\ db = [n |-> 0, size |-> 0,
                   mem |-> IF kind \in {"testpicture", "ptp2"} THEN "live" ELSE "null"]
       \/ /\ kind \in {"existing", "ptp2"}
          /\ at = "gone"
          /\ cause = "failed"
          /\ db = [n |-> 0, size |-> 0, mem |-> "null"]

-----------------------------------------------------------------------------
InputAt(from, to) == Alive /\ at = from /\ at' = to
KeepShared == UNCHANGED sharedVars
KeepCamera == UNCHANGED <<input, empties, control, zoom>>

\* The thread leaves its loop, or returns, for a reason.
Leave(from, to, why) == InputAt(from, to) /\ cause' = why

\* while(!pglobal->stop)
Test ==
    /\ IF stop THEN Leave("test", IF input \in Files THEN "quit" ELSE "clean", "stop")
               ELSE InputAt("test", "fetch") /\ UNCHANGED cause
    /\ UNCHANGED got
    /\ KeepShared /\ KeepCamera

\* There is a next picture: an inotify event, a directory entry with a file that
\* opens, capture.read, the next test picture. (read takes all the events that
\* are queued; only the first is looked at.)
Fetch ==
    /\ input # "ptp2"
    /\ InputAt("fetch", "lock")
    /\ got' \in Sizes
    /\ UNCHANGED cause
    /\ KeepShared /\ KeepCamera

\* continue: an event of another directory or file name, an entry that is no jpg.
Skip ==
    /\ input \in Files
    /\ InputAt("fetch", "test")
    /\ UNCHANGED <<cause, got>>
    /\ KeepShared /\ KeepCamera

\* read, open or fstat fails, the watch ends, no entry is a jpg; capture.read
\* fails.
FetchFails ==
    /\ input \in Files \cup {"opencv"}
    /\ Leave("fetch", IF input \in Files THEN "quit" ELSE "clean", "failed")
    /\ UNCHANGED got
    /\ KeepShared /\ KeepCamera

\* ptp2 locks control_mutex, the mutex its input_cmd takes.
TakeControl ==
    /\ input = "ptp2"
    /\ InputAt("fetch", "preview")
    /\ control = "nobody"
    /\ control' = "input"
    /\ UNCHANGED <<input, cause, got, empties, zoom>>
    /\ KeepShared

\* gp_camera_capture_preview; the file may turn out to be empty.
Preview ==
    /\ InputAt("preview", "lock")
    /\ got' \in 0..MaxSize
    /\ UNCHANGED cause
    /\ KeepShared /\ KeepCamera

\* CAMERA_CHECK_GP: report and return, without the cleanup handler, with
\* control_mutex held.
PreviewFails ==
    /\ Leave("preview", "gone", "library")
    /\ UNCHANGED got
    /\ KeepShared /\ KeepCamera

LockPicture ==
    /\ InputAt("lock", "fill")
    /\ Acquire("input")
    /\ UNCHANGED <<stop, waiting, db, died, cause, got>>
    /\ KeepCamera

Filled(size) == db' = [n |-> NextPicture, size |-> size, mem |-> "live"]

\* The bytes are copied: input_file into memory it has just allocated,
\* input_opencv by pointing in->buf into a vector of its thread.
Fill ==
    /\ input # "ptp2"
    /\ InputAt("fill", "publish")
    /\ Filled(got)
    /\ got' = 0
    /\ UNCHANGED <<stop, holder, waiting, died, cause>>
    /\ KeepCamera

\* input_file, malloc: the loop is left with the mutex held and buf NULL.
NoMemoryForFile ==
    /\ input \in Files
    /\ Leave("fill", "quit", "noMemory")
    /\ db' = [db EXCEPT !.mem = "null"]
    /\ UNCHANGED <<stop, holder, waiting, died, got>>
    /\ KeepCamera

\* mutant: the error path of read forgets the mutex
ReadFailsLocked ==
    /\ input \in Files
    /\ Leave("fill", "quit", "failed")
    /\ db' = [db EXCEPT !.mem = "null", !.size = 0]
    /\ UNCHANGED <<stop, holder, waiting, died, got>>
    /\ KeepCamera

\* input_file, read: buf is freed and NULL, the mutex given back, the loop left.
ReadFails ==
    /\ input \in Files
    /\ Leave("fill", "quit", "failed")
    /\ db' = [db EXCEPT !.mem = "null", !.size = 0]
    /\ Release("input")
    /\ UNCHANGED <<stop, waiting, died, got>>
    /\ KeepCamera

\* ptp2: an empty file restarts the camera and is published all the same, after
\* too many in a row the thread returns. The copy gives control_mutex back.
FillPreview ==
    /\ input = "ptp2"
    /\ InputAt("fill", "publish")
    /\ got = 0 => empties < Retries
    /\ empties' = IF got = 0 THEN empties + 1 ELSE 0
    /\ Filled(got)
    /\ control' = "nobody"
    /\ got' = 0
    /\ UNCHANGED <<stop, holder, waiting, died, input, cause, zoom>>

GiveUp ==
    /\ input = "ptp2"
    /\ got = 0
    /\ empties = Retries
    /\ Leave("fill", "gone", "gaveUp")
    /\ UNCHANGED got
    /\ KeepShared /\ KeepCamera

\* gp_file_get_data_and_size fails (both mutexes held), realloc fails (both),
\* gp_file_unref fails (in->db held).
FillPreviewFails ==
    /\ input = "ptp2"
    /\ \/ Leave("fill", "gone", "library") /\ UNCHANGED <<control, db>>
       \/ got # 0 /\ Leave("fill", "gone", "noMemory") /\ UNCHANGED <<control, db>>
       \/ /\ Leave("fill", "gone", "library")
          /\ control' = "nobody"
          /\ db' = [db EXCEPT !.n = NextPicture]
    /\ UNCHANGED <<stop, holder, waiting, died, input, got, empties, zoom>>

\* mutant: input_file unlocks and does not broadcast
PublishSilent ==
    /\ InputAt("publish", "test")
    /\ Release("input")
    /\ UNCHANGED <<stop, waiting, db, died, cause, got>>
    /\ KeepCamera

Publish ==
    /\ InputAt("publish", "test")
    /\ Broadcast
    /\ Release("input")
    /\ UNCHANGED <<stop, db, died, cause, got>>
    /\ KeepCamera

\* thread_quit: input_file frees its list of entries, a pointer that it never
\* set when it looks for new files.
FreeList ==
    /\ \/ InputAt("quit", "clean") /\ UNCHANGED died
       \/ Alive /\ at = "quit" /\ input = "newFiles" /\ Die("list") /\ UNCHANGED at
    /\ UNCHANGED <<stop, holder, waiting, db, cause, got>>
    /\ KeepCamera

\* worker_cleanup frees in->buf without the mutex and leaves the pointer; the
\* vector of input_opencv is destroyed as its thread returns.
Clean ==
    /\ InputAt("clean", "gone")
    /\ db' = IF db.mem = "live" THEN [db EXCEPT !.mem = "freed"] ELSE db
    /\ UNCHANGED <<stop, holder, waiting, died, cause, got>>
    /\ KeepCamera

\* input_stop: pthread_cancel takes effect in a system call or a sleep, with
\* whatever the thread holds there, and runs the cleanup handler.
Cancellable ==
    CASE input \in Files        -> at \in {"test", "fetch", "fill"}
      [] input = "testpicture"  -> at = "test"
      [] input = "opencv"       -> at = "fetch"
      [] input = "ptp2"         -> at \in {"test", "preview"} \/ (at = "fill" /\ got = 0)

CancelInput ==
    /\ Alive
    /\ stop
    /\ Cancellable
    /\ at' = "clean"
    /\ cause' = "cancelled"
    /\ UNCHANGED got
    /\ KeepShared /\ KeepCamera

\* input_cmd of ptp2: an HTTP thread sets the zoom under control_mutex.
ZoomKeep == UNCHANGED <<input, at, cause, got, empties>> /\ KeepShared
ZoomAsk ==
    /\ Alive
    /\ input = "ptp2"
    /\ zoom = "idle"
    /\ zoom' = "lock"
    /\ UNCHANGED control
    /\ ZoomKeep
ZoomLock ==
    /\ Alive
    /\ zoom = "lock"
    /\ control = "nobody"
    /\ control' = "zoom"
    /\ zoom' = "set"
    /\ ZoomKeep
ZoomDone ==
    /\ Alive
    /\ zoom = "set"
    /\ control' = "nobody"
    /\ zoom' = "idle"
    /\ ZoomKeep

Fetching == Fetch \/ TakeControl \/ Preview
Filling  == Fill \/ FillPreview

InputNext ==
    \/ Test \/ Fetching \/ Skip \/ FetchFails \/ PreviewFails
    \/ LockPicture \/ Filling \/ NoMemoryForFile \/ ReadFails \/ GiveUp
    \/ FillPreviewFails \/ Publish \/ FreeList \/ Clean \/ CancelInput
    \/ ZoomAsk \/ ZoomLock \/ ZoomDone
====
