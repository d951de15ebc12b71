---- MODULE UvcCamera ----
(***************************************************************************)
(* The camera behind input_uvc: the open V4L2 device, its mapped driver    *)
(* buffers and the memory a picture is copied to (struct vdIn), the camera *)
(* thread that takes pictures from it, and the HTTP threads whose commands *)
(* set a control or the resolution. setResolution closes the device and    *)
(* opens it again. No lock is taken: streamingState is set to              *)
(* STREAMING_PAUSED, and the camera thread looks at it once per round.     *)
(*                                                                         *)
(* A resolution is the number of units of memory a picture of it may need. *)
(* What happens to a picture once it is published is in FrameBuffer.       *)
(***************************************************************************)
EXTENDS Integers

CONSTANTS
    Commanders,  \* HTTP threads that run input_cmd
    Cam,         \* the camera thread
    MaxSize,     \* resolutions are numbered by their size
    Start,       \* the resolution the program was started with
    DvTimings,   \* option -dv_timings: the source of the picture may change
    Controls,    \* V4L2 controls with a value of their own
    First,       \* the control at in_parameters[0]
    UserClass,   \* the controls of V4L2_CTRL_CLASS_USER
    MaxValue     \* a control's largest value; one more is out of range

Sizes    == 1..MaxSize
Changers == Commanders \cup {Cam}

ASSUME UvcCameraAssumption ==
    /\ Cam \notin Commanders
    /\ MaxSize \in Nat
    /\ Start \in Sizes
    /\ DvTimings \in BOOLEAN
    /\ First \in Controls
    /\ UserClass \subseteq Controls
    /\ MaxValue \in Nat

VARIABLES
    stop,       \* pglobal->stop
    cancelled,  \* input_stop has cancelled the camera thread
    harm,       \* the first access to memory or a file not there, or "none"
    topic,      \* what this behaviour's commands are about
    vd,         \* pctx->videoIn and what it refers to
    camPc,      \* where the camera thread is
    picture,    \* the size of the picture in the dequeued buffer
    bufCap,     \* the size in->buf was allocated with
    job,        \* where each thread is in a command
    overlap,    \* a change began beside another thread's use (history)
    failed,     \* a change of the resolution has failed (history)
    given,      \* the last value of each user control that the driver took
    cached,     \* in_parameters[].value, which control.htm shows
    unsure      \* controls that could not be read, or that two commands set at once

camVars     == <<camPc, picture, bufCap>>
historyVars == <<overlap, failed>>
controlVars == <<given, cached, unsure>>
vars == <<stop, cancelled, harm, topic, vd, camVars, job, historyVars, controlVars>>

Streaming == {"off", "on", "paused"}
ResolutionSteps == {"disable", "unmap", "close", "open", "configure",
                    "release", "allocate", "enable"}
ControlSteps == {"set", "cache", "first"}
NoJob == [at |-> "idle", to |-> 0, control |-> First]

TypeOK ==
    /\ stop \in BOOLEAN
    /\ cancelled \in BOOLEAN
    /\ harm \in {"none", "freed", "unmapped", "frame", "closed", "unmapping", "buf"}
    /\ topic \in {"resolution", "control"}
    /\ vd \in [live : BOOLEAN, state : Streaming, open : BOOLEAN, on : BOOLEAN,
               mapped : BOOLEAN, want : Sizes, format : Sizes, frame : 0..MaxSize]
    /\ camPc \in {"enable", "test", "paused", "select", "grab", "copy", "publish",
                  "events", "change", "cleanup", "gone"}
    /\ picture \in 0..MaxSize
    /\ bufCap \in {0, Start}
    /\ job \in [Changers -> [at : {"idle"} \cup ResolutionSteps \cup ControlSteps,
                             to : 0..MaxSize + MaxValue + 1, control : Controls]]
    /\ overlap \in BOOLEAN
    /\ failed \in BOOLEAN
    /\ given \in [UserClass -> 0..MaxValue]
    /\ cached \in [Controls -> 0..MaxValue + 1]
    /\ unsure \in SUBSET Controls

\* What init_videoIn leaves: the device is open and its buffers are mapped and
\* queued, the stream is off.
Opened == [live |-> TRUE, state |-> "off", open |-> TRUE, on |-> FALSE, mapped |-> TRUE,
           want |-> Start, format |-> Start, frame |-> Start]

\* control_readed: the value of every control is read once. One that cannot be
\* read counts as 0.
ControlsRead ==
    /\ given \in [UserClass -> 0..MaxValue]
    /\ unsure \in SUBSET UserClass
    /\ cached \in [Controls -> 0..MaxValue]
    /\ \A c \in UserClass : cached[c] = IF c \in unsure THEN 0 ELSE given[c]

\* After input_init and input_run. An output may take commands already.
Init ==
    /\ stop = FALSE
    /\ cancelled = FALSE
    /\ harm = "none"
    /\ topic \in {"resolution", "control"}
    /\ vd = Opened
    /\ camPc = "enable"
    /\ picture = 0
    /\ bufCap = Start
    /\ job = [t \in Changers |-> NoJob]
    /\ overlap = FALSE
    /\ failed = FALSE
    /\ ControlsRead
    /\ topic = "resolution" => unsure = {} /\ cached = [c \in Controls |-> 0]

Harmed(kind) == harm' = kind /\ UNCHANGED <<stop, cancelled, topic, vd, camVars,
                                            job, historyVars, controlVars>>

-----------------------------------------------------------------------------
(* setResolution, by a commander or by the camera thread itself.           *)

Changing(t) == job[t].at \in ResolutionSteps

\* The camera thread is between two looks at streamingState.
CamBusy == camPc \in {"enable", "select", "grab", "copy", "publish"}

\* A step of a command: it needs the struct vdIn cam_cleanup frees.
Step(t, from) ==
    /\ harm = "none"
    /\ job[t].at = from
    /\ vd.live
    /\ UNCHANGED <<stop, cancelled, topic, bufCap, picture, controlVars>>

Continue(t, to) ==
    /\ job' = [job EXCEPT ![t].at = to]
    /\ UNCHANGED <<camPc, harm, historyVars>>

\* setResolution returns. A camera thread whose own change failed leaves.
Return(t, result) ==
    /\ job' = [job EXCEPT ![t] = NoJob]
    /\ failed' = (failed \/ result = -1)
    /\ camPc' = IF t # Cam THEN camPc ELSE IF result = 0 THEN "test" ELSE "cleanup"
    /\ UNCHANGED <<harm, overlap>>

\* A thread goes wrong in a step it cannot undo.
Bad(kind) == harm' = kind /\ UNCHANGED <<vd, job, camPc, historyVars>>

\* The call, and its first assignment: streamingState = STREAMING_PAUSED.
Pause(t, size) ==
    /\ vd' = [vd EXCEPT !.state = "paused"]
    /\ job' = [job EXCEPT ![t] = [NoJob EXCEPT !.at = "disable", !.to = size]]
    /\ overlap' = (overlap \/ (t # Cam /\ CamBusy)
                           \/ \E u \in Changers \ {t} : Changing(u))

\* video_disable: STREAMOFF fails on a closed device and may fail on an open one.
Disable(t) ==
    /\ Step(t, "disable")
    /\ \/ /\ vd.open
          /\ vd' = [vd EXCEPT !.on = FALSE, !.state = "paused"]
          /\ Continue(t, "unmap")
       \/ Return(t, -1) /\ UNCHANGED vd

\* munmap of what is mapped. After a failed change mem[] holds addresses that may
\* be somebody else's by now.
Unmap(t) ==
    /\ Step(t, "unmap")
    /\ \/ /\ vd' = [vd EXCEPT !.mapped = FALSE]
          /\ Continue(t, "close")
       \/ ~vd.mapped /\ Bad("unmapping")

\* CLOSE_VIDEO, whose result is logged only, and the new width and height.
Close(t) ==
    /\ Step(t, "close")
    /\ \/ /\ vd' = [vd EXCEPT !.open = FALSE, !.on = FALSE, !.want = job[t].to]
          /\ Continue(t, "open")
       \/ ~vd.open /\ Bad("closed")

\* init_v4l2 opens the device, and may find it taken, busy or unplugged. A thread
\* cancelled here (open is a cancellation point) leaves.
Open(t) ==
    /\ Step(t, "open")
    /\ \/ vd' = [vd EXCEPT !.open = TRUE] /\ Continue(t, "configure")
       \/ vd' = [vd EXCEPT !.open = FALSE] /\ Return(t, -1)

\* A device takes a format while it is open and does not stream (EBUSY).
TakesFormat == vd.open /\ ~vd.on

\* mutant: the size the driver chose is not taken over
ConfigureAsked(t) ==
    /\ Step(t, "configure")
    /\ \/ /\ TakesFormat
          /\ \E size \in Sizes : vd' = [vd EXCEPT !.format = size, !.mapped = TRUE]
          /\ Continue(t, "release")
       \/ Return(t, -1) /\ UNCHANGED vd

\* The rest of init_v4l2. The driver may set another format than the one asked
\* for, and with -dv_timings the source decides. Any of the calls up to the last
\* QBUF may fail: the device stays open.
Configure(t) ==
    /\ Step(t, "configure")
    /\ \/ /\ TakesFormat
          /\ \E size \in Sizes :
               vd' = [vd EXCEPT !.format = size, !.want = size, !.mapped = TRUE]
          /\ Continue(t, "release")
       \/ Return(t, -1) /\ UNCHANGED vd

\* free_framebuffer
Release(t) ==
    /\ Step(t, "release")
    /\ vd' = [vd EXCEPT !.frame = 0]
    /\ Continue(t, "allocate")

\* mutant: a failed init_framebuffer is not noticed
AllocateUnchecked(t) ==
    /\ Step(t, "allocate")
    /\ \/ vd' = [vd EXCEPT !.frame = vd.want]
       \/ UNCHANGED vd
    /\ Continue(t, "enable")

\* init_framebuffer
Allocate(t) ==
    /\ Step(t, "allocate")
    /\ \/ vd' = [vd EXCEPT !.frame = vd.want] /\ Continue(t, "enable")
       \/ UNCHANGED vd /\ Return(t, -1)

\* video_enable: STREAMON needs an open device with its buffers queued.
Enable(t) ==
    /\ Step(t, "enable")
    /\ \/ /\ vd.open /\ vd.mapped
          /\ vd' = [vd EXCEPT !.on = TRUE, !.state = "on"]
          /\ Return(t, 0)
       \/ UNCHANGED vd /\ Return(t, -1)

SetResolution(t) ==
    \/ Disable(t) \/ Unmap(t) \/ Close(t) \/ Open(t) \/ Configure(t)
    \/ Release(t) \/ Allocate(t) \/ Enable(t)

\* input_cmd with IN_CMD_RESOLUTION: a value beyond the last resolution is
\* refused before anything is touched, so only the others are here.
CommandResolution(t) ==
    /\ topic = "resolution"
    /\ Step(t, "idle")
    /\ \E size \in Sizes : Pause(t, size)
    /\ UNCHANGED <<camPc, harm, failed>>

\* A command for a camera whose thread has left, or leaves now: videoIn is NULL
\* or freed.
CommandHarm(t) ==
    /\ harm = "none"
    /\ topic = "resolution" \/ job[t].at = "set"
    /\ ~vd.live
    /\ Harmed("freed")

-----------------------------------------------------------------------------
(* Controls: input_cmd with IN_CMD_V4L2, and v4l2SetControl.               *)

ControlStep(t, from) ==
    /\ harm = "none"
    /\ job[t].at = from
    /\ UNCHANGED <<stop, cancelled, harm, topic, vd, camVars, historyVars>>

ByOthers(t, c) == \E u \in Changers \ {t} : job[u].at \in ControlSteps /\ job[u].control = c

\* The camera thread sets the controls its options name before it starts the
\* stream.
OptionTime == camPc = "enable"

\* A commander sets any control, at any time.
CommandControl(t) ==
    /\ topic = "control"
    /\ t = Cam => OptionTime
    /\ ControlStep(t, "idle")
    /\ \E c \in Controls, v \in 0..MaxValue + 1 :
         /\ job' = [job EXCEPT ![t] = [at |-> "set", to |-> v, control |-> c]]
         /\ unsure' = IF ByOthers(t, c) THEN unsure \cup {c} ELSE unsure
    /\ UNCHANGED <<given, cached>>

\* A value of a user control that is out of range is logged, and 0 returned. A
\* call to the driver may fail, which ends the command. The driver may make another
\* value of the one it takes: the code does not ask. A command that is alone with
\* its control makes it certain again.
SetControl(t) ==
    LET c == job[t].control
        v == job[t].to
        ranged == c \in UserClass
        Done(at) == job' = [job EXCEPT ![t].at = at]
    IN /\ ControlStep(t, "set")
       /\ vd.live
       /\ \/ /\ ranged => v <= MaxValue
             /\ given' = IF ranged THEN [given EXCEPT ![c] = v] ELSE given
             /\ unsure' = IF ByOthers(t, c) THEN unsure ELSE unsure \ {c}
             /\ Done(IF ranged THEN "cache" ELSE "first")
          \/ ranged /\ v > MaxValue /\ Done("first") /\ UNCHANGED <<given, unsure>>
          \/ /\ ranged => v <= MaxValue
             /\ job' = [job EXCEPT ![t] = NoJob]
             /\ UNCHANGED <<given, unsure>>
       /\ UNCHANGED cached

\* mutant: only input_cmd writes the value back
CacheNothing(t) ==
    /\ ControlStep(t, "cache")
    /\ job' = [job EXCEPT ![t].at = "first"]
    /\ UNCHANGED <<given, cached, unsure>>

\* v4l2SetControl keeps the value of a user control.
Cache(t) ==
    /\ ControlStep(t, "cache")
    /\ cached' = [cached EXCEPT ![job[t].control] = job[t].to]
    /\ job' = [job EXCEPT ![t].at = "first"]
    /\ UNCHANGED <<given, unsure>>

\* input_cmd keeps it again, in in_parameters[i] with an i that is always 0.
CacheFirst(t) ==
    /\ ControlStep(t, "first")
    /\ cached' = [cached EXCEPT ![First] = job[t].to]
    /\ job' = [job EXCEPT ![t] = NoJob]
    /\ UNCHANGED <<given, unsure>>

ControlNext(t) == CommandControl(t) \/ SetControl(t) \/ Cache(t) \/ CacheFirst(t)

-----------------------------------------------------------------------------
(* The camera thread.                                                      *)

CamStep(from) ==
    /\ harm = "none"
    /\ camPc = from
    /\ job[Cam] = NoJob
    /\ UNCHANGED <<stop, cancelled, topic, historyVars, controlVars>>

CamGoto(from, to) == CamStep(from) /\ camPc' = to /\ UNCHANGED <<harm, job>>

\* video_enable "in first time"
CamEnable ==
    /\ \/ /\ vd.open /\ vd.mapped
          /\ CamGoto("enable", "test")
          /\ vd' = [vd EXCEPT !.on = TRUE, !.state = "on"]
       \/ CamGoto("enable", "cleanup") /\ UNCHANGED vd
    /\ UNCHANGED <<picture, bufCap>>

\* mutant: while(1)
CamTestNothing ==
    /\ CamGoto("test", "paused")
    /\ UNCHANGED <<vd, picture, bufCap>>

\* while(!pglobal->stop)
CamTest ==
    /\ CamGoto("test", IF stop THEN "cleanup" ELSE "paused")
    /\ UNCHANGED <<vd, picture, bufCap>>

\* mutant: the paused loop spins with no cancellation point in it
CamPausedSpin ==
    /\ vd.state # "paused"
    /\ CamGoto("paused", "select")
    /\ UNCHANGED <<vd, picture, bufCap>>

\* while(streamingState == STREAMING_PAUSED) usleep(1): it does not test stop, but
\* usleep is a cancellation point.
CamPaused ==
    /\ \/ vd.state # "paused" /\ CamGoto("paused", "select")
       \/ vd.state = "paused" /\ cancelled /\ CamGoto("paused", "cleanup")
    /\ UNCHANGED <<vd, picture, bufCap>>

\* select, a cancellation point: the device is readable, or has an event; the call
\* was interrupted; it failed, as it does on a closed device; or timed out, and
\* then the thread sets the resolution again if the source may have changed.
CamSelect ==
    /\ \/ ~cancelled /\ vd.open /\ CamGoto("select", "grab") /\ UNCHANGED vd
       \/ ~cancelled /\ CamGoto("select", "events") /\ UNCHANGED vd
       \/ ~cancelled /\ CamGoto("select", "test") /\ UNCHANGED vd
       \/ CamGoto("select", "cleanup") /\ UNCHANGED vd
    /\ UNCHANGED <<picture, bufCap>>

\* setResolution with the size there is, after a timeout or for an event
\* (video_handle_event on V4L2_EVENT_SOURCE_CHANGE).
CamChange(from) ==
    /\ DvTimings
    /\ topic = "resolution"
    /\ from = "select" => ~cancelled
    /\ harm = "none"
    /\ camPc = from
    /\ job[Cam] = NoJob
    /\ camPc' = "change"
    /\ Pause(Cam, vd.want)
    /\ UNCHANGED <<stop, cancelled, harm, topic, picture, bufCap, failed, controlVars>>

\* open and close are cancellation points: the thread leaves in mid-change.
CamCancelledInChange ==
    /\ harm = "none"
    /\ cancelled
    /\ job[Cam].at \in {"close", "open"}
    /\ job' = [job EXCEPT ![Cam] = NoJob]
    /\ camPc' = "cleanup"
    /\ failed' = TRUE
    /\ UNCHANGED <<stop, cancelled, harm, topic, vd, picture, bufCap, overlap, controlVars>>

\* uvcGrab: DQBUF, of a picture of the device's format. It fails when the stream
\* is off, as it is once another thread has called STREAMOFF, and may fail anyway.
\* (Its test of STREAMING_OFF is never true here.)
CamGrab ==
    /\ \/ vd.open /\ vd.on /\ CamGoto("grab", "copy") /\ picture' = vd.format
       \/ CamGoto("grab", "cleanup") /\ UNCHANGED picture
    /\ UNCHANGED <<vd, bufCap>>

CopyHarm ==
    IF ~vd.mapped THEN "unmapped" ELSE IF vd.frame < picture THEN "frame" ELSE "none"

\* memcpy from the driver's buffer to tmpbuffer, and QBUF, which may fail. Then
\* the picture may be dropped (-every_frame, -minimum_size, -softfps).
CamCopy ==
    /\ \/ CopyHarm = "none" /\ CamGoto("copy", "publish")
       \/ CopyHarm = "none" /\ CamGoto("copy", "events")
       \/ CopyHarm = "none" /\ CamGoto("copy", "cleanup")
       \/ CopyHarm # "none" /\ CamStep("copy") /\ harm' = CopyHarm /\ UNCHANGED <<camPc, job>>
    /\ picture' = picture
    /\ UNCHANGED <<vd, bufCap>>

\* A picture is copied from tmpbuffer, or compressed from framebuffer with the
\* width and height there are now, to in->buf, which input_run allocated for the
\* resolution the program was started with.
PublishHarm(read) ==
    IF vd.frame < read THEN "frame" ELSE IF read > bufCap THEN "buf" ELSE "none"

CamPublish ==
    /\ \E read \in {picture, vd.want} :
         \/ PublishHarm(read) = "none" /\ CamGoto("publish", "events")
         \/ /\ PublishHarm(read) # "none"
            /\ CamStep("publish")
            /\ harm' = PublishHarm(read)
            /\ UNCHANGED <<camPc, job>>
    /\ UNCHANGED <<vd, picture, bufCap>>

\* No event, or not of the kind that matters.
CamNoEvent ==
    /\ CamGoto("events", "test")
    /\ picture' = 0
    /\ UNCHANGED <<vd, bufCap>>

\* cam_cleanup: close_v4l2 and the frees. It never closes the device.
CamCleanup ==
    /\ CamGoto("cleanup", "gone")
    /\ vd' = [vd EXCEPT !.live  = FALSE,
                        !.on    = IF vd.state = "on" THEN FALSE ELSE vd.on,
                        !.state = IF vd.state = "on" THEN "off" ELSE vd.state,
                        !.frame = 0]
    /\ picture' = 0
    /\ bufCap' = 0

CamNext ==
    \/ CamEnable \/ CamTest \/ CamPaused \/ CamSelect
    \/ CamChange("select") \/ CamChange("events") \/ CamCancelledInChange
    \/ CamGrab \/ CamCopy \/ CamPublish \/ CamNoEvent \/ CamCleanup

-----------------------------------------------------------------------------
\* SIGINT: signal_handler sets stop.
Stop ==
    /\ harm = "none"
    /\ ~stop
    /\ stop' = TRUE
    /\ UNCHANGED <<cancelled, harm, topic, vd, camVars, job, historyVars, controlVars>>

\* A while later signal_handler calls input_stop.
InputStop ==
    /\ harm = "none"
    /\ stop
    /\ ~cancelled
    /\ cancelled' = TRUE
    /\ UNCHANGED <<stop, harm, topic, vd, camVars, job, historyVars, controlVars>>

Next ==
    \/ CamNext
    \/ Stop
    \/ InputStop
    \/ \E t \in Changers : SetResolution(t) \/ ControlNext(t)
    \/ \E t \in Commanders : CommandResolution(t) \/ CommandHarm(t)

Spec == Init /\ [][Next]_vars

\* Every thread that can take a step takes it; select comes back, if only by its
\* timeout, and the options come to an end. Nobody is obliged to send a command
\* or to stop the program.
FairSpec ==
    /\ Spec
    /\ WF_vars(CamNext)
    /\ SF_vars(CamEnable)
    /\ \A t \in Changers :
         WF_vars(SetResolution(t) \/ SetControl(t) \/ Cache(t) \/ CacheFirst(t))

-----------------------------------------------------------------------------
Quiet == \A t \in Changers : ~Changing(t)

\* setResolution relies on STREAMING_PAUSED alone. It is enough for a change that
\* begins while the camera thread is outside select, grab, copy and publish and
\* nobody else changes the resolution: then no thread touches a buffer that is not
\* mapped, memory too small for the picture, or a device that is closed. What is
\* left is the addresses a failed change leaves behind, and videoIn, which the
\* camera thread frees as it ends. (in->buf is another matter: it stays as it was
\* allocated, and a larger picture overruns it.) And the variables have their types.
OnlyOverlapsHarm ==
    /\ TypeOK
    /\ harm \in {"unmapped", "frame", "closed"} => overlap
    /\ harm = "unmapping" => overlap \/ failed

\* A change of the resolution is all or nothing: whenever the state says that
\* pictures are streaming and nobody is changing it, the device is open and
\* streams, its buffers are mapped, and the memory is the size of its pictures.
\* A change that failed half way leaves the state at STREAMING_PAUSED.
StreamsWhole ==
    vd.state = "on" /\ Quiet /\ ~overlap =>
        /\ vd.open /\ vd.on /\ vd.mapped
        /\ vd.frame = vd.format /\ vd.want = vd.format

\* What control.htm shows of a user control is the last value the driver took for
\* it (which is what the camera has, unless the driver made another value of it).
\* Except for the control at in_parameters[0], which input_cmd overwrites with the
\* value of every other, and one that could not be read or that two clients set at
\* the same time, until a command that is alone with it succeeds.
ControlsShown ==
    \A c \in UserClass \ ({First} \cup unsure) :
        (\A t \in Changers : job[t].at = "cache" => job[t].control # c)
            => cached[c] = given[c]

\* input_stop ends the camera thread wherever it is, also when a failed change of
\* the resolution has left it in the paused loop.
CancelEnds == cancelled ~> camPc = "gone" \/ harm # "none"

\* global.stop alone ends it too, unless the stream stays paused or is paused
\* again and again: the paused loop does not look at stop.
StopEnds == [](stop => <>(camPc = "gone" \/ harm # "none") \/ []<>(vd.state = "paused"))
====
