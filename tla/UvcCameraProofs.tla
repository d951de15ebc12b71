---- MODULE UvcCameraProofs ----
(***************************************************************************)
(* The resolution of a UVC camera, for any number of HTTP threads, any     *)
(* resolutions and any controls: STREAMING_PAUSED is enough as long as no  *)
(* change overlaps another thread's use of the device, and what the page   *)
(* shows of a control is the last value the driver took.                   *)
(***************************************************************************)
EXTENDS UvcCamera, TLAPS

JobsOK ==
    \A t \in Changers :
        /\ Changing(t) => job[t].to \in Sizes /\ topic = "resolution"
        /\ job[t].at \in ControlSteps => job[t].to \in 0..MaxValue + 1 /\ topic = "control"

\* Whatever overlaps: videoIn lives as long as the camera thread, which finds the
\* state STREAMING_OFF only before and after its loop.
ThreadsOK ==
    /\ vd.live <=> camPc # "gone"
    /\ vd.state = "off" => camPc \in {"enable", "cleanup", "gone"}
    /\ Changing(Cam) <=> camPc = "change"

Whole == vd.open /\ vd.on /\ vd.mapped /\ vd.frame = vd.format /\ vd.want = vd.format

\* How far a change has got.
Halfway(t) ==
    /\ job[t].at \in {"disable", "unmap"} /\ ~failed => vd.mapped
    /\ job[t].at \in {"unmap", "close"} => vd.open
    /\ job[t].at \in {"release", "allocate", "enable"} =>
         vd.open /\ vd.mapped /\ vd.want = vd.format
    /\ job[t].at = "enable" => vd.frame = vd.want

\* A thread that changes the resolution is alone, and the camera thread is not at
\* the device.
Alone(t) ==
    /\ vd.state = "paused"
    /\ ~CamBusy
    /\ \A u \in Changers : Changing(u) => u = t
    /\ vd.live => Halfway(t)

AloneOK ==
    ~overlap =>
        /\ \A t \in Changers : Changing(t) => Alone(t)
        /\ Quiet /\ vd.live /\ ~failed => vd.mapped
        /\ vd.state = "on" => Whole
        /\ camPc = "enable" => vd = Opened
        /\ camPc \in {"select", "grab", "copy", "publish"} => vd.state = "on"
        /\ camPc \in {"copy", "publish"} => picture = vd.format

HarmOK ==
    /\ harm \in {"unmapped", "frame", "closed"} => overlap
    /\ harm = "unmapping" => overlap \/ failed

UvcInv == TypeOK /\ JobsOK /\ ThreadsOK /\ AloneOK /\ HarmOK

LEMMA UvcInit == Init => UvcInv
<1> SUFFICES ASSUME Init PROVE UvcInv
  OBVIOUS
<1> USE UvcCameraAssumption
<1>1. TypeOK
  <2>1. /\ vd = Opened /\ camPc = "enable" /\ picture = 0 /\ bufCap = Start /\ harm = "none"
        /\ stop = FALSE /\ cancelled = FALSE /\ overlap = FALSE /\ failed = FALSE
        /\ job = [t \in Changers |-> NoJob] /\ topic \in {"resolution", "control"}
    BY DEF Init
  <2>2. given \in [UserClass -> 0..MaxValue] /\ unsure \in SUBSET Controls
    BY DEF Init, ControlsRead
  <2>4. cached \in [Controls -> 0..MaxValue + 1]
    <3>1. cached \in [Controls -> 0..MaxValue]
      BY DEF Init, ControlsRead
    <3> QED BY <3>1
  <2>5. job \in [Changers -> [at : {"idle"} \cup ResolutionSteps \cup ControlSteps,
                              to : 0..MaxSize + MaxValue + 1, control : Controls]]
    BY <2>1 DEF NoJob
  <2>6. vd \in [live : BOOLEAN, state : Streaming, open : BOOLEAN, on : BOOLEAN,
                mapped : BOOLEAN, want : Sizes, format : Sizes, frame : 0..MaxSize]
    BY <2>1 DEF Opened, Streaming, Sizes
  <2>7. stop \in BOOLEAN /\ cancelled \in BOOLEAN /\ overlap \in BOOLEAN /\ failed \in BOOLEAN
    BY <2>1, Zenon
  <2>8. camPc = "enable" /\ picture \in 0..MaxSize /\ bufCap \in {0, Start} /\ harm = "none"
    BY <2>1
  <2> QED BY <2>1, <2>2, <2>4, <2>5, <2>6, <2>7, <2>8 DEF TypeOK
<1>2. JobsOK /\ ThreadsOK /\ HarmOK
  BY DEF Init, JobsOK, ThreadsOK, HarmOK, Opened, NoJob, Changing, Changers,
         ResolutionSteps, ControlSteps
<1>3. AloneOK
  BY DEF Init, AloneOK, Opened, NoJob, Changing, ResolutionSteps
<1> QED BY <1>1, <1>2, <1>3 DEF UvcInv

VdType == [live : BOOLEAN, state : Streaming, open : BOOLEAN, on : BOOLEAN,
           mapped : BOOLEAN, want : Sizes, format : Sizes, frame : 0..MaxSize]

\* What every step of setResolution has in common: it goes on with the next one,
\* returns 0 or -1, or goes wrong.
GoesOn(t, from, to) ==
    /\ job[t].at = from
    /\ job' = [job EXCEPT ![t].at = to]
    /\ UNCHANGED <<harm, camPc, overlap, failed>>
Returns(t, result) ==
    /\ job' = [job EXCEPT ![t] = NoJob]
    /\ failed' = (failed \/ result = -1)
    /\ camPc' = IF t # Cam THEN camPc ELSE IF result = 0 THEN "test" ELSE "cleanup"
    /\ UNCHANGED <<harm, overlap>>
GoesWrong(t) ==
    /\ UNCHANGED <<vd, job, camPc, overlap, failed>>
    /\ \/ harm' = "unmapping" /\ job[t].at = "unmap" /\ ~vd.mapped
       \/ harm' = "closed" /\ job[t].at = "close" /\ ~vd.open

LEMMA ChangeSteps ==
    ASSUME NEW t \in Changers, SetResolution(t)
    PROVE  /\ harm = "none" /\ vd.live
           /\ UNCHANGED <<stop, cancelled, topic, bufCap, picture, given, cached, unsure>>
           /\ job[t].at \in ResolutionSteps
           /\ \/ /\ GoesOn(t, "disable", "unmap") /\ vd.open
                 /\ vd' = [vd EXCEPT !.on = FALSE, !.state = "paused"]
              \/ GoesOn(t, "unmap", "close") /\ vd' = [vd EXCEPT !.mapped = FALSE]
              \/ /\ GoesOn(t, "close", "open")
                 /\ vd' = [vd EXCEPT !.open = FALSE, !.on = FALSE, !.want = job[t].to]
              \/ GoesOn(t, "open", "configure") /\ vd' = [vd EXCEPT !.open = TRUE]
              \/ /\ GoesOn(t, "configure", "release") /\ TakesFormat
                 /\ \E size \in Sizes :
                      vd' = [vd EXCEPT !.format = size, !.want = size, !.mapped = TRUE]
              \/ GoesOn(t, "release", "allocate") /\ vd' = [vd EXCEPT !.frame = 0]
              \/ GoesOn(t, "allocate", "enable") /\ vd' = [vd EXCEPT !.frame = vd.want]
              \/ /\ Returns(t, 0) /\ job[t].at = "enable" /\ vd.open /\ vd.mapped
                 /\ vd' = [vd EXCEPT !.on = TRUE, !.state = "on"]
              \/ Returns(t, -1) /\ (vd' = vd \/ vd' = [vd EXCEPT !.open = FALSE])
              \/ GoesWrong(t)
  BY DEF SetResolution, Disable, Unmap, Close, Open, Configure, Release, Allocate, Enable, Step,
         Continue, Return, Bad, controlVars, historyVars, GoesOn, Returns, GoesWrong, ResolutionSteps

LEMMA ChangeKeeps ==
    ASSUME UvcInv, NEW t \in Changers, SetResolution(t)
    PROVE  UvcInv'
<1> USE UvcCameraAssumption DEF UvcInv
<1>1. /\ harm = "none" /\ vd.live /\ job[t].at \in ResolutionSteps
      /\ UNCHANGED <<stop, cancelled, topic, bufCap, picture, given, cached, unsure>>
  BY ChangeSteps, Zenon
<1>2. vd \in VdType
  BY DEF TypeOK, VdType
<1>3. job[t].to \in Sizes /\ topic = "resolution" /\ Changing(t)
  BY <1>1 DEF JobsOK, Changing
<1>4. /\ \A u \in Changers : job[u].at \notin ControlSteps
      /\ job \in [Changers -> [at : {"idle"} \cup ResolutionSteps \cup ControlSteps,
                               to : 0..MaxSize + MaxValue + 1, control : Controls]]
  BY <1>3 DEF JobsOK, TypeOK
<1>5. ASSUME NEW from, NEW to \in ResolutionSteps, GoesOn(t, from, to),
             vd' \in VdType, vd'.live, vd'.state = vd.state \/ vd'.state = "paused",
             ~overlap => Halfway(t)' /\ vd'.state = "paused"
      PROVE  UvcInv'
  <2>1. TypeOK'
    BY <1>1, <1>4, <1>5 DEF TypeOK, GoesOn, VdType
  <2>2. /\ \A u \in Changers : (Changing(u)' <=> Changing(u)) /\ job'[u].to = job[u].to
        /\ \A u \in Changers : job'[u].at \notin ControlSteps
    BY <1>3, <1>4, <1>5 DEF GoesOn, Changing, ResolutionSteps, ControlSteps
  <2>3. JobsOK'
    BY <1>1, <2>2 DEF JobsOK
  <2>4. ThreadsOK'
    BY <1>1, <1>5, <2>2 DEF ThreadsOK, GoesOn, Changers
  <2>5. AloneOK'
    <3> SUFFICES ASSUME ~overlap' PROVE AloneOK'
      BY DEF AloneOK
    <3>1. ~overlap
      BY <1>5 DEF GoesOn
    <3>2. Alone(t)
      BY <1>3, <3>1 DEF AloneOK
    <3>3. ~CamBusy' /\ \A u \in Changers : Changing(u)' => u = t
      BY <1>5, <2>2, <3>2 DEF Alone, GoesOn, CamBusy
    <3>4. Alone(t)'
      BY <1>5, <3>1, <3>3 DEF Alone
    <3>5. ~Quiet' /\ vd'.state # "on" /\ camPc' \notin {"enable", "select", "grab", "copy", "publish"}
      BY <1>3, <1>5, <2>2, <3>1, <3>3 DEF Quiet, CamBusy
    <3> QED BY <3>3, <3>4, <3>5 DEF AloneOK
  <2>6. HarmOK'
    BY <1>1, <1>5 DEF HarmOK, GoesOn
  <2> QED BY <2>1, <2>3, <2>4, <2>5, <2>6
<1>6. ASSUME NEW result \in {0, -1}, Returns(t, result), vd' \in VdType, vd'.live,
             result = 0 => (~overlap => Whole') /\ vd'.state = "on",
             result = -1 => vd'.state = vd.state
      PROVE  UvcInv'
  <2>1. failed' \in BOOLEAN /\ (failed' <=> failed \/ result = -1)
    BY <1>6, Zenon DEF Returns
  <2>2. job'[t] = NoJob /\ \A u \in Changers : u # t => job'[u] = job[u]
    BY <1>4, <1>6 DEF Returns
  <2>3. TypeOK'
    <3>1. job' \in [Changers -> [at : {"idle"} \cup ResolutionSteps \cup ControlSteps,
                                 to : 0..MaxSize + MaxValue + 1, control : Controls]]
      BY <1>4, <1>6 DEF Returns, NoJob
    <3> QED BY <1>1, <1>6, <2>1, <3>1 DEF TypeOK, Returns, VdType
  <2>4. ~Changing(t)' /\ \A u \in Changers : u # t => (Changing(u)' <=> Changing(u))
    BY <2>2 DEF Changing, NoJob, ResolutionSteps
  <2>5. JobsOK'
    BY <1>1, <2>2, <2>4 DEF JobsOK, NoJob, ControlSteps, Changing
  <2>6. ThreadsOK'
    <3>1. CASE t = Cam
      BY <1>1, <1>3, <1>6, <2>4, <3>1 DEF ThreadsOK, Returns
    <3>2. CASE t # Cam
      BY <1>1, <1>6, <2>4, <3>2 DEF ThreadsOK, Returns, Changers
    <3> QED BY <3>1, <3>2
  <2>7. AloneOK'
    <3> SUFFICES ASSUME ~overlap' PROVE AloneOK'
      BY DEF AloneOK
    <3>1. ~overlap
      BY <1>6 DEF Returns
    <3>2. Alone(t)
      BY <1>3, <3>1 DEF AloneOK
    <3>3. Quiet'
      BY <2>4, <3>2 DEF Alone, Quiet
    <3>4. ~CamBusy'
      BY <1>6, <3>2 DEF Alone, CamBusy, Returns
    <3>5. vd'.state = "on" => result = 0
      BY <1>6, <3>2 DEF Alone
    <3>6. ~failed' => vd'.mapped
      BY <1>6, <2>1, <3>1 DEF Whole
    <3> QED BY <1>6, <3>1, <3>3, <3>4, <3>5, <3>6 DEF AloneOK, Quiet, CamBusy
  <2>8. HarmOK'
    BY <1>1, <1>6 DEF HarmOK, Returns
  <2> QED BY <2>3, <2>5, <2>6, <2>7, <2>8
<1>7. CASE GoesWrong(t)
  <2>1. TypeOK' /\ JobsOK' /\ ThreadsOK'
    BY <1>1, <1>7 DEF TypeOK, JobsOK, ThreadsOK, GoesWrong, Changing
  <2>2. AloneOK'
    BY <1>1, <1>7 DEF AloneOK, GoesWrong, Alone, Halfway, Changing, Quiet, Whole, CamBusy
  <2>3. ~overlap => Halfway(t)
    BY <1>1, <1>3 DEF AloneOK, Alone
  <2>4. HarmOK'
    BY <1>7, <2>3 DEF HarmOK, GoesWrong, Halfway
  <2> QED BY <2>1, <2>2, <2>4
<1>8. ~overlap => Halfway(t) /\ vd.state = "paused"
  BY <1>1, <1>3 DEF AloneOK, Alone
<1> USE DEF VdType, Streaming, Halfway, ResolutionSteps
<1>9. CASE /\ GoesOn(t, "disable", "unmap") /\ vd.open
           /\ vd' = [vd EXCEPT !.on = FALSE, !.state = "paused"]
  <2>1. job'[t].at = "unmap"
    BY <1>4, <1>9 DEF GoesOn
  <2> QED BY <1>1, <1>2, <1>5, <1>8, <1>9, <2>1 DEF GoesOn
<1>10. CASE GoesOn(t, "unmap", "close") /\ vd' = [vd EXCEPT !.mapped = FALSE]
  <2>1. job'[t].at = "close"
    BY <1>4, <1>10 DEF GoesOn
  <2> QED BY <1>1, <1>2, <1>5, <1>8, <1>10, <2>1 DEF GoesOn
<1>11. CASE /\ GoesOn(t, "close", "open")
            /\ vd' = [vd EXCEPT !.open = FALSE, !.on = FALSE, !.want = job[t].to]
  <2>1. job'[t].at = "open"
    BY <1>4, <1>11 DEF GoesOn
  <2> QED BY <1>1, <1>2, <1>3, <1>5, <1>8, <1>11, <2>1 DEF GoesOn
<1>12. CASE GoesOn(t, "open", "configure") /\ vd' = [vd EXCEPT !.open = TRUE]
  <2>1. job'[t].at = "configure"
    BY <1>4, <1>12 DEF GoesOn
  <2> QED BY <1>1, <1>2, <1>5, <1>8, <1>12, <2>1 DEF GoesOn
<1>13. CASE /\ GoesOn(t, "configure", "release") /\ TakesFormat
            /\ \E size \in Sizes :
                 vd' = [vd EXCEPT !.format = size, !.want = size, !.mapped = TRUE]
  <2>1. job'[t].at = "release"
    BY <1>4, <1>13 DEF GoesOn
  <2> QED BY <1>1, <1>2, <1>5, <1>8, <1>13, <2>1 DEF GoesOn, TakesFormat
<1>14. CASE GoesOn(t, "release", "allocate") /\ vd' = [vd EXCEPT !.frame = 0]
  <2>1. job'[t].at = "allocate"
    BY <1>4, <1>14 DEF GoesOn
  <2> QED BY <1>1, <1>2, <1>5, <1>8, <1>14, <2>1 DEF GoesOn
<1>15. CASE GoesOn(t, "allocate", "enable") /\ vd' = [vd EXCEPT !.frame = vd.want]
  <2>1. job'[t].at = "enable"
    BY <1>4, <1>15 DEF GoesOn
  <2>2. vd.want \in 0..MaxSize
    BY <1>2 DEF Sizes
  <2> QED BY <1>1, <1>2, <1>5, <1>8, <1>15, <2>1, <2>2 DEF GoesOn
<1>16. CASE /\ Returns(t, 0) /\ job[t].at = "enable" /\ vd.open /\ vd.mapped
            /\ vd' = [vd EXCEPT !.on = TRUE, !.state = "on"]
  <2>1. vd' \in VdType /\ vd'.live /\ vd'.state = "on"
    BY <1>1, <1>2, <1>16
  <2>2. ~overlap => Whole'
    BY <1>2, <1>8, <1>16 DEF Whole
  <2>3. 0 \in {0, -1} /\ 0 # -1
    OBVIOUS
  <2> QED BY <1>6, <1>16, <2>1, <2>2, <2>3, Zenon
<1>17. CASE Returns(t, -1) /\ (vd' = vd \/ vd' = [vd EXCEPT !.open = FALSE])
  <2>1. vd' \in VdType /\ vd'.live /\ vd'.state = vd.state
    BY <1>1, <1>2, <1>17
  <2>2. -1 \in {0, -1} /\ -1 # 0
    OBVIOUS
  <2> QED BY <1>6, <1>17, <2>1, <2>2, Zenon
<1> HIDE DEF VdType, Streaming, Halfway, ResolutionSteps, UvcInv
<1>18. \/ /\ GoesOn(t, "disable", "unmap") /\ vd.open
          /\ vd' = [vd EXCEPT !.on = FALSE, !.state = "paused"]
       \/ GoesOn(t, "unmap", "close") /\ vd' = [vd EXCEPT !.mapped = FALSE]
       \/ /\ GoesOn(t, "close", "open")
          /\ vd' = [vd EXCEPT !.open = FALSE, !.on = FALSE, !.want = job[t].to]
       \/ GoesOn(t, "open", "configure") /\ vd' = [vd EXCEPT !.open = TRUE]
       \/ /\ GoesOn(t, "configure", "release") /\ TakesFormat
          /\ \E size \in Sizes :
               vd' = [vd EXCEPT !.format = size, !.want = size, !.mapped = TRUE]
       \/ GoesOn(t, "release", "allocate") /\ vd' = [vd EXCEPT !.frame = 0]
       \/ GoesOn(t, "allocate", "enable") /\ vd' = [vd EXCEPT !.frame = vd.want]
       \/ /\ Returns(t, 0) /\ job[t].at = "enable" /\ vd.open /\ vd.mapped
          /\ vd' = [vd EXCEPT !.on = TRUE, !.state = "on"]
       \/ Returns(t, -1) /\ (vd' = vd \/ vd' = [vd EXCEPT !.open = FALSE])
       \/ GoesWrong(t)
  BY ChangeSteps, Zenon
<1> QED BY <1>7, <1>9, <1>10, <1>11, <1>12, <1>13, <1>14, <1>15, <1>16, <1>17, <1>18, Zenon

\* The first step of a change, by a commander or by the camera thread.
LEMMA PauseKeeps ==
    ASSUME UvcInv, NEW t \in Changers, NEW size \in Sizes, Pause(t, size),
           topic = "resolution", harm = "none", vd.live, job[t].at = "idle",
           UNCHANGED <<stop, cancelled, harm, topic, picture, bufCap, failed, controlVars>>,
           camPc' = IF t = Cam THEN "change" ELSE camPc,
           t = Cam => camPc \in {"select", "events"}
    PROVE  UvcInv'
<1> USE UvcCameraAssumption DEF UvcInv
<1>1. vd' = [vd EXCEPT !.state = "paused"] /\ vd \in VdType
  BY DEF Pause, TypeOK, VdType
<1>2. /\ vd' \in VdType /\ vd'.live /\ vd'.state = "paused"
      /\ vd'.mapped = vd.mapped /\ vd'.open = vd.open /\ vd'.want = vd.want
      /\ vd'.format = vd.format /\ vd'.frame = vd.frame
  BY <1>1 DEF VdType, Streaming
<1>3. /\ job' = [job EXCEPT ![t] = [NoJob EXCEPT !.at = "disable", !.to = size]]
      /\ job \in [Changers -> [at : {"idle"} \cup ResolutionSteps \cup ControlSteps,
                               to : 0..MaxSize + MaxValue + 1, control : Controls]]
  BY DEF Pause, TypeOK
<1>4. /\ job'[t].at = "disable" /\ job'[t].to = size
      /\ \A u \in Changers : u # t => job'[u] = job[u]
  BY <1>3 DEF NoJob
<1>5. /\ Changing(t)' /\ ~Changing(t)
      /\ \A u \in Changers : u # t => (Changing(u)' <=> Changing(u))
  BY <1>4 DEF Changing, ResolutionSteps
<1>6. overlap' \in BOOLEAN
      /\ (~overlap' => ~overlap /\ (t = Cam \/ ~CamBusy) /\ \A u \in Changers \ {t} : ~Changing(u))
  BY Zenon DEF Pause
<1>7. TypeOK'
  <2>1. size \in 0..MaxSize + MaxValue + 1
    BY DEF Sizes
  <2>2. job' \in [Changers -> [at : {"idle"} \cup ResolutionSteps \cup ControlSteps,
                               to : 0..MaxSize + MaxValue + 1, control : Controls]]
    BY <1>3, <2>1 DEF NoJob, ResolutionSteps
  <2> QED BY <1>2, <1>6, <2>2 DEF TypeOK, VdType, controlVars
<1>8. JobsOK'
  BY <1>4, <1>5 DEF JobsOK, Changing, ControlSteps
<1>9. ThreadsOK'
  BY <1>2, <1>5 DEF ThreadsOK, Changers
<1>10. AloneOK'
  <2> SUFFICES ASSUME ~overlap' PROVE AloneOK'
    BY DEF AloneOK
  <2>1. ~overlap /\ Quiet /\ ~CamBusy'
    BY <1>5, <1>6 DEF Quiet, CamBusy
  <2>2. ~failed' => vd'.mapped
    BY <1>2, <2>1 DEF AloneOK
  <2>3. \A u \in Changers : Changing(u)' => u = t
    BY <1>5, <1>6
  <2>4. Alone(t)'
    BY <1>2, <1>4, <2>1, <2>2, <2>3 DEF Alone, Halfway
  <2> QED BY <1>2, <1>5, <2>1, <2>3, <2>4 DEF AloneOK, Quiet, CamBusy
<1>11. HarmOK'
  BY DEF HarmOK
<1> QED BY <1>7, <1>8, <1>9, <1>10, <1>11

LEMMA CommandKeeps ==
    ASSUME UvcInv, NEW t \in Commanders, CommandResolution(t) \/ CommandHarm(t)
    PROVE  UvcInv'
<1> USE UvcCameraAssumption
<1>1. CASE CommandResolution(t)
  <2>1. PICK size \in Sizes : Pause(t, size)
    BY <1>1 DEF CommandResolution
  <2>2. /\ topic = "resolution" /\ harm = "none" /\ vd.live /\ job[t].at = "idle" /\ t # Cam
        /\ UNCHANGED <<stop, cancelled, harm, topic, picture, bufCap, failed, controlVars, camPc>>
    BY <1>1 DEF CommandResolution, Step
  <2> QED BY <2>1, <2>2, PauseKeeps DEF Changers
<1>2. CASE CommandHarm(t)
  <2>1. harm' = "freed" /\ UNCHANGED <<stop, cancelled, topic, vd, camPc, picture, bufCap, job,
                                       overlap, failed, given, cached, unsure>>
    BY <1>2 DEF CommandHarm, Harmed, camVars, historyVars, controlVars
  <2> QED BY <2>1 DEF UvcInv, TypeOK, JobsOK, ThreadsOK, AloneOK, HarmOK, Changing, Alone, Halfway,
                      Quiet, Whole, CamBusy
<1> QED BY <1>1, <1>2

\* Setting a control touches nothing of the device's buffers.
LEMMA ControlKeeps ==
    ASSUME UvcInv, NEW t \in Changers, ControlNext(t)
    PROVE  UvcInv'
<1> USE UvcCameraAssumption DEF UvcInv
<1>1. /\ UNCHANGED <<stop, cancelled, harm, topic, vd, camPc, picture, bufCap, overlap, failed>>
      /\ job[t].at \in {"idle"} \cup ControlSteps
  BY DEF ControlNext, CommandControl, SetControl, Cache, CacheFirst, ControlStep, camVars,
         historyVars, ControlSteps
<1>2. /\ job \in [Changers -> [at : {"idle"} \cup ResolutionSteps \cup ControlSteps,
                               to : 0..MaxSize + MaxValue + 1, control : Controls]]
      /\ given \in [UserClass -> 0..MaxValue]
      /\ cached \in [Controls -> 0..MaxValue + 1] /\ unsure \in SUBSET Controls
  BY DEF TypeOK
<1>3. job[t].at \in ControlSteps => job[t].to \in 0..MaxValue + 1 /\ topic = "control"
  BY DEF JobsOK
<1>4. /\ job' \in [Changers -> [at : {"idle"} \cup ResolutionSteps \cup ControlSteps,
                                to : 0..MaxSize + MaxValue + 1, control : Controls]]
      /\ job'[t].at \in {"idle"} \cup ControlSteps
      /\ job'[t].at \in ControlSteps => job'[t].to \in 0..MaxValue + 1 /\ topic = "control"
      /\ \A u \in Changers : u # t => job'[u] = job[u]
  <2>1. CASE CommandControl(t)
    <3>1. PICK c \in Controls, v \in 0..MaxValue + 1 :
            job' = [job EXCEPT ![t] = [at |-> "set", to |-> v, control |-> c]] /\ topic = "control"
      BY <2>1 DEF CommandControl
    <3>2. v \in 0..MaxSize + MaxValue + 1
      OBVIOUS
    <3> QED BY <1>2, <3>1, <3>2 DEF ControlSteps
  <2>2. CASE SetControl(t) \/ Cache(t) \/ CacheFirst(t)
    <3>1. /\ job[t].at \in ControlSteps
          /\ \/ job' = [job EXCEPT ![t].at = "cache"]
             \/ job' = [job EXCEPT ![t].at = "first"]
             \/ job' = [job EXCEPT ![t] = NoJob]
      BY <2>2 DEF SetControl, Cache, CacheFirst, ControlStep, ControlSteps
    <3> QED BY <1>2, <1>3, <3>1 DEF NoJob, ControlSteps
  <2> QED BY <2>1, <2>2 DEF ControlNext
<1>5. /\ given' \in [UserClass -> 0..MaxValue]
      /\ cached' \in [Controls -> 0..MaxValue + 1] /\ unsure' \in SUBSET Controls
  <2>1. CASE CommandControl(t)
    BY <1>2, <2>1 DEF CommandControl
  <2>2. CASE SetControl(t)
    <3> DEFINE c == job[t].control
    <3>1. /\ cached' = cached /\ unsure' \in {unsure, unsure \ {c}}
          /\ \/ given' = given
             \/ /\ c \in UserClass /\ job[t].to <= MaxValue
                /\ given' = [given EXCEPT ![c] = job[t].to]
      BY <2>2 DEF SetControl
    <3>2. job[t].to \in Nat
      BY <1>2
    <3> HIDE DEF c
    <3> QED BY <1>2, <3>1, <3>2
  <2>3. CASE Cache(t) \/ CacheFirst(t)
    <3>1. /\ UNCHANGED <<given, unsure>> /\ job[t].at \in ControlSteps
          /\ \E c \in Controls : cached' = [cached EXCEPT ![c] = job[t].to]
      BY <1>2, <2>3 DEF Cache, CacheFirst, ControlStep, ControlSteps
    <3> QED BY <1>2, <1>3, <3>1
  <2> QED BY <2>1, <2>2, <2>3 DEF ControlNext
<1>6. \A u \in Changers : Changing(u)' <=> Changing(u)
  BY <1>1, <1>4 DEF Changing, ResolutionSteps, ControlSteps
<1>7. TypeOK'
  BY <1>1, <1>4, <1>5 DEF TypeOK
<1>8. JobsOK'
  BY <1>1, <1>4, <1>6 DEF JobsOK, Changing, ControlSteps, ResolutionSteps
<1>9. ThreadsOK' /\ HarmOK'
  BY <1>1, <1>6 DEF ThreadsOK, HarmOK, Changers
<1>10. AloneOK'
  <2> SUFFICES ASSUME ~overlap' PROVE AloneOK'
    BY DEF AloneOK
  <2>1. ASSUME NEW u \in Changers, Changing(u)' PROVE Alone(u)'
    <3>1. Changing(u) /\ u # t
      BY <1>1, <1>6, <2>1 DEF Changing, ControlSteps, ResolutionSteps
    <3>2. Alone(u) /\ job'[u] = job[u]
      BY <1>1, <1>4, <3>1 DEF AloneOK
    <3> QED BY <1>1, <1>6, <3>2 DEF Alone, Halfway, CamBusy
  <2> QED BY <1>1, <1>6, <2>1 DEF AloneOK, Quiet, Whole
<1> QED BY <1>7, <1>8, <1>9, <1>10

\* What the steps of the camera thread at the device have in common: nobody's
\* change makes way.
LEMMA CamMoves ==
    ASSUME UvcInv, harm = "none", ~Changing(Cam),
           UNCHANGED <<stop, cancelled, topic, overlap, failed, given, cached, unsure>>,
           job' = job, vd' \in VdType, picture' \in 0..MaxSize, bufCap' \in {0, Start},
           camPc' \in {"test", "paused", "select", "grab", "copy", "publish", "events",
                       "cleanup", "gone"},
           camPc # "gone",
           vd'.live <=> camPc' # "gone",
           vd'.state = "off" => camPc' \in {"cleanup", "gone"},
           vd'.state # vd.state => camPc \in {"enable", "cleanup"},
           ~overlap => /\ vd'.live => vd'.mapped = vd.mapped /\ vd'.open = vd.open
                                      /\ vd'.want = vd.want /\ vd'.format = vd.format
                                      /\ vd'.frame = vd.frame
                       /\ vd'.state = "on" => Whole'
                       /\ vd.state = "paused" => vd'.state = "paused"
                       /\ camPc' \in {"select", "grab", "copy", "publish"} => vd'.state = "on"
                       /\ camPc' \in {"copy", "publish"} => picture' = vd'.format,
           harm' \in {"none", "unmapped", "frame", "buf"},
           ~overlap => harm' \in {"none", "buf"}
    PROVE  UvcInv'
<1> USE UvcCameraAssumption DEF UvcInv
<1>1. TypeOK'
  BY DEF TypeOK, VdType
<1>2. \A u \in Changers : Changing(u)' <=> Changing(u)
  BY DEF Changing
<1>3. JobsOK'
  BY <1>2 DEF JobsOK
<1>4. ThreadsOK'
  BY <1>2 DEF ThreadsOK, Changers
<1>5. HarmOK'
  BY DEF HarmOK
<1>6. AloneOK'
  <2> SUFFICES ASSUME ~overlap' PROVE AloneOK'
    BY DEF AloneOK
  <2>1. ~overlap
    OBVIOUS
  <2>2. ASSUME NEW u \in Changers, Changing(u)' PROVE Alone(u)'
    <3>1. Alone(u)
      BY <1>2, <2>1, <2>2 DEF AloneOK
    <3>2. vd'.state = "paused" /\ ~CamBusy'
      BY <2>1, <3>1 DEF Alone, CamBusy
    <3>3. vd'.live => Halfway(u)'
      BY <2>1, <3>1 DEF Alone, Halfway, ThreadsOK
    <3> QED BY <1>2, <3>1, <3>2, <3>3 DEF Alone
  <2>3. Quiet' /\ vd'.live /\ ~failed' => vd'.mapped
    BY <1>2, <2>1 DEF AloneOK, Quiet, ThreadsOK
  <2> QED BY <2>1, <2>2, <2>3 DEF AloneOK
<1> QED BY <1>1, <1>3, <1>4, <1>5, <1>6

\* What a step of the camera thread starts from.
LEMMA CamStarts ==
    ASSUME UvcInv, NEW from, CamStep(from)
    PROVE  /\ harm = "none" /\ camPc = from /\ ~Changing(Cam)
           /\ UNCHANGED <<stop, cancelled, topic, overlap, failed, given, cached, unsure>>
           /\ vd \in VdType /\ picture \in 0..MaxSize /\ bufCap \in {0, Start}
           /\ ~overlap /\ vd.state = "on" => Whole
  BY DEF CamStep, historyVars, controlVars, UvcInv, TypeOK, VdType, AloneOK, Changing, NoJob,
         ResolutionSteps

LEMMA CamLoopKeeps ==
    ASSUME UvcInv, CamTest \/ CamPaused \/ CamSelect \/ CamNoEvent
    PROVE  UvcInv'
<1> USE UvcCameraAssumption
<1>1. PICK from \in {"test", "paused", "select", "events"} : CamStep(from)
  BY DEF CamTest, CamPaused, CamSelect, CamNoEvent, CamGoto
<1>2. /\ harm = "none" /\ camPc = from /\ ~Changing(Cam)
      /\ UNCHANGED <<stop, cancelled, topic, overlap, failed, given, cached, unsure>>
      /\ vd \in VdType /\ picture \in 0..MaxSize /\ bufCap \in {0, Start}
      /\ ~overlap /\ vd.state = "on" => Whole
  BY <1>1, CamStarts
<1>3. /\ job' = job /\ vd' = vd /\ bufCap' = bufCap /\ picture' \in {0, picture}
      /\ harm' = "none"
      /\ camPc' \in {"test", "paused", "select", "grab", "events", "cleanup"}
      /\ camPc' = "select" => camPc = "paused" /\ vd.state # "paused"
      /\ camPc' = "grab" => camPc = "select"
  BY <1>2 DEF CamTest, CamPaused, CamSelect, CamNoEvent, CamGoto, CamStep
<1>4. vd.live /\ vd.state # "off" /\ vd.state \in Streaming
  BY <1>1, <1>2 DEF UvcInv, ThreadsOK, VdType
<1>5. ~overlap /\ camPc' \in {"select", "grab"} => vd.state = "on"
  BY <1>1, <1>2, <1>3, <1>4 DEF UvcInv, AloneOK, Streaming
<1>6. vd' \in VdType /\ picture' \in 0..MaxSize /\ (Whole' <=> Whole)
  BY <1>2, <1>3 DEF Whole
<1> QED BY <1>1, <1>2, <1>3, <1>4, <1>5, <1>6, CamMoves

LEMMA CamDeviceKeeps ==
    ASSUME UvcInv, CamEnable \/ CamGrab \/ CamCopy \/ CamPublish \/ CamCleanup
    PROVE  UvcInv'
<1> USE UvcCameraAssumption
<1>1. PICK from \in {"enable", "grab", "copy", "publish", "cleanup"} : CamStep(from)
  BY DEF CamEnable, CamGrab, CamCopy, CamPublish, CamCleanup, CamGoto
<1>2. /\ harm = "none" /\ camPc = from /\ ~Changing(Cam)
      /\ UNCHANGED <<stop, cancelled, topic, overlap, failed, given, cached, unsure>>
      /\ vd \in VdType /\ picture \in 0..MaxSize /\ bufCap \in {0, Start}
      /\ ~overlap /\ vd.state = "on" => Whole
  BY <1>1, CamStarts
<1>3. vd.live /\ vd.state \in Streaming
  BY <1>1, <1>2 DEF UvcInv, ThreadsOK, VdType
<1>4. CASE CamEnable
  <2>1. camPc = "enable"
    BY <1>4 DEF CamEnable, CamGoto, CamStep
  <2>2. ~overlap => vd = Opened
    BY <2>1 DEF UvcInv, AloneOK
  <2>3. /\ job' = job /\ bufCap' = bufCap /\ picture' = picture /\ harm' = harm
        /\ \/ /\ camPc' = "test" /\ vd.open /\ vd.mapped
              /\ vd' = [vd EXCEPT !.on = TRUE, !.state = "on"]
           \/ camPc' = "cleanup" /\ vd' = vd
    BY <1>4 DEF CamEnable, CamGoto
  <2>4. CASE camPc' = "test"
    <3>1. /\ vd' \in VdType /\ vd'.live /\ vd'.state = "on"
          /\ vd'.mapped = vd.mapped /\ vd'.open = vd.open /\ vd'.want = vd.want
          /\ vd'.format = vd.format /\ vd'.frame = vd.frame
      BY <1>2, <1>3, <2>3, <2>4 DEF VdType, Streaming
    <3>2. ~overlap => Whole'
      <4> SUFFICES ASSUME ~overlap PROVE Whole'
        OBVIOUS
      <4>1. vd = Opened
        BY <2>2
      <4>2. vd' = [Opened EXCEPT !.on = TRUE, !.state = "on"]
        BY <2>3, <2>4, <4>1
      <4> QED BY <4>2 DEF Whole, Opened
    <3>3. ~overlap => vd.state # "paused"
      BY <2>2 DEF Opened
    <3> QED BY <1>2, <2>1, <2>3, <2>4, <3>1, <3>2, <3>3, CamMoves
  <2>5. CASE camPc' = "cleanup"
    <3>1. vd' = vd
      BY <2>3, <2>5
    <3>2. Whole' <=> Whole
      BY <3>1 DEF Whole
    <3> QED BY <1>2, <1>3, <2>1, <2>3, <2>5, <3>1, <3>2, CamMoves
  <2> QED BY <2>3, <2>4, <2>5
<1>5. CASE CamGrab
  <2>1. camPc = "grab"
    BY <1>5 DEF CamGrab, CamGoto, CamStep
  <2>2. vd.state # "off" /\ (~overlap => vd.state = "on")
    BY <2>1 DEF UvcInv, AloneOK, ThreadsOK
  <2>3. /\ job' = job /\ vd' = vd /\ bufCap' = bufCap /\ harm' = harm
        /\ \/ camPc' = "copy" /\ picture' = vd.format
           \/ camPc' = "cleanup" /\ picture' = picture
    BY <1>5 DEF CamGrab, CamGoto
  <2>4. picture' \in 0..MaxSize /\ (Whole' <=> Whole)
    BY <1>2, <2>3 DEF VdType, Sizes, Whole
  <2> QED BY <1>2, <1>3, <2>1, <2>2, <2>3, <2>4, CamMoves
<1>6. CASE CamCopy
  <2>1. camPc = "copy"
    BY <1>6 DEF CamCopy, CamGoto, CamStep
  <2>2. vd.state # "off" /\ (~overlap => vd.state = "on" /\ picture = vd.format)
    BY <2>1 DEF UvcInv, AloneOK, ThreadsOK
  <2>3. ~overlap => CopyHarm = "none"
    BY <1>2, <2>2 DEF Whole, CopyHarm, VdType, Sizes
  <2>4. CopyHarm \in {"none", "unmapped", "frame"}
    BY DEF CopyHarm
  <2>5. /\ job' = job /\ vd' = vd /\ bufCap' = bufCap /\ picture' = picture
        /\ \/ camPc' \in {"publish", "events", "cleanup"} /\ harm' = "none"
           \/ camPc' = "copy" /\ harm' = CopyHarm
    BY <1>2, <1>6, <2>1 DEF CamCopy, CamGoto
  <2>6. Whole' <=> Whole
    BY <2>5 DEF Whole
  <2> QED BY <1>2, <1>3, <2>1, <2>2, <2>3, <2>4, <2>5, <2>6, CamMoves
<1>7. CASE CamCleanup
  <2>1. camPc = "cleanup"
    BY <1>7 DEF CamCleanup, CamGoto, CamStep
  <2>2. /\ job' = job /\ picture' = 0 /\ bufCap' = 0 /\ harm' = "none" /\ camPc' = "gone"
        /\ vd' = [vd EXCEPT !.live  = FALSE,
                            !.on    = IF vd.state = "on" THEN FALSE ELSE vd.on,
                            !.state = IF vd.state = "on" THEN "off" ELSE vd.state,
                            !.frame = 0]
    BY <1>2, <1>7 DEF CamCleanup, CamGoto
  <2>3. /\ vd' \in VdType /\ ~vd'.live
        /\ vd'.state = IF vd.state = "on" THEN "off" ELSE vd.state
    <3>1. vd.on \in BOOLEAN
      BY <1>2 DEF VdType
    <3>2. (IF vd.state = "on" THEN FALSE ELSE vd.on) \in BOOLEAN
      BY <3>1, Zenon
    <3>3. (IF vd.state = "on" THEN "off" ELSE vd.state) \in Streaming
      BY <1>2 DEF VdType, Streaming
    <3>4. PICK on \in BOOLEAN, state \in Streaming :
            /\ on = (IF vd.state = "on" THEN FALSE ELSE vd.on)
            /\ state = (IF vd.state = "on" THEN "off" ELSE vd.state)
      BY <3>2, <3>3, Zenon
    <3>5. vd' = [vd EXCEPT !.live = FALSE, !.on = on, !.state = state, !.frame = 0]
      BY <2>2, <3>4, Zenon
    <3>6. vd' = [live |-> FALSE, state |-> state, open |-> vd.open, on |-> on,
                 mapped |-> vd.mapped, want |-> vd.want, format |-> vd.format, frame |-> 0]
      BY <1>2, <3>5 DEF VdType
    <3>7. vd.open \in BOOLEAN /\ vd.mapped \in BOOLEAN /\ vd.want \in Sizes /\ vd.format \in Sizes
      BY <1>2 DEF VdType
    <3>8. FALSE \in BOOLEAN /\ 0 \in 0..MaxSize
      OBVIOUS
    <3>9. vd' \in VdType
      BY <3>4, <3>6, <3>7, <3>8, Zenon DEF VdType
    <3>10. ~vd'.live /\ vd'.state = state
      BY <3>6
    <3> QED BY <3>4, <3>9, <3>10
  <2> QED BY <1>2, <2>1, <2>2, <2>3, CamMoves
<1>8. CASE CamPublish
  <2>1. camPc = "publish"
    BY <1>8 DEF CamPublish, CamGoto, CamStep
  <2>2. vd.state # "off" /\ (~overlap => vd.state = "on" /\ picture = vd.format)
    BY <2>1 DEF UvcInv, AloneOK, ThreadsOK
  <2>3. PICK read \in {picture, vd.want} :
          \/ PublishHarm(read) = "none" /\ CamGoto("publish", "events")
          \/ /\ PublishHarm(read) # "none"
             /\ CamStep("publish")
             /\ harm' = PublishHarm(read)
             /\ UNCHANGED <<camPc, job>>
    BY <1>8 DEF CamPublish
  <2>4. ~overlap => PublishHarm(read) \in {"none", "buf"}
    BY <1>2, <2>2, <2>3 DEF Whole, PublishHarm, VdType, Sizes
  <2>5. PublishHarm(read) \in {"none", "frame", "buf"}
    BY DEF PublishHarm
  <2>6. /\ job' = job /\ vd' = vd /\ bufCap' = bufCap /\ picture' = picture
        /\ \/ camPc' = "events" /\ harm' = "none"
           \/ camPc' = "publish" /\ harm' = PublishHarm(read) /\ harm' # "none"
    BY <1>2, <1>8, <2>1, <2>3 DEF CamPublish, CamGoto
  <2>7. Whole' <=> Whole
    BY <2>6 DEF Whole
  <2> QED BY <1>2, <1>3, <2>1, <2>2, <2>4, <2>5, <2>6, <2>7, CamMoves
<1> QED BY <1>4, <1>5, <1>6, <1>7, <1>8

\* A cancelled camera thread leaves its own change half done.
LEMMA CancelKeeps == UvcInv /\ CamCancelledInChange => UvcInv'
<1> SUFFICES ASSUME UvcInv, CamCancelledInChange PROVE UvcInv'
  OBVIOUS
<1> USE UvcCameraAssumption DEF UvcInv
<1>1. /\ harm = "none" /\ job[Cam].at \in ResolutionSteps /\ Cam \in Changers
      /\ job' = [job EXCEPT ![Cam] = NoJob] /\ camPc' = "cleanup" /\ failed' = TRUE
      /\ UNCHANGED <<stop, cancelled, harm, topic, vd, picture, bufCap, overlap, given, cached,
                     unsure>>
  BY DEF CamCancelledInChange, controlVars, ResolutionSteps, Changers
<1>2. job \in [Changers -> [at : {"idle"} \cup ResolutionSteps \cup ControlSteps,
                            to : 0..MaxSize + MaxValue + 1, control : Controls]]
  BY DEF TypeOK
<1>3. job'[Cam] = NoJob /\ \A u \in Changers : u # Cam => job'[u] = job[u]
  BY <1>1, <1>2
<1>4. Changing(Cam) /\ ~Changing(Cam)' /\ \A u \in Changers : u # Cam => (Changing(u)' <=> Changing(u))
  BY <1>1, <1>3 DEF Changing, NoJob, ResolutionSteps
<1>5. TypeOK'
  <2>1. job' \in [Changers -> [at : {"idle"} \cup ResolutionSteps \cup ControlSteps,
                               to : 0..MaxSize + MaxValue + 1, control : Controls]]
    BY <1>1, <1>2 DEF NoJob
  <2> QED BY <1>1, <2>1 DEF TypeOK
<1>6. JobsOK'
  BY <1>1, <1>3, <1>4 DEF JobsOK, NoJob, ControlSteps, Changing
<1>7. ThreadsOK' /\ HarmOK'
  BY <1>1, <1>4 DEF ThreadsOK, HarmOK
<1>8. AloneOK'
  <2> SUFFICES ASSUME ~overlap' PROVE AloneOK'
    BY DEF AloneOK
  <2>1. Alone(Cam)
    BY <1>1, <1>4 DEF AloneOK
  <2> QED BY <1>1, <1>4, <2>1 DEF AloneOK, Alone
<1> QED BY <1>5, <1>6, <1>7, <1>8

LEMMA UvcStep == UvcInv /\ [Next]_vars => UvcInv'
<1> SUFFICES ASSUME UvcInv, [Next]_vars PROVE UvcInv'
  OBVIOUS
<1> USE UvcCameraAssumption
<1>1. CASE CamEnable \/ CamGrab \/ CamCopy \/ CamPublish \/ CamCleanup
  BY <1>1, CamDeviceKeeps
<1>2. CASE CamTest \/ CamPaused \/ CamSelect \/ CamNoEvent
  BY <1>2, CamLoopKeeps
<1>3. ASSUME NEW from \in {"select", "events"}, CamChange(from) PROVE UvcInv'
  <2>1. vd.want \in Sizes /\ Pause(Cam, vd.want) /\ Cam \in Changers
    BY <1>3 DEF CamChange, UvcInv, TypeOK, Changers
  <2>2. /\ topic = "resolution" /\ harm = "none" /\ camPc = from /\ camPc' = "change"
        /\ job[Cam].at = "idle"
        /\ UNCHANGED <<stop, cancelled, harm, topic, picture, bufCap, failed, controlVars>>
    BY <1>3 DEF CamChange, NoJob
  <2>3. vd.live
    BY <1>3, <2>2 DEF UvcInv, ThreadsOK
  <2> QED BY <1>3, <2>1, <2>2, <2>3, PauseKeeps
<1>4. CASE CamCancelledInChange
  BY <1>4, CancelKeeps
<1>5. ASSUME NEW t \in Changers, SetResolution(t) \/ ControlNext(t) PROVE UvcInv'
  BY <1>5, ChangeKeeps, ControlKeeps
<1>6. ASSUME NEW t \in Commanders, CommandResolution(t) \/ CommandHarm(t) PROVE UvcInv'
  BY <1>6, CommandKeeps
<1>7. CASE Stop \/ InputStop \/ UNCHANGED vars
  <2>1. /\ stop' \in BOOLEAN /\ cancelled' \in BOOLEAN
        /\ UNCHANGED <<harm, topic, vd, camPc, picture, bufCap, job, overlap, failed, given,
                       cached, unsure>>
    BY <1>7 DEF Stop, InputStop, vars, camVars, historyVars, controlVars, UvcInv, TypeOK
  <2> QED BY <2>1 DEF UvcInv, TypeOK, JobsOK, ThreadsOK, AloneOK, HarmOK, Changing, Alone, Halfway,
                      Quiet, Whole, CamBusy
<1> QED BY <1>1, <1>2, <1>3, <1>4, <1>5, <1>6, <1>7 DEF Next, CamNext

LEMMA UvcAlways == Spec => []UvcInv
  BY UvcInit, UvcStep, PTL DEF Spec

\* No thread touches a buffer that is not mapped, memory too small for the picture
\* or a closed device, unless a change has overlapped another thread's use.
THEOREM OverlapsAlone == Spec => []OnlyOverlapsHarm
<1>1. UvcInv => OnlyOverlapsHarm
  BY DEF UvcInv, HarmOK, OnlyOverlapsHarm
<1> QED BY <1>1, UvcAlways, PTL

\* A change of the resolution is all or nothing, wherever one of its calls fails.
THEOREM ChangesAreWhole == Spec => []StreamsWhole
<1>1. UvcInv => StreamsWhole
  BY DEF UvcInv, AloneOK, Whole, StreamsWhole
<1> QED BY <1>1, UvcAlways, PTL

-----------------------------------------------------------------------------
(* Controls.                                                               *)

Sets(t, c) == job[t].at \in ControlSteps /\ job[t].control = c

\* One command at a time for a control that is not unsure, and between the call to
\* the driver and the cache the job has what the driver was given.
ShownInv ==
    \A c \in UserClass \ unsure :
        /\ \A t, u \in Changers : Sets(t, c) /\ Sets(u, c) => t = u
        /\ \A t \in Changers : job[t].at = "cache" /\ job[t].control = c => given[c] = job[t].to
        /\ c # First =>
             \/ cached[c] = given[c]
             \/ \E t \in Changers : job[t].at = "cache" /\ job[t].control = c

LEMMA ShownInit == Init => ShownInv
<1> SUFFICES ASSUME Init PROVE ShownInv
  OBVIOUS
<1>1. \A c \in UserClass : cached[c] = IF c \in unsure THEN 0 ELSE given[c]
  BY DEF Init, ControlsRead
<1>2. job = [t \in Changers |-> NoJob]
  BY DEF Init
<1> QED BY <1>1, <1>2 DEF ShownInv, Sets, NoJob, ControlSteps

\* A step that touches no job of a control.
LEMMA OtherJobs ==
    ASSUME ShownInv, UNCHANGED <<given, cached, unsure>>,
           \A u \in Changers : \/ job'[u] = job[u]
                               \/ job[u].at \notin ControlSteps /\ job'[u].at \notin ControlSteps
    PROVE  ShownInv'
  BY DEF ShownInv, Sets, ControlSteps

LEMMA ControlShows ==
    ASSUME UvcInv, ShownInv, NEW t \in Changers, ControlNext(t)
    PROVE  ShownInv'
<1>1. /\ job \in [Changers -> [at : {"idle"} \cup ResolutionSteps \cup ControlSteps,
                               to : 0..MaxSize + MaxValue + 1, control : Controls]]
      /\ given \in [UserClass -> 0..MaxValue]
      /\ cached \in [Controls -> 0..MaxValue + 1] /\ unsure \in SUBSET Controls
  BY DEF UvcInv, TypeOK
<1>2. CASE CommandControl(t)
  <2>1. PICK c \in Controls, v \in 0..MaxValue + 1 :
          /\ job' = [job EXCEPT ![t] = [at |-> "set", to |-> v, control |-> c]]
          /\ unsure' = IF ByOthers(t, c) THEN unsure \cup {c} ELSE unsure
    BY <1>2 DEF CommandControl
  <2>2. job[t].at = "idle" /\ UNCHANGED <<given, cached>>
    BY <1>2 DEF CommandControl, ControlStep
  <2>3. /\ job'[t] = [at |-> "set", to |-> v, control |-> c]
        /\ \A u \in Changers : u # t => job'[u] = job[u]
    BY <1>1, <2>1
  <2>4. c \in unsure' \/ \A u \in Changers : u # t => ~Sets(u, c)
    BY <2>1 DEF ByOthers, Sets
  <2>5. unsure \subseteq unsure'
    BY <2>1
  <2> QED BY <2>2, <2>3, <2>4, <2>5 DEF ShownInv, Sets, ControlSteps
<1>3. CASE SetControl(t)
  <2> DEFINE c == job[t].control
  <2>1. /\ job[t].at = "set" /\ c \in Controls /\ cached' = cached
        /\ \/ /\ given' = IF c \in UserClass THEN [given EXCEPT ![c] = job[t].to] ELSE given
              /\ unsure' = IF ByOthers(t, c) THEN unsure ELSE unsure \ {c}
              /\ job' = [job EXCEPT ![t].at = IF c \in UserClass THEN "cache" ELSE "first"]
           \/ /\ UNCHANGED <<given, unsure>>
              /\ job' = [job EXCEPT ![t].at = "first"]
           \/ /\ UNCHANGED <<given, unsure>>
              /\ job' = [job EXCEPT ![t] = NoJob]
    BY <1>1, <1>3 DEF SetControl, ControlStep
  <2>2. \A u \in Changers : u # t => job'[u] = job[u]
    BY <1>1, <2>1
  <2>3. \A d \in UserClass : d # c => given'[d] = given[d]
    BY <1>1, <2>1
  <2>4. CASE /\ UNCHANGED <<given, unsure>> /\ job'[t].at \in {"first", "idle"}
             /\ (job'[t].at = "first" => job'[t].control = c)
    BY <2>1, <2>2, <2>4 DEF ShownInv, Sets, ControlSteps
  <2>5. CASE /\ unsure' = IF ByOthers(t, c) THEN unsure ELSE unsure \ {c}
             /\ c \in UserClass => given'[c] = job[t].to
             /\ job'[t].to = job[t].to /\ job'[t].control = c
             /\ job'[t].at = IF c \in UserClass THEN "cache" ELSE "first"
    <3>1. \A d \in UserClass : d # c => (d \in unsure' <=> d \in unsure)
      BY <2>5
    <3>2. c \notin UserClass \/ c \in unsure' \/ \A u \in Changers : u # t => ~Sets(u, c)
      <4>1. CASE ByOthers(t, c)
        <5>1. c \in unsure \/ \A u, v \in Changers : Sets(u, c) /\ Sets(v, c) => u = v
                          \/ c \notin UserClass
          BY DEF ShownInv
        <5>2. Sets(t, c) /\ unsure' = unsure
          BY <2>1, <2>5, <4>1 DEF Sets, ControlSteps
        <5>3. c \in UserClass => c \in unsure
          BY <4>1, <5>1, <5>2 DEF ByOthers, Sets
        <5> QED BY <5>2, <5>3
      <4>2. CASE ~ByOthers(t, c)
        BY <4>2 DEF ByOthers, Sets
      <4> QED BY <4>1, <4>2
    <3> QED BY <2>1, <2>2, <2>3, <2>5, <3>1, <3>2 DEF ShownInv, Sets, ControlSteps
  <2> QED BY <1>1, <2>1, <2>4, <2>5 DEF NoJob
<1>4. CASE Cache(t)
  <2> DEFINE c == job[t].control
  <2>1. /\ job[t].at = "cache" /\ c \in Controls /\ UNCHANGED <<given, unsure>>
        /\ cached' = [cached EXCEPT ![c] = job[t].to]
        /\ job' = [job EXCEPT ![t].at = "first"]
    BY <1>1, <1>4 DEF Cache, ControlStep
  <2>2. /\ job'[t].at = "first" /\ job'[t].control = c
        /\ \A u \in Changers : u # t => job'[u] = job[u]
    BY <1>1, <2>1
  <2>3. cached'[c] = job[t].to /\ \A d \in Controls : d # c => cached'[d] = cached[d]
    BY <1>1, <2>1
  <2> QED BY <2>1, <2>2, <2>3 DEF ShownInv, Sets, ControlSteps
<1>5. CASE CacheFirst(t)
  <2>1. /\ job[t].at = "first" /\ UNCHANGED <<given, unsure>>
        /\ cached' = [cached EXCEPT ![First] = job[t].to]
        /\ job' = [job EXCEPT ![t] = NoJob]
    BY <1>5 DEF CacheFirst, ControlStep
  <2>2. job'[t] = NoJob /\ \A u \in Changers : u # t => job'[u] = job[u]
    BY <1>1, <2>1
  <2>3. \A d \in Controls : d # First => cached'[d] = cached[d]
    BY <1>1, <2>1
  <2> QED BY <2>1, <2>2, <2>3 DEF ShownInv, Sets, ControlSteps, NoJob
<1> QED BY <1>2, <1>3, <1>4, <1>5 DEF ControlNext

LEMMA ShownStep == UvcInv /\ ShownInv /\ [Next]_vars => ShownInv'
<1> SUFFICES ASSUME UvcInv, ShownInv, [Next]_vars PROVE ShownInv'
  OBVIOUS
<1>1. job \in [Changers -> [at : {"idle"} \cup ResolutionSteps \cup ControlSteps,
                            to : 0..MaxSize + MaxValue + 1, control : Controls]]
  BY DEF UvcInv, TypeOK
<1>2. CASE CamEnable \/ CamTest \/ CamPaused \/ CamSelect \/ CamGrab \/ CamCopy \/ CamPublish
           \/ CamNoEvent \/ CamCleanup
  <2>1. job' = job /\ UNCHANGED <<given, cached, unsure>>
    BY <1>2 DEF CamEnable, CamTest, CamPaused, CamSelect, CamGrab, CamCopy, CamPublish, CamNoEvent,
                CamCleanup, CamGoto, CamStep, controlVars
  <2> QED BY <2>1, OtherJobs
<1>3. ASSUME NEW from \in {"select", "events"}, CamChange(from) PROVE ShownInv'
  <2>1. /\ job[Cam].at = "idle" /\ UNCHANGED <<given, cached, unsure>>
        /\ job' = [job EXCEPT ![Cam] = [NoJob EXCEPT !.at = "disable", !.to = vd.want]]
    BY <1>3 DEF CamChange, Pause, controlVars, NoJob
  <2>2. \A u \in Changers : job'[u] = job[u] \/ (u = Cam /\ job'[u].at = "disable")
    BY <1>1, <2>1 DEF NoJob
  <2> QED BY <2>1, <2>2, OtherJobs DEF ControlSteps
<1>4. CASE CamCancelledInChange
  <2>1. /\ job[Cam].at \in {"close", "open"} /\ UNCHANGED <<given, cached, unsure>>
        /\ job' = [job EXCEPT ![Cam] = NoJob]
    BY <1>4 DEF CamCancelledInChange, controlVars
  <2>2. \A u \in Changers : job'[u] = job[u] \/ (u = Cam /\ job'[u].at = "idle")
    BY <1>1, <2>1 DEF NoJob
  <2> QED BY <2>1, <2>2, OtherJobs DEF ControlSteps
<1>5. ASSUME NEW t \in Changers, SetResolution(t) PROVE ShownInv'
  <2>1. /\ job[t].at \in ResolutionSteps /\ UNCHANGED <<given, cached, unsure>>
        /\ \/ \E to \in ResolutionSteps : job' = [job EXCEPT ![t].at = to]
           \/ job' = [job EXCEPT ![t] = NoJob]
           \/ job' = job
    BY <1>5, ChangeSteps DEF GoesOn, Returns, GoesWrong, ResolutionSteps
  <2>2. \A u \in Changers : job'[u] = job[u] \/ (u = t /\ job'[u].at \in {"idle"} \cup ResolutionSteps)
    BY <1>1, <2>1 DEF NoJob
  <2> QED BY <2>1, <2>2, OtherJobs DEF ControlSteps, ResolutionSteps
<1>6. ASSUME NEW t \in Changers, ControlNext(t) PROVE ShownInv'
  BY <1>6, ControlShows
<1>7. ASSUME NEW t \in Commanders, CommandResolution(t) \/ CommandHarm(t) PROVE ShownInv'
  <2>1. CASE CommandResolution(t)
    <3>1. /\ job[t].at = "idle" /\ UNCHANGED <<given, cached, unsure>>
          /\ \E size \in Sizes : job' = [job EXCEPT ![t] = [NoJob EXCEPT !.at = "disable", !.to = size]]
      BY <2>1 DEF CommandResolution, Step, Pause, controlVars
    <3>2. \A u \in Changers : job'[u] = job[u] \/ (u = t /\ job'[u].at = "disable")
      BY <1>1, <3>1 DEF NoJob
    <3> QED BY <3>1, <3>2, OtherJobs DEF ControlSteps
  <2>2. CASE CommandHarm(t)
    <3>1. job' = job /\ UNCHANGED <<given, cached, unsure>>
      BY <2>2 DEF CommandHarm, Harmed, controlVars
    <3> QED BY <3>1, OtherJobs
  <2> QED BY <1>7, <2>1, <2>2
<1>8. CASE Stop \/ InputStop \/ UNCHANGED vars
  <2>1. job' = job /\ UNCHANGED <<given, cached, unsure>>
    BY <1>8 DEF Stop, InputStop, vars, controlVars
  <2> QED BY <2>1, OtherJobs
<1> QED BY <1>2, <1>3, <1>4, <1>5, <1>6, <1>7, <1>8 DEF Next, CamNext

\* What control.htm shows of a user control is the last value the driver took,
\* whoever sets what, but for the exceptions that ControlsShown names.
THEOREM ControlsAreShown == Spec => []ControlsShown
<1>1. ShownInv => ControlsShown
  BY UvcCameraAssumption DEF ShownInv, ControlsShown
<1>2. Spec => []ShownInv
  BY UvcAlways, ShownInit, ShownStep, PTL DEF Spec
<1> QED BY <1>1, <1>2, PTL
====
