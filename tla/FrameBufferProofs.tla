---- MODULE FrameBufferProofs ----
(***************************************************************************)
(* What FrameBuffer's threads keep true, for any number of threads and any *)
(* setting of the options.                                                 *)
(***************************************************************************)
EXTENDS FrameBuffer, TLAPS

\* The mutex: its holder is the one thread between lock and unlock.
CamHolds    == camPc \in {"copy", "describe", "broadcast", "unlock"}
Holds(c)    == pc[c] \in {"copy", "unlock"}
MutexInv    == /\ CamHolds <=> holder = Cam
               /\ \A c \in Consumers : Holds(c) <=> holder = c

Fits(stamp, id) == stamp = id \/ (WantTimestamp /\ stamp > id)

\* The camera thread's own copy: one picture with its stamp, not of the future.
TmpInv == /\ Fits(tmp.stamp, tmp.id)
          /\ tmp.stamp <= grabs

\* The shared buffer: one picture, or none, outside the camera thread's copy.
DbWhole == db.size = 0 \/ (db.size = db.buf /\ Fits(db.stamp, db.buf))
DbInv   == ~CamLeaving =>
             /\ camPc # "describe" => DbWhole
             /\ camPc = "describe" /\ tmp.kind # "noSof" => db.buf = tmp.id
             /\ 0 <= db.buf /\ db.buf <= tmp.id

\* A consumer's copy: the length it read is the buffer's as long as it holds the
\* mutex, and the copy is whole once it is made.
FrameInv == ~CamLeaving =>
             \A c \in Consumers :
                /\ pc[c] = "copy" => frame[c].size = db.size
                /\ HasCopy(c) => Whole(c)
                /\ frame[c].buf <= db.buf

IInv == TypeOK /\ MutexInv /\ TmpInv /\ DbInv /\ FrameInv

-----------------------------------------------------------------------------

LEMMA TypeInit == Init => TypeOK
<1> SUFFICES ASSUME Init PROVE TypeOK
  OBVIOUS
<1> USE FrameBufferAssumption DEF Init, Nothing, NoTmp, Unwritten
<1>1. /\ db \in [size : 0..MaxGrabs, stamp : 0..MaxGrabs, buf : -2..MaxGrabs]
      /\ tmp \in [id : 0..MaxGrabs, stamp : 0..MaxGrabs, kind : AllKinds]
  BY DEF AllKinds
<1>2. /\ frame \in [Consumers ->
           [size : 0..MaxGrabs, stamp : 0..MaxGrabs, buf : -1..MaxGrabs]]
      /\ asked \in [Consumers -> -2..MaxGrabs]
  OBVIOUS
<1>3. pc \in [Consumers -> {"idle", "loop", "lock", "wait", "woken", "copy",
                            "unlock", "write", "ended"}]
  OBVIOUS
<1>4. stop \in BOOLEAN /\ crashed \in BOOLEAN
  OBVIOUS
<1>5. holder \in Threads \cup {NoThread} /\ grabs \in 0..MaxGrabs
  OBVIOUS
<1>6. everyCount \in 0..(Every - 1)
  OBVIOUS
<1> QED BY <1>1, <1>2, <1>3, <1>4, <1>5, <1>6 DEF TypeOK

LEMMA TypeNext == TypeOK /\ [Next]_vars => TypeOK'
<1> SUFFICES ASSUME TypeOK, [Next]_vars
             PROVE  TypeOK'
  OBVIOUS
<1> USE FrameBufferAssumption DEF TypeOK
<1>1. CASE CamEnable
  BY <1>1 DEF CamEnable, consumerVars
<1>2. CASE CamStop
  BY <1>2 DEF CamStop, CamStep, consumerVars
<1>3. CASE CamFail
  BY <1>3 DEF CamFail, CamStep, consumerVars
<1>4. ASSUME NEW kind \in Kinds, CamGrab(kind)
      PROVE  TypeOK'
  <2>1. NextGrab \in 0..MaxGrabs
    BY DEF NextGrab
  <2>2. tmp' \in [id : 0..MaxGrabs, stamp : 0..MaxGrabs, kind : AllKinds]
    BY <1>4, <2>1 DEF CamGrab
  <2> QED BY <1>4, <2>1, <2>2 DEF CamGrab, CamStep, consumerVars
<1>5. CASE CamGrabEmpty
  BY <1>5 DEF CamGrabEmpty, CamStep, NextGrab, consumerVars
<1>6. CASE CamFilter
  <2>1. Stamped \in [id : 0..MaxGrabs, stamp : 0..MaxGrabs, kind : AllKinds]
    BY DEF Stamped
  <2>2. tmp' \in [id : 0..MaxGrabs, stamp : 0..MaxGrabs, kind : AllKinds]
    BY <1>6, <2>1 DEF CamFilter
  <2>3. everyCount' \in 0..(Every - 1)
    BY <1>6 DEF CamFilter
  <2>4. camPc' \in {"loop", "lock"}
    BY <1>6 DEF CamFilter
  <2>5. UNCHANGED <<stop, crashed, holder, db, grabs, pc, frame, asked>>
    BY <1>6 DEF CamFilter, consumerVars
  <2> QED BY <2>2, <2>3, <2>4, <2>5
<1>7. CASE CamLock
  BY <1>7 DEF CamLock, CamStep, consumerVars, Threads
<1>8. CASE CamCopy
  BY <1>8 DEF CamCopy, CamStep, consumerVars
<1>9. CASE CamDescribe
  <2>1. db' \in [size : 0..MaxGrabs, stamp : 0..MaxGrabs, buf : -2..MaxGrabs]
    <3>1. (IF tmp.kind = "noSof" THEN 0 ELSE tmp.id) \in 0..MaxGrabs
      OBVIOUS
    <3>2. tmp.stamp \in 0..MaxGrabs
      OBVIOUS
    <3> QED BY <1>9, <3>1, <3>2 DEF CamDescribe
  <2> QED BY <1>9, <2>1 DEF CamDescribe, CamStep, consumerVars
<1>10. CASE CamBroadcast
  BY <1>10 DEF CamBroadcast, CamStep
<1>11. CASE CamUnlock
  BY <1>11 DEF CamUnlock, CamStep, consumerVars
<1>12. CASE CamFree
  BY <1>12 DEF CamFree, CamStep, consumerVars, Freed, NoTmp, AllKinds
<1>13. CASE CamNull
  BY <1>13 DEF CamNull, CamStep, consumerVars, NullBuf
<1>14. CASE CamZero
  BY <1>14 DEF CamZero, CamStep, consumerVars
<1>15. CASE Stop
  BY <1>15 DEF Stop, camVars, consumerVars
<1>16. ASSUME NEW c \in Consumers, ConsumerNext(c)
       PROVE  TypeOK'
  <2> USE DEF Goto, camVars, Ended
  <2>1. CASE Connect(c)
    BY <2>1 DEF Connect, Nothing, Unwritten
  <2>2. CASE LoopTest(c)
    BY <2>2 DEF LoopTest
  <2>3. CASE BeginWait(c)
    BY <2>3 DEF BeginWait
  <2>4. CASE Wake(c)
    BY <2>4 DEF Wake, Threads
  <2>5. CASE CopyPicture(c)
    <3>1. db.buf # NullBuf => db.buf \in -1..MaxGrabs
      BY DEF NullBuf
    <3> QED BY <2>5, <3>1 DEF CopyPicture
  <2>6. CASE CopyCrash(c)
    BY <2>6 DEF CopyCrash, consumerVars
  <2>7. CASE Unlock(c)
    BY <2>7 DEF Unlock
  <2>8. CASE Write(c)
    BY <2>8 DEF Write, Unwritten
  <2>9. CASE Spurious(c)
    BY <2>9 DEF Spurious
  <2>10. CASE NoMemory(c)
    BY <2>10 DEF NoMemory, Unwritten
  <2> QED BY <1>16, <2>1, <2>2, <2>3, <2>4, <2>5, <2>6, <2>7, <2>8, <2>9, <2>10
          DEF ConsumerNext, Serving
<1>17. CASE UNCHANGED vars
  BY <1>17 DEF vars, camVars, consumerVars
<1> QED
  BY <1>1, <1>2, <1>3, <1>4, <1>5, <1>6, <1>7, <1>8, <1>9, <1>10, <1>11, <1>12,
     <1>13, <1>14, <1>15, <1>16, <1>17 DEF Next, CamNext

\* The variables keep their types (cam_thread, send_snapshot, send_stream and
\* worker_thread): in particular every_count stays below every, and no consumer
\* copies from NULL and lives.
THEOREM TypeCorrect == Spec => []TypeOK
BY TypeInit, TypeNext, PTL DEF Spec

-----------------------------------------------------------------------------

\* A step of the camera thread, of a consumer, a signal, or nothing.
LEMMA StepCases ==
    [Next]_vars => \/ CamNext
                   \/ Stop
                   \/ \E c \in Consumers : ConsumerNext(c)
                   \/ UNCHANGED vars
BY DEF Next

\* A consumer's step leaves alone the camera thread's variables, the buffer and
\* the other consumers.
LEMMA ConsumerFrame ==
    ASSUME TypeOK, NEW c \in Consumers, ConsumerNext(c)
    PROVE  /\ UNCHANGED <<db, tmp, grabs, everyCount, camPc>>
           /\ \A d \in Consumers \ {c} :
                pc'[d] = pc[d] /\ frame'[d] = frame[d] /\ asked'[d] = asked[d]
<1> USE DEF Goto, camVars, consumerVars
<1>1. CASE Connect(c)
  BY <1>1 DEF Connect, TypeOK
<1>2. CASE LoopTest(c)
  BY <1>2 DEF LoopTest, TypeOK
<1>3. CASE BeginWait(c)
  BY <1>3 DEF BeginWait, TypeOK
<1>4. CASE Wake(c)
  BY <1>4 DEF Wake, TypeOK
<1>5. CASE CopyPicture(c)
  BY <1>5 DEF CopyPicture, TypeOK
<1>6. CASE CopyCrash(c)
  BY <1>6 DEF CopyCrash, TypeOK
<1>7. CASE Unlock(c)
  BY <1>7 DEF Unlock, TypeOK
<1>8. CASE Write(c)
  BY <1>8 DEF Write, TypeOK
<1>9. CASE Spurious(c)
  BY <1>9 DEF Spurious, TypeOK
<1>10. CASE NoMemory(c)
  BY <1>10 DEF NoMemory, TypeOK
<1> QED BY <1>1, <1>2, <1>3, <1>4, <1>5, <1>6, <1>7, <1>8, <1>9, <1>10
        DEF ConsumerNext, Serving

\* Lock and unlock are paired on every path of every thread.
LEMMA MutexStep == TypeOK /\ MutexInv /\ [Next]_vars => MutexInv'
<1> SUFFICES ASSUME TypeOK, MutexInv, [Next]_vars
             PROVE  MutexInv'
  OBVIOUS
<1> USE FrameBufferAssumption DEF MutexInv, CamHolds, Holds, Threads
<1>1. CASE CamNext
  <2> USE DEF CamStep, consumerVars
  <2>1. CASE CamEnable
    BY <2>1 DEF CamEnable
  <2>2. CASE CamStop \/ CamFail
    BY <2>2 DEF CamStop, CamFail
  <2>3. CASE CamGrabEmpty \/ \E kind \in Kinds : CamGrab(kind)
    BY <2>3 DEF CamGrab, CamGrabEmpty
  <2>4. CASE CamFilter
    <3>1. camPc = "filter" /\ camPc' \in {"loop", "lock"}
      BY <2>4 DEF CamFilter
    <3>2. UNCHANGED <<holder, pc>>
      BY <2>4 DEF CamFilter
    <3> QED BY <3>1, <3>2
  <2>5. CASE CamLock
    BY <2>5 DEF CamLock
  <2>6. CASE CamCopy \/ CamDescribe
    <3>1. /\ camPc \in {"copy", "describe"} /\ camPc' \in {"describe", "broadcast"}
          /\ UNCHANGED <<holder, pc>>
      BY <2>6 DEF CamCopy, CamDescribe
    <3> QED BY <3>1
  <2>7. CASE CamBroadcast
    <3>1. \A c \in Consumers : Holds(c)' <=> Holds(c)
      BY <2>7 DEF CamBroadcast, Waiting, TypeOK
    <3> QED BY <2>7, <3>1 DEF CamBroadcast
  <2>8. CASE CamUnlock
    BY <2>8 DEF CamUnlock
  <2>9. CASE CamFree \/ CamNull \/ CamZero
    BY <2>9 DEF CamFree, CamNull, CamZero
  <2> QED BY <1>1, <2>1, <2>2, <2>3, <2>4, <2>5, <2>6, <2>7, <2>8, <2>9 DEF CamNext
<1>2. CASE Stop
  BY <1>2 DEF Stop, camVars, consumerVars
<1>3. ASSUME NEW c \in Consumers, ConsumerNext(c)
      PROVE  MutexInv'
  <2>1. /\ camPc' = camPc
        /\ \A d \in Consumers \ {c} : pc'[d] = pc[d]
    BY <1>3, ConsumerFrame
  <2> USE <2>1 DEF Goto, camVars, consumerVars, TypeOK
  <2>2. CASE Wake(c)
    BY <2>2 DEF Wake
  <2>3. CASE Unlock(c)
    BY <2>3 DEF Unlock
  <2>4. CASE NoMemory(c)
    BY <2>4 DEF NoMemory, Ended
  <2>5. CASE Write(c)
    BY <2>5 DEF Write, Ended
  <2>6. CASE CopyPicture(c) \/ CopyCrash(c)
    BY <2>6 DEF CopyPicture, CopyCrash
  <2>7. CASE Connect(c) \/ LoopTest(c) \/ BeginWait(c) \/ Spurious(c)
    BY <2>7 DEF Connect, LoopTest, BeginWait, Spurious, Ended
  <2> QED BY <1>3, <2>2, <2>3, <2>4, <2>5, <2>6, <2>7 DEF ConsumerNext, Serving
<1>4. CASE UNCHANGED vars
  BY <1>4 DEF vars, camVars, consumerVars
<1> QED BY <1>1, <1>2, <1>3, <1>4, StepCases

-----------------------------------------------------------------------------

\* The camera thread's copy carries its own stamp, or under -timestamp a later one.
LEMMA TmpStep == TypeOK /\ TmpInv /\ [Next]_vars => TmpInv'
<1> SUFFICES ASSUME TypeOK, TmpInv, [Next]_vars
             PROVE  TmpInv'
  OBVIOUS
<1> USE FrameBufferAssumption DEF TmpInv, Fits, TypeOK
<1>1. CASE CamNext
  <2>1. CASE CamEnable \/ CamStop \/ CamFail
    BY <2>1 DEF CamEnable, CamStop, CamFail
  <2>2. ASSUME NEW kind \in Kinds, CamGrab(kind)
        PROVE  TmpInv'
    BY <2>2 DEF CamGrab, NextGrab
  <2>3. CASE CamGrabEmpty
    BY <2>3 DEF CamGrabEmpty, NextGrab
  <2>4. CASE CamFilter
    <3>1. tmp' \in {tmp, Stamped} /\ grabs' = grabs
      BY <2>4 DEF CamFilter
    <3>2. /\ Stamped.id = tmp.id
          /\ Stamped.stamp = IF WantTimestamp THEN grabs ELSE tmp.stamp
      BY DEF Stamped
    <3>3. CASE WantTimestamp
      BY <3>1, <3>2, <3>3
    <3>4. CASE ~WantTimestamp
      BY <3>1, <3>2, <3>4
    <3> QED BY <3>3, <3>4
  <2>5. CASE CamLock \/ CamCopy \/ CamDescribe \/ CamBroadcast \/ CamUnlock
    BY <2>5 DEF CamLock, CamCopy, CamDescribe, CamBroadcast, CamUnlock
  <2>6. CASE CamFree
    BY <2>6 DEF CamFree, NoTmp
  <2>7. CASE CamNull \/ CamZero
    BY <2>7 DEF CamNull, CamZero
  <2> QED BY <1>1, <2>1, <2>2, <2>3, <2>4, <2>5, <2>6, <2>7 DEF CamNext
<1>2. CASE Stop
  BY <1>2 DEF Stop, camVars
<1>3. ASSUME NEW c \in Consumers, ConsumerNext(c)
      PROVE  TmpInv'
  BY <1>3, ConsumerFrame
<1>4. CASE UNCHANGED vars
  BY <1>4 DEF vars, camVars
<1> QED BY <1>1, <1>2, <1>3, <1>4, StepCases

\* Outside the camera thread's copy the buffer holds one picture or is empty.
LEMMA DbStep == TypeOK /\ TmpInv /\ DbInv /\ [Next]_vars => DbInv'
<1> SUFFICES ASSUME TypeOK, TmpInv, DbInv, [Next]_vars
             PROVE  DbInv'
  OBVIOUS
<1> USE FrameBufferAssumption DEF DbInv, DbWhole, Fits, CamLeaving, TypeOK
<1>1. CASE CamNext
  <2> USE DEF CamStep
  <2>1. CASE CamEnable \/ CamStop \/ CamFail
    BY <2>1 DEF CamEnable, CamStop, CamFail
  <2>2. ASSUME NEW kind \in Kinds, CamGrab(kind)
        PROVE  DbInv'
    <3>1. tmp'.id >= tmp.id
      BY <2>2 DEF CamGrab, NextGrab, TmpInv
    <3>2. camPc = "loop" /\ camPc' = "filter" /\ db' = db
      BY <2>2 DEF CamGrab
    <3>3. tmp'.id \in Int
      BY <2>2 DEF CamGrab, NextGrab
    <3> QED BY <3>1, <3>2, <3>3
  <2>3. CASE CamGrabEmpty
    BY <2>3 DEF CamGrabEmpty
  <2>4. CASE CamFilter
    <3>1. tmp'.id = tmp.id /\ db' = db
      BY <2>4 DEF CamFilter, Stamped
    <3>2. camPc = "filter" /\ camPc' \in {"loop", "lock"}
      BY <2>4 DEF CamFilter
    <3> QED BY <3>1, <3>2
  <2>5. CASE CamLock \/ CamBroadcast \/ CamUnlock
    BY <2>5 DEF CamLock, CamBroadcast, CamUnlock
  <2>6. CASE CamCopy
    <3>1. CASE tmp.kind = "noSof"
      BY <2>6, <3>1 DEF CamCopy
    <3>2. CASE tmp.kind # "noSof"
      <4>1. db'.buf = tmp.id /\ tmp' = tmp
        BY <2>6, <3>2 DEF CamCopy
      <4> QED BY <2>6, <4>1 DEF CamCopy
    <3> QED BY <3>1, <3>2
  <2>7. CASE CamDescribe
    <3>1. /\ db'.size = IF tmp.kind = "noSof" THEN 0 ELSE tmp.id
          /\ db'.stamp = tmp.stamp
          /\ db'.buf = db.buf
          /\ tmp' = tmp
      BY <2>7 DEF CamDescribe
    <3>2. camPc = "describe" /\ camPc' = "broadcast"
      BY <2>7 DEF CamDescribe
    <3> QED BY <3>1, <3>2 DEF TmpInv
  <2>8. CASE CamFree \/ CamNull \/ CamZero
    BY <2>8 DEF CamFree, CamNull, CamZero
  <2> QED BY <1>1, <2>1, <2>2, <2>3, <2>4, <2>5, <2>6, <2>7, <2>8 DEF CamNext
<1>2. CASE Stop
  BY <1>2 DEF Stop, camVars
<1>3. ASSUME NEW c \in Consumers, ConsumerNext(c)
      PROVE  DbInv'
  BY <1>3, ConsumerFrame
<1>4. CASE UNCHANGED vars
  BY <1>4 DEF vars, camVars
<1> QED BY <1>1, <1>2, <1>3, <1>4, StepCases

\* What a consumer copies under the mutex is whole, and not older than what it
\* copied before.
LEMMA FrameStep ==
    TypeOK /\ MutexInv /\ TmpInv /\ DbInv /\ FrameInv /\ [Next]_vars => FrameInv'
<1> SUFFICES ASSUME TypeOK, MutexInv, TmpInv, DbInv, FrameInv, [Next]_vars, ~CamLeaving',
                    NEW d \in Consumers
             PROVE  /\ pc'[d] = "copy" => frame'[d].size = db'.size
                    /\ HasCopy(d)' => Whole(d)'
                    /\ frame'[d].buf <= db'.buf
  BY DEF FrameInv
<1> USE FrameBufferAssumption DEF TypeOK, CamLeaving
<1>1. CASE CamNext
  <2> USE DEF CamStep, HasCopy, Whole, StampFits
  <2>1. frame' = frame
    BY <1>1 DEF CamNext, CamEnable, CamStop, CamFail, CamGrab, CamGrabEmpty, CamFilter,
        CamLock, CamCopy, CamDescribe, CamBroadcast, CamUnlock, CamFree, CamNull,
        CamZero, consumerVars
  <2>2. ~CamLeaving
    BY <1>1 DEF CamNext, CamEnable, CamStop, CamFail, CamGrab, CamGrabEmpty, CamFilter,
        CamLock, CamCopy, CamDescribe, CamBroadcast, CamUnlock, CamFree, CamNull,
        CamZero
  <2>3. pc'[d] = pc[d] \/ (pc[d] = "wait" /\ pc'[d] = "woken")
    <3>1. CASE CamBroadcast
      BY <3>1 DEF CamBroadcast, Waiting
    <3>2. CASE ~CamBroadcast
      BY <1>1, <3>2 DEF CamNext, CamEnable, CamStop, CamFail, CamGrab, CamGrabEmpty,
        CamFilter, CamLock, CamCopy, CamDescribe, CamUnlock, CamFree, CamNull, CamZero,
        consumerVars
    <3> QED BY <3>1, <3>2
  <2>4. pc[d] = "copy" => db' = db
    <3>1. CASE CamCopy \/ CamDescribe
      BY <3>1 DEF CamCopy, CamDescribe, MutexInv, CamHolds, Holds, Threads
    <3> QED
      BY <1>1, <2>2, <3>1 DEF CamNext, CamEnable, CamStop, CamFail, CamGrab,
        CamGrabEmpty, CamFilter, CamLock, CamBroadcast, CamUnlock, CamFree, CamNull,
        CamZero
  <2>5. db.buf <= db'.buf
    <3>1. CASE CamCopy
      BY <2>2, <3>1 DEF CamCopy, DbInv
    <3>2. CASE CamDescribe
      BY <2>2, <3>2 DEF CamDescribe
    <3> QED
      BY <1>1, <2>2, <3>1, <3>2 DEF CamNext, CamEnable, CamStop, CamFail, CamGrab,
        CamGrabEmpty, CamFilter, CamLock, CamBroadcast, CamUnlock, CamFree, CamNull,
        CamZero
  <2>6. db'.buf \in Int
    BY <1>1, TypeNext
  <2> QED BY <2>1, <2>2, <2>3, <2>4, <2>5, <2>6 DEF FrameInv
<1>2. CASE Stop
  BY <1>2 DEF Stop, camVars, consumerVars, FrameInv, HasCopy, Whole, StampFits
<1>3. ASSUME NEW c \in Consumers, ConsumerNext(c)
      PROVE  /\ pc'[d] = "copy" => frame'[d].size = db'.size
             /\ HasCopy(d)' => Whole(d)'
             /\ frame'[d].buf <= db'.buf
  <2>1. /\ ~CamLeaving /\ db' = db
        /\ \A e \in Consumers \ {c} : pc'[e] = pc[e] /\ frame'[e] = frame[e]
    BY <1>3, ConsumerFrame
  <2>2. CASE d # c
    BY <2>1, <2>2 DEF FrameInv, HasCopy, Whole, StampFits
  <2>3. CASE d = c
    <3> USE <2>1, <2>3 DEF Goto, camVars, consumerVars, FrameInv, HasCopy, Whole, StampFits
    <3>1. CASE Connect(c)
      BY <3>1 DEF Connect, Nothing, Unwritten, DbInv
    <3>2. CASE LoopTest(c) \/ BeginWait(c) \/ Spurious(c)
      BY <3>2 DEF LoopTest, BeginWait, Spurious, Ended
    <3>3. CASE Wake(c)
      BY <3>3 DEF Wake
    <3>4. CASE NoMemory(c)
      BY <3>4 DEF NoMemory, Ended
    <3>5. CASE CopyPicture(c)
      <4>1. DbWhole /\ frame[c].size = db.size
        <5>1. camPc # "describe"
          BY <3>5 DEF CopyPicture, MutexInv, CamHolds, Holds, Threads
        <5> QED BY <3>5, <5>1 DEF CopyPicture, DbInv
      <4>2. /\ pc'[c] = "unlock"
            /\ frame'[c].size = frame[c].size
            /\ frame'[c].buf = IF frame[c].size = 0 THEN frame[c].buf ELSE db.buf
            /\ c \notin Workers => frame'[c].stamp = db.stamp
        BY <3>5 DEF CopyPicture
      <4> QED BY <4>1, <4>2 DEF DbWhole, Fits
    <3>6. CASE CopyCrash(c)
      BY <3>6 DEF CopyCrash
    <3>7. CASE Unlock(c)
      BY <3>7 DEF Unlock
    <3>8. CASE Write(c)
      BY <3>8 DEF Write, Ended
    <3> QED BY <1>3, <3>1, <3>2, <3>3, <3>4, <3>5, <3>6, <3>7, <3>8
            DEF ConsumerNext, Serving
  <2> QED BY <2>2, <2>3
<1>4. CASE UNCHANGED vars
  BY <1>4 DEF vars, camVars, consumerVars, FrameInv, HasCopy, Whole, StampFits
<1> QED BY <1>1, <1>2, <1>3, <1>4, StepCases

-----------------------------------------------------------------------------

\* The inductive invariant: the mutex is held as the program counters say, and
\* whoever holds it sees one picture. Without MutexInv the camera thread could
\* write between a consumer's reading of size and its copying of buf.
THEOREM BufferInvariant == Spec => []IInv
<1>1. Init => MutexInv /\ TmpInv /\ DbInv /\ FrameInv
  BY FrameBufferAssumption
     DEF Init, MutexInv, CamHolds, Holds, TmpInv, Fits, DbInv, DbWhole, FrameInv,
         CamLeaving, HasCopy, Nothing, NoTmp, Unwritten, Threads
<1>2. IInv /\ [Next]_vars => IInv'
  BY TypeNext, MutexStep, TmpStep, DbStep, FrameStep DEF IInv
<1>3. Init => TypeOK
  BY TypeInit
<1> QED BY <1>1, <1>2, <1>3, PTL DEF Spec, IInv

\* No consumer is handed a picture put together from two while the camera thread
\* is in its loop (cam_thread against send_snapshot, send_stream, worker_thread).
THEOREM PicturesAreWhole == Spec => []WholePicture
<1>1. IInv => WholePicture
  BY DEF IInv, FrameInv, WholePicture
<1> QED BY <1>1, BufferInvariant, PTL

\* A stream or output worker never goes back to an older picture.
THEOREM StreamsGoForward == Spec => NeverGoesBack
<1>1. IInv /\ [Next]_vars =>
        [\A c \in Loopers :
           HasCopy(c)' /\ ~CamLeaving' /\ ~HasCopy(c) => frame'[c].buf >= frame[c].buf]_vars
  <2> SUFFICES ASSUME IInv, [Next]_vars, NEW d \in Loopers,
                      HasCopy(d)', ~CamLeaving', ~HasCopy(d)
               PROVE  frame'[d].buf >= frame[d].buf
    OBVIOUS
  <2> USE FrameBufferAssumption DEF HasCopy, TypeOK, IInv, Loopers, Consumers
  <2>1. CASE CamNext
    <3>1. CASE CamBroadcast
      BY <3>1 DEF CamBroadcast, Waiting
    <3>2. CASE ~CamBroadcast
      BY <2>1, <3>2 DEF CamNext, CamEnable, CamStop, CamFail, CamGrab, CamGrabEmpty,
        CamFilter, CamLock, CamCopy, CamDescribe, CamUnlock, CamFree, CamNull, CamZero,
        consumerVars
    <3> QED BY <3>1, <3>2
  <2>2. CASE Stop
    BY <2>2 DEF Stop, consumerVars
  <2>3. ASSUME NEW c \in Consumers, ConsumerNext(c)
        PROVE  frame'[d].buf >= frame[d].buf
    <3>1. /\ ~CamLeaving
          /\ \A e \in Consumers \ {c} : pc'[e] = pc[e] /\ frame'[e] = frame[e]
      BY <2>3, ConsumerFrame DEF CamLeaving
    <3>2. c = d
      BY <3>1
    <3>3. CopyPicture(c)
      BY <2>3, <3>2 DEF ConsumerNext, Serving, Connect, LoopTest, BeginWait, Wake, Spurious,
        NoMemory, CopyCrash, Unlock, Write, Goto, Ended, consumerVars
    <3>4. frame'[c].buf = IF frame[c].size = 0 THEN frame[c].buf ELSE db.buf
      BY <3>3 DEF CopyPicture
    <3>5. frame[c].buf <= db.buf
      BY <3>1, <3>2 DEF FrameInv
    <3>6. frame[c].buf \in Int /\ db.buf \in Int
      BY <3>2
    <3> QED BY <3>2, <3>4, <3>5, <3>6
  <2>4. CASE UNCHANGED vars
    BY <2>4 DEF vars, consumerVars
  <2> QED BY <2>1, <2>2, <2>3, <2>4, StepCases
<1> QED BY <1>1, BufferInvariant, PTL DEF NeverGoesBack, Spec

-----------------------------------------------------------------------------
(* What a camera promises that hands out no empty buffers, to threads that *)
(* wake by a broadcast only.                                               *)

Steady == ~EmptyBuffers /\ ~SpuriousWakeups

\* The camera thread's picture is the one grabbed last, and newer than what is
\* in the buffer from the time it is grabbed until it is copied.
OrderInv == ~CamLeaving =>
              /\ tmp.id = grabs /\ tmp.stamp = grabs
              /\ db.stamp <= grabs
              /\ camPc \in {"filter", "lock", "copy"} =>
                   /\ tmp.id > db.buf \/ db.buf = MaxGrabs
                   /\ tmp.id > db.stamp \/ db.stamp = MaxGrabs

Beats(n, c) == n > asked[c] \/ asked[c] = MaxGrabs

\* Whoever was woken, or will be by the broadcast that is due, finds a picture
\* that was not there when it began to wait, or none.
AskedInv == ~CamLeaving =>
              \A c \in Consumers :
                /\ asked[c] <= db.buf
                /\ camPc = "describe" /\ tmp.kind # "noSof" /\ pc[c] \in {"wait", "woken"} =>
                     Beats(tmp.id, c)
                /\ camPc = "broadcast" /\ pc[c] = "wait" /\ db.size # 0 => Beats(db.buf, c)
                /\ camPc # "describe" /\ pc[c] \in {"woken", "copy"} /\ db.size # 0 =>
                     Beats(db.buf, c)
                /\ HasCopy(c) /\ frame[c].size # 0 => Beats(frame[c].buf, c)

\* Without empty buffers every grab is a new picture.
LEMMA OrderStep == Steady /\ IInv /\ OrderInv /\ [Next]_vars => OrderInv'
<1> SUFFICES ASSUME Steady, IInv, OrderInv, [Next]_vars, ~CamLeaving'
             PROVE  /\ tmp'.id = grabs' /\ tmp'.stamp = grabs'
                    /\ db'.stamp <= grabs'
                    /\ camPc' \in {"filter", "lock", "copy"} =>
                         /\ tmp'.id > db'.buf \/ db'.buf = MaxGrabs
                         /\ tmp'.id > db'.stamp \/ db'.stamp = MaxGrabs
  BY DEF OrderInv
<1> USE FrameBufferAssumption DEF IInv, TypeOK, CamLeaving, OrderInv
<1>1. CASE CamNext
  <2> USE DEF CamStep
  <2>1. CASE CamEnable \/ CamStop \/ CamFail
    BY <2>1 DEF CamEnable, CamStop, CamFail
  <2>2. ASSUME NEW kind \in Kinds, CamGrab(kind)
        PROVE  /\ tmp'.id = grabs' /\ tmp'.stamp = grabs' /\ db'.stamp <= grabs'
               /\ tmp'.id > db'.buf \/ db'.buf = MaxGrabs
               /\ tmp'.id > db'.stamp \/ db'.stamp = MaxGrabs
    <3>1. db' = db /\ tmp'.id = NextGrab /\ tmp'.stamp = NextGrab /\ grabs' = NextGrab
      BY <2>2 DEF CamGrab
    <3>2. db.buf <= grabs /\ db.stamp <= grabs
      BY <2>2 DEF CamGrab, DbInv
    <3> QED BY <3>1, <3>2 DEF NextGrab
  <2>3. CASE CamGrabEmpty
    BY <2>3 DEF CamGrabEmpty, Steady
  <2>4. CASE CamFilter
    <3>1. /\ tmp' \in {tmp, Stamped} /\ UNCHANGED <<grabs, db>>
          /\ camPc = "filter"
      BY <2>4 DEF CamFilter
    <3>2. Stamped.id = tmp.id /\ Stamped.stamp = grabs
      BY <3>1 DEF Stamped
    <3> QED BY <3>1, <3>2
  <2>5. CASE CamLock \/ CamBroadcast \/ CamUnlock
    BY <2>5 DEF CamLock, CamBroadcast, CamUnlock
  <2>6. CASE CamCopy
    BY <2>6 DEF CamCopy
  <2>7. CASE CamDescribe
    BY <2>7 DEF CamDescribe
  <2>8. CASE CamFree \/ CamNull \/ CamZero
    BY <2>8 DEF CamFree, CamNull, CamZero
  <2> QED BY <1>1, <2>1, <2>2, <2>3, <2>4, <2>5, <2>6, <2>7, <2>8 DEF CamNext
<1>2. CASE Stop
  BY <1>2 DEF Stop, camVars
<1>3. ASSUME NEW c \in Consumers, ConsumerNext(c)
      PROVE  UNCHANGED <<db, tmp, grabs, camPc>>
  BY <1>3, ConsumerFrame
<1>4. CASE UNCHANGED vars
  BY <1>4 DEF vars, camVars
<1> QED BY <1>1, <1>2, <1>3, <1>4, StepCases

\* A thread waits only while nobody writes; what is written then, or announced, is
\* newer than what there was when it began to.
LEMMA AskedStep == Steady /\ IInv /\ OrderInv /\ AskedInv /\ [Next]_vars => AskedInv'
<1> DEFINE Asked(d) ==
             /\ asked[d] <= db.buf
             /\ camPc = "describe" /\ tmp.kind # "noSof" /\ pc[d] \in {"wait", "woken"} =>
                  Beats(tmp.id, d)
             /\ camPc = "broadcast" /\ pc[d] = "wait" /\ db.size # 0 => Beats(db.buf, d)
             /\ camPc # "describe" /\ pc[d] \in {"woken", "copy"} /\ db.size # 0 =>
                  Beats(db.buf, d)
             /\ HasCopy(d) /\ frame[d].size # 0 => Beats(frame[d].buf, d)
<1> SUFFICES ASSUME Steady, IInv, OrderInv, AskedInv, [Next]_vars, ~CamLeaving',
                    NEW d \in Consumers
             PROVE  Asked(d)'
  BY DEF AskedInv
<1> USE FrameBufferAssumption DEF TypeOK, CamLeaving, Beats, HasCopy
<1>1. TypeOK /\ TypeOK'
  BY TypeNext DEF IInv
<1>2. CASE CamNext
  <2> USE DEF CamStep, consumerVars
  <2>1. ~CamLeaving /\ Asked(d)
    BY <1>2 DEF CamNext, CamEnable, CamStop, CamFail, CamGrab, CamGrabEmpty, CamFilter,
        CamLock, CamCopy, CamDescribe, CamBroadcast, CamUnlock, CamFree, CamNull,
        CamZero, AskedInv
  <2>2. CASE CamEnable \/ CamStop \/ CamFail \/ CamGrabEmpty \/ CamLock \/ CamUnlock
             \/ CamFilter \/ \E kind \in Kinds : CamGrab(kind)
    <3>1. /\ UNCHANGED <<db, consumerVars>>
          /\ camPc \notin {"copy", "describe", "broadcast"}
          /\ camPc' \notin {"describe", "broadcast"}
      BY <2>2 DEF CamEnable, CamStop, CamFail, CamGrabEmpty, CamLock, CamUnlock, CamFilter,
          CamGrab
    <3> QED BY <2>1, <3>1
  <2>3. CASE CamCopy
    <3>1. /\ camPc = "copy" /\ camPc' = "describe" /\ UNCHANGED <<tmp, consumerVars>>
          /\ IF tmp.kind = "noSof" THEN db' = db ELSE db' = [db EXCEPT !.buf = tmp.id]
      BY <2>3 DEF CamCopy
    <3>2. db.buf <= tmp.id /\ (tmp.id > db.buf \/ db.buf = MaxGrabs)
      BY <2>1, <3>1 DEF IInv, DbInv, OrderInv
    <3>3. asked[d] \in Int /\ asked[d] <= MaxGrabs /\ db.buf <= MaxGrabs
          /\ db.buf \in Int /\ tmp.id \in Int /\ tmp.id <= MaxGrabs
      BY <1>1
    <3>4. Beats(tmp.id, d) /\ asked[d] <= tmp.id
      BY <2>1, <3>2, <3>3
    <3> QED BY <1>1, <2>1, <3>1, <3>4
  <2>4. CASE CamDescribe
    <3>1. /\ camPc = "describe" /\ camPc' = "broadcast" /\ UNCHANGED <<tmp, consumerVars>>
          /\ db'.size = (IF tmp.kind = "noSof" THEN 0 ELSE tmp.id) /\ db'.buf = db.buf
      BY <2>4, <1>1 DEF CamDescribe
    <3>2. tmp.kind # "noSof" => db.buf = tmp.id
      BY <2>1, <3>1 DEF IInv, DbInv
    <3>3. pc[d] # "copy"
      BY <3>1 DEF IInv, MutexInv, CamHolds, Holds, Threads
    <3> QED BY <2>1, <3>1, <3>2, <3>3
  <2>5. CASE CamBroadcast
    <3>1. /\ camPc = "broadcast" /\ camPc' = "unlock" /\ UNCHANGED <<db, tmp, frame, asked>>
          /\ pc'[d] = IF pc[d] = "wait" THEN "woken" ELSE pc[d]
      BY <2>5 DEF CamBroadcast, Waiting
    <3> QED BY <2>1, <3>1
  <2>6. CASE CamFree \/ CamNull \/ CamZero
    BY <2>6 DEF CamFree, CamNull, CamZero
  <2> QED BY <1>2, <2>2, <2>3, <2>4, <2>5, <2>6 DEF CamNext
<1>3. CASE Stop \/ UNCHANGED vars
  BY <1>3 DEF Stop, vars, camVars, consumerVars, AskedInv
<1>4. ASSUME NEW c \in Consumers, ConsumerNext(c)
      PROVE  Asked(d)'
  <2>1. /\ UNCHANGED <<db, tmp, camPc>> /\ Asked(d)
        /\ d # c => pc'[d] = pc[d] /\ frame'[d] = frame[d] /\ asked'[d] = asked[d]
    BY <1>4, ConsumerFrame DEF IInv, AskedInv
  <2>2. 0 <= db.buf
    BY <2>1 DEF IInv, DbInv
  <2>3. CASE d # c
    BY <2>1, <2>3
  <2>4. CASE d = c
    <3> USE <1>1, <2>4 DEF Goto, camVars
    <3>1. CASE Connect(c) \/ LoopTest(c)
      BY <2>1, <3>1 DEF Connect, LoopTest, Ended
    <3>2. CASE BeginWait(c)
      <4>1. ~CamHolds
        BY <3>2 DEF BeginWait, IInv, MutexInv, Threads
      <4>2. pc'[d] = "wait" /\ asked'[d] = db.buf
        BY <3>2 DEF BeginWait
      <4> QED BY <2>1, <4>1, <4>2 DEF CamHolds
    <3>3. CASE Spurious(c)
      BY <3>3 DEF Spurious, Steady
    <3>4. CASE Wake(c)
      <4>1. pc[d] = "woken" /\ pc'[d] = "copy" /\ asked'[d] = asked[d]
        BY <3>4 DEF Wake
      <4>2. camPc # "describe"
        BY <3>4 DEF Wake, IInv, MutexInv, CamHolds, Threads
      <4> QED BY <2>1, <4>1, <4>2
    <3>5. CASE NoMemory(c) \/ Write(c)
      <4>1. pc'[d] \notin {"wait", "woken", "copy", "unlock", "write"} /\ asked'[d] = 0
        BY <3>5 DEF NoMemory, Write, Ended, Unwritten
      <4> QED BY <2>1, <2>2, <4>1
    <3>6. CASE CopyPicture(c)
      <4>1. /\ pc[d] = "copy" /\ pc'[d] = "unlock" /\ asked'[d] = asked[d]
            /\ frame'[d].size = frame[d].size
            /\ frame'[d].buf = IF frame[d].size = 0 THEN frame[d].buf ELSE db.buf
        BY <3>6 DEF CopyPicture
      <4>2. camPc # "describe"
        BY <4>1 DEF IInv, MutexInv, CamHolds, Holds, Threads
      <4>3. frame[d].size = db.size
        BY <2>1, <4>1 DEF IInv, FrameInv
      <4> QED BY <2>1, <4>1, <4>2, <4>3
    <3>7. CASE CopyCrash(c)
      BY <2>1, <3>7 DEF CopyCrash, consumerVars
    <3>8. CASE Unlock(c)
      <4>1. pc[d] = "unlock" /\ pc'[d] = "write" /\ UNCHANGED <<frame, asked>>
        BY <3>8 DEF Unlock
      <4> QED BY <2>1, <4>1
    <3> QED BY <1>4, <3>1, <3>2, <3>3, <3>4, <3>5, <3>6, <3>7, <3>8 DEF ConsumerNext, Serving
  <2> QED BY <2>3, <2>4
<1> QED BY <1>2, <1>3, <1>4, StepCases

LEMMA SteadyInvariant == ASSUME Steady PROVE Spec => [](IInv /\ OrderInv /\ AskedInv)
<1>1. Init => OrderInv /\ AskedInv
  BY FrameBufferAssumption
     DEF Init, OrderInv, AskedInv, CamLeaving, HasCopy, Nothing, NoTmp, Unwritten
<1>2. IInv /\ OrderInv /\ AskedInv /\ [Next]_vars => OrderInv' /\ AskedInv'
  BY OrderStep, AskedStep
<1> QED BY <1>1, <1>2, BufferInvariant, PTL DEF Spec

\* "wait for a fresh frame": from a camera without empty buffers no consumer is
\* handed a picture that was there when it began to wait, however late it comes to
\* copy and however many pictures it misses (send_snapshot, send_stream).
THEOREM PicturesAreFresh == ASSUME Steady PROVE Spec => []FreshFrame
<1>1. IInv /\ AskedInv => FreshFrame
  <2> SUFFICES ASSUME IInv, AskedInv, ~CamLeaving, NEW c \in Consumers,
                      HasCopy(c), frame[c].size # 0, asked[c] < MaxGrabs
               PROVE  frame[c].buf > asked[c]
    BY DEF FreshFrame
  <2>1. Beats(frame[c].buf, c)
    BY DEF AskedInv
  <2> QED BY <2>1 DEF Beats, IInv, TypeOK
<1> QED BY <1>1, SteadyInvariant, PTL

-----------------------------------------------------------------------------
(* The refinement.                                                         *)

\* What each step of the threads is to the readers of FrameFeed.
LEMMA CamImplements ==
    ASSUME Steady, IInv, OrderInv, CamNext
    PROVE  [Feed!FeedNext]_(Feed!feedVars)
<1> DEFINE State  == [c \in Clients |-> FeedState(c)]
           Answer == [c \in Clients |-> FeedAnswer(c)]
<1> USE FrameBufferAssumption DEF IInv
<1>1. TypeOK /\ TypeOK'
  BY TypeNext DEF Next
<1>2. UNCHANGED frame
  BY DEF CamNext, CamEnable, CamStop, CamFail, CamGrab, CamGrabEmpty, CamFilter,
      CamLock, CamCopy, CamDescribe, CamBroadcast, CamUnlock, CamFree, CamNull,
      CamZero, consumerVars
<1>3. \A c \in Consumers : pc'[c] = pc[c] \/ (pc[c] = "wait" /\ pc'[c] = "woken")
  <2>1. CASE CamBroadcast
    BY <2>1, <1>1 DEF CamBroadcast, Waiting, TypeOK
  <2>2. CASE ~CamBroadcast
    BY <2>2 DEF CamNext, CamEnable, CamStop, CamFail, CamGrab, CamGrabEmpty, CamFilter,
        CamLock, CamCopy, CamDescribe, CamUnlock, CamFree, CamNull, CamZero, consumerVars
  <2> QED BY <2>1, <2>2
<1>4. Answer' = Answer
  BY <1>2, <1>3 DEF FeedAnswer, HasCopy, Clients, Consumers, Loopers
<1>5. CASE CamCopy
  <2>1. /\ camPc = "copy" /\ camPc' = "describe" /\ UNCHANGED <<tmp, pc>>
    BY <1>5 DEF CamCopy, CamStep, consumerVars
  <2>2. /\ FeedLatest = [n |-> db.stamp, body |-> db.size]
        /\ FeedLatest' = [n |-> tmp.stamp, body |-> TmpSize]
    BY <2>1 DEF FeedLatest, CamLeaving, TmpSize
  <2>3. FeedLatest' \in Feed!Picture
    BY <1>1, <2>2 DEF TypeOK, Feed!Picture, TmpSize
  <2>4. /\ FeedLatest'.n > FeedLatest.n \/ FeedLatest.n = MaxGrabs
        /\ FeedLatest'.body \in {0, FeedLatest'.n}
    BY <2>1, <2>2 DEF OrderInv, CamLeaving, TmpSize
  <2>5. State' = [c \in Clients |-> IF State[c] = "asking" THEN "ready" ELSE State[c]]
    BY <2>1 DEF FeedState, HasCopy
  <2>6. ~CamLeaving /\ ~CamLeaving'
    BY <2>1 DEF CamLeaving
  <2>7. Feed!Publish
    BY <1>4, <2>3, <2>4, <2>5, <2>6 DEF Feed!Publish
  <2> QED BY <2>7 DEF Feed!FeedNext
<1>6. CASE camPc \in {"enable", "loop"} /\ camPc' = "free"
  <2>1. UNCHANGED <<pc, db>>
    BY <1>6 DEF CamNext, CamEnable, CamStop, CamFail, CamGrab, CamGrabEmpty, CamFilter,
        CamLock, CamCopy, CamDescribe, CamBroadcast, CamUnlock, CamFree, CamNull, CamZero,
        CamStep, consumerVars
  <2>2. State' = State
    BY <1>6, <2>1 DEF FeedState, HasCopy
  <2>3. ~CamLeaving /\ CamLeaving' /\ FeedLatest' = [n |-> 0, body |-> 0]
    BY <1>6 DEF CamLeaving, FeedLatest
  <2>4. Feed!Close
    BY <1>4, <2>2, <2>3 DEF Feed!Close, Feed!NoPicture
  <2> QED BY <2>4 DEF Feed!FeedNext
<1>7. CASE ~CamCopy /\ ~(camPc \in {"enable", "loop"} /\ camPc' = "free")
  <2>1. CamLeaving' = CamLeaving
    BY <1>7 DEF CamNext, CamEnable, CamStop, CamFail, CamGrab, CamGrabEmpty, CamFilter,
        CamLock, CamDescribe, CamBroadcast, CamUnlock, CamFree, CamNull, CamZero,
        CamStep, CamLeaving
  <2>2. FeedLatest' = FeedLatest
    <3>1. CASE CamDescribe
      BY <1>1, <3>1 DEF CamDescribe, CamStep, FeedLatest, CamLeaving, TmpSize, TypeOK
    <3>2. CASE CamLeaving
      BY <2>1, <3>2 DEF FeedLatest, CamLeaving
    <3>3. CASE ~CamDescribe /\ ~CamLeaving
      <4>1. db' = db /\ camPc # "describe" /\ camPc' # "describe"
        BY <1>7, <3>3 DEF CamNext, CamEnable, CamStop, CamFail, CamGrab, CamGrabEmpty,
            CamFilter, CamLock, CamBroadcast, CamUnlock, CamFree, CamNull, CamZero,
            CamStep, CamLeaving
      <4> QED BY <2>1, <3>3, <4>1 DEF FeedLatest
    <3> QED BY <3>1, <3>2, <3>3
  <2>3. State' = State
    <3>1. CASE CamBroadcast
      <4>1. /\ camPc = "broadcast" /\ camPc' = "unlock"
            /\ \A c \in Consumers : pc'[c] = IF pc[c] = "wait" THEN "woken" ELSE pc[c]
        BY <3>1, <1>1 DEF CamBroadcast, CamStep, Waiting, TypeOK
      <4> QED BY <4>1 DEF FeedState, HasCopy, Clients, Consumers, Loopers
    <3>2. CASE ~CamBroadcast
      <4>1. /\ pc' = pc
            /\ camPc \in {"describe", "broadcast"} <=> camPc' \in {"describe", "broadcast"}
        BY <1>7, <3>2 DEF CamNext, CamEnable, CamStop, CamFail, CamGrab, CamGrabEmpty,
            CamFilter, CamLock, CamDescribe, CamUnlock, CamFree, CamNull, CamZero,
            CamStep, consumerVars
      <4> QED BY <4>1 DEF FeedState, HasCopy
    <3> QED BY <3>1, <3>2
  <2> QED BY <1>4, <2>1, <2>2, <2>3 DEF Feed!feedVars
<1> QED BY <1>5, <1>6, <1>7

LEMMA ConsumerImplements ==
    ASSUME Steady, IInv, NEW c \in Consumers, ConsumerNext(c)
    PROVE  [Feed!FeedNext]_(Feed!feedVars)
<1> DEFINE State  == [d \in Clients |-> FeedState(d)]
           Answer == [d \in Clients |-> FeedAnswer(d)]
<1> USE FrameBufferAssumption DEF IInv, Goto, camVars
<1>1. TypeOK /\ TypeOK'
  BY TypeNext DEF Next
<1>2. CamLeaving' = CamLeaving /\ FeedLatest' = FeedLatest
  BY ConsumerFrame DEF CamLeaving, FeedLatest, TmpSize
<1>3. \A d \in Clients \ {c} : FeedState(d)' = FeedState(d) /\ FeedAnswer(d)' = FeedAnswer(d)
  BY ConsumerFrame DEF FeedState, FeedAnswer, HasCopy, Clients, Consumers, Loopers
<1>4. ASSUME UNCHANGED <<FeedState(c), FeedAnswer(c)>>
      PROVE  UNCHANGED Feed!feedVars
  <2>1. State' = State /\ Answer' = Answer
    BY <1>3, <1>4
  <2> QED BY <1>2, <2>1 DEF Feed!feedVars
<1>5. CASE c \in Workers
  <2>1. c \notin Clients
    BY <1>5 DEF Clients, Loopers
  <2>2. State' = State /\ Answer' = Answer
    BY <1>3, <2>1
  <2> QED BY <1>2, <2>2 DEF Feed!feedVars
<1>6. CASE c \in Clients
  <2>1. c \notin Workers /\ Ended(c) = "idle"
    BY <1>6 DEF Clients, Loopers, Ended
  <2>2. CASE Connect(c) \/ LoopTest(c)
    <3>1. /\ pc[c] \in {"idle", "loop"} /\ pc'[c] \in {"idle", "loop", "lock"}
      BY <1>1, <2>1, <2>2 DEF Connect, LoopTest, TypeOK
    <3>2. UNCHANGED <<FeedState(c), FeedAnswer(c)>>
      BY <3>1 DEF FeedState, FeedAnswer, HasCopy
    <3> QED BY <1>4, <3>2
  <2>3. CASE BeginWait(c)
    <3>1. pc[c] = "lock" /\ pc'[c] = "wait" /\ camPc' = camPc /\ ~CamHolds
      BY <1>1, <2>3 DEF BeginWait, TypeOK, MutexInv, Threads
    <3>2. FeedState(c) = "away" /\ FeedState(c)' = "asking" /\ FeedAnswer(c)' = FeedAnswer(c)
      BY <3>1 DEF FeedState, FeedAnswer, HasCopy, CamHolds
    <3>3. State' = [State EXCEPT ![c] = "asking"] /\ Answer' = Answer
      BY <1>3, <3>2
    <3>4. Feed!Ask(c)
      BY <1>2, <1>6, <3>2, <3>3 DEF Feed!Ask
    <3> QED BY <1>6, <3>4 DEF Feed!FeedNext
  <2>4. CASE Spurious(c)
    BY <2>4 DEF Spurious, Steady
  <2>5. CASE Wake(c)
    <3>1. pc[c] = "woken" /\ pc'[c] = "copy"
      BY <1>1, <2>5 DEF Wake, TypeOK
    <3>2. UNCHANGED <<FeedState(c), FeedAnswer(c)>>
      BY <3>1 DEF FeedState, FeedAnswer, HasCopy
    <3> QED BY <1>4, <3>2
  <2>6. CASE NoMemory(c) \/ Write(c)
    <3>1. pc[c] \in {"copy", "unlock", "write"} /\ pc'[c] \in {"idle", "loop"}
      BY <1>1, <2>1, <2>6 DEF NoMemory, Write, TypeOK
    <3>2. /\ FeedState(c) \in {"ready", "served"} /\ FeedState(c)' = "away"
          /\ FeedAnswer(c)' = [n |-> 0, body |-> 0]
      BY <3>1 DEF FeedState, FeedAnswer, HasCopy
    <3>3. /\ State' = [State EXCEPT ![c] = "away"]
          /\ Answer' = [Answer EXCEPT ![c] = [n |-> 0, body |-> 0]]
      BY <1>3, <3>2
    <3>4. Feed!Leave(c)
      BY <1>2, <1>6, <3>2, <3>3 DEF Feed!Leave, Feed!NoPicture
    <3> QED BY <1>6, <3>4 DEF Feed!FeedNext
  <2>7. CASE CopyPicture(c)
    <3>1. /\ pc[c] = "copy" /\ pc'[c] = "unlock"
          /\ frame'[c].size = frame[c].size
          /\ frame'[c].buf = IF frame[c].size = 0 THEN frame[c].buf ELSE db.buf
          /\ frame'[c].stamp = db.stamp
      BY <1>1, <2>1, <2>7 DEF CopyPicture, TypeOK
    <3>2. FeedState(c) = "ready" /\ FeedState(c)' = "served"
      BY <3>1 DEF FeedState, HasCopy
    <3>3. ASSUME ~CamLeaving PROVE FeedAnswer(c)' = FeedLatest
      <4>1. camPc # "describe" /\ frame[c].size = db.size
        BY <3>1, <3>3 DEF MutexInv, CamHolds, Holds, Threads, FrameInv
      <4>2. db.size = 0 \/ db.size = db.buf
        BY <3>3, <4>1 DEF DbInv, DbWhole
      <4> QED BY <3>1, <3>3, <4>1, <4>2 DEF FeedAnswer, FeedLatest, HasCopy
    <3>4. State' = [State EXCEPT ![c] = "served"]
      BY <1>3, <3>2
    <3>5. \A q \in Clients \ {c} : Answer'[q] = Answer[q]
      BY <1>3
    <3>6. Feed!Take(c)
      BY <1>2, <1>6, <3>2, <3>3, <3>4, <3>5 DEF Feed!Take
    <3> QED BY <1>6, <3>6 DEF Feed!FeedNext
  <2>8. CASE CopyCrash(c)
    <3>1. UNCHANGED <<FeedState(c), FeedAnswer(c)>>
      BY <2>8 DEF CopyCrash, consumerVars, FeedState, FeedAnswer, HasCopy
    <3> QED BY <1>4, <3>1
  <2>9. CASE Unlock(c)
    <3>1. pc[c] = "unlock" /\ pc'[c] = "write" /\ frame' = frame
      BY <1>1, <2>9 DEF Unlock, TypeOK
    <3>2. UNCHANGED <<FeedState(c), FeedAnswer(c)>>
      BY <3>1 DEF FeedState, FeedAnswer, HasCopy
    <3> QED BY <1>4, <3>2
  <2> QED BY <2>2, <2>3, <2>4, <2>5, <2>6, <2>7, <2>8, <2>9 DEF ConsumerNext, Serving
<1> QED BY <1>5, <1>6 DEF Consumers, Clients, Loopers

LEMMA OthersImplement ==
    ASSUME Stop \/ UNCHANGED vars
    PROVE  UNCHANGED Feed!feedVars
<1>1. UNCHANGED <<db, tmp, camPc, pc, frame>>
  BY DEF Stop, vars, camVars, consumerVars
<1> QED BY <1>1 DEF Feed!feedVars, CamLeaving, FeedLatest, TmpSize, FeedState, FeedAnswer, HasCopy

\* The buffer implements FrameFeed: for any number of threads, each HTTP thread
\* that waits is handed one whole picture, the latest, published after it asked
\* (cam_thread against send_snapshot and send_stream), whatever the workers do.
THEOREM BufferImplementsFeed == ASSUME Steady PROVE Spec => ImplementsFeed
<1>1. Init => Feed!FeedInit
  <2> SUFFICES ASSUME Init PROVE Feed!FeedInit
    OBVIOUS
  <2>1. camPc = "enable" /\ db = Nothing /\ \A c \in Clients : pc[c] = "idle"
    BY FrameBufferAssumption DEF Init, Clients, Consumers, Loopers
  <2> QED BY <2>1 DEF Feed!FeedInit, Feed!NoPicture, CamLeaving, FeedLatest, FeedState,
             FeedAnswer, HasCopy, Nothing
<1>2. IInv /\ OrderInv /\ [Next]_vars => [Feed!FeedNext]_(Feed!feedVars)
  BY CamImplements, ConsumerImplements, OthersImplement, StepCases
<1> QED BY <1>1, <1>2, SteadyInvariant, PTL DEF Spec, ImplementsFeed, Feed!FeedSpec
====
