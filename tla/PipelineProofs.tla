---- MODULE PipelineProofs ----
(***************************************************************************)
(* The safety of Pipeline for every input with every output, pictures of   *)
(* any size, packages of any length and any number of takes.               *)
(***************************************************************************)
EXTENDS Pipeline, TLAPS

-----------------------------------------------------------------------------
(* The mutex.                                                              *)

\* Why an input thread that has ended may still hold the mutex.
KeptLock ==
    \/ cause = "cancelled" /\ input \in Files \cup {"ptp2"}
    \/ cause = "noMemory"
    \/ cause \in {"library", "gaveUp"} /\ input = "ptp2"

\* Each holds in->db where it is in its section, and nowhere else but at its end.
HolderOK ==
    /\ at \in {"fill", "publish"} => holder = "input"
    /\ holder = "input" => at \in {"fill", "publish"} \/ (InputEnded /\ KeptLock)
    /\ at = "preview" => input = "ptp2"
    /\ work \in {"room", "copy"} => holder = "worker"
    /\ holder = "worker" => work \in {"room", "copy"} \/ (work = "ended" /\ stop)
    /\ waiting # {} => work = "wait"

(* The memory.                                                             *)

\* A picture of some size is there, but at the thread's end: it was freed, or it
\* was never allocated and the mutex is kept for ever.
DbOK ==
    db.size > 0 => \/ db.mem = "live"
                   \/ db.mem = "freed" /\ at = "gone"
                   \/ db.mem = "null" /\ InputEnded /\ holder = "input"

\* The block the viewer and the autofocus have, and the one of udp.
FixedOK ==
    output \in {"viewer", "autofocus"} =>
        /\ frame = Own /\ block[Own].room = FixedRoom
        /\ work = "ended" \/ block[Own].state = "live"

UdpOK ==
    output = "udp" =>
        /\ pos = 1
        /\ \/ work = "ended"
           \/ frame = Null /\ maxFrame = 0
           \/ frame = 1 /\ block[1].room = maxFrame /\ block[1].state = "live"

\* What the worker copies is the present picture; it has made room for it.
WorkOK ==
    /\ work \in {"room", "copy"} => size = db.size
    /\ work = "copy" /\ output \in {"udp", "zmq"} => size <= maxFrame
    /\ work = "copy" /\ output = "zmq" => frame # Null

\* A block is freed while the worker runs only by a take that grew the frame.
TakeOK ==
    /\ take.left < MaxTakes => output = "zmq"
    /\ take.at # "idle" \/ takes # {} => take.left < MaxTakes
    /\ take.size <= maxFrame
    /\ "grew" \notin takes /\ work # "ended" => \A b \in Blocks : block[b].state # "freed"

\* The place in a package: the first, or one the package has. It is not used where
\* frames[] has none.
PosOK ==
    /\ pos = 1 \/ (output = "zmq" /\ pos <= package.n)
    /\ Alive /\ work \in {"room", "copy", "use"} => pos \in Slots

(* The order.                                                              *)

\* A picture was published since the worker began to wait.
Fresh ==
    \/ work = "wait" /\ ("worker" \notin waiting \/ at = "publish")
    \/ work \in {"room", "copy"}

\* x was published, and the one the worker copies next is newer.
Past(x) == x <= db.n /\ (Fresh => Newer(db.n, x))

\* While no take has grown the frame, it is the slot that is filled.
SlotOK ==
    output = "zmq" /\ "grew" \notin takes /\ pos \in Slots =>
        /\ work = "room" => frame = Pointer(pos)
        /\ work = "copy" => frame = pos

PackageOK ==
    output = "zmq" /\ takes = {} =>
        /\ \A b \in Slots : Past(block[b].n)
        /\ \A i \in 1..(pos - 1) : blob[i] \in {0, block[i].size}
        /\ work = "use" =>
             /\ size = 0 \/ (block[pos].n = copied /\ block[pos].size = size)
             /\ \A b \in Slots \ {pos} : Newer(copied, block[b].n)

AnswerOK ==
    /\ Past(asked)
    /\ output = "udp" /\ work = "use" => Newer(copied, asked)

(* The focus.                                                              *)
FocusOK ==
    IF focus.search THEN focus.max = seen.focus /\ focus.sv = seen.sv
                    ELSE focus.now = seen.focus

PipelineInv ==
    /\ TypeOK
    /\ HolderOK
    /\ DbOK /\ FixedOK /\ UdpOK /\ WorkOK /\ TakeOK /\ PosOK /\ MemoryErrors
    /\ SlotOK /\ PackageOK /\ AnswerOK
    /\ FocusOK

-----------------------------------------------------------------------------
(* What a step that leaves something alone keeps.                          *)

USE SharedPictureAssumption, InputsAssumption, OutputsAssumption, PipelineAssumption

LEMMA NewerNext ==
    ASSUME NEW n \in 0..Last, NEW m \in 0..Last, NEW x \in 0..Last,
           m = n \/ m = (IF n < Last THEN n + 1 ELSE Last)
    PROVE  /\ x <= n => x <= m
           /\ Newer(n, x) => Newer(m, x)
           /\ x <= n /\ m = (IF n < Last THEN n + 1 ELSE Last) => Newer(m, x)
  BY DEF Newer

\* A publication makes nothing older, and all that was there older than it.
LEMMA PastKept ==
    ASSUME SharedTypeOK, SharedTypeOK', NEW x \in 0..Last, Past(x),
           \/ db'.n = db.n /\ (Fresh' => Fresh)
           \/ db'.n = NextPicture
    PROVE  x <= db'.n /\ (Fresh' => Newer(db'.n, x))
<1>1. db.n \in 0..Last /\ db'.n \in 0..Last
  BY DEF SharedTypeOK
<1>2. x <= db.n /\ (Fresh => Newer(db.n, x))
  BY DEF Past
<1>3. CASE db'.n = db.n /\ (Fresh' => Fresh)
  BY <1>2, <1>3
<1>4. CASE db'.n = NextPicture
  BY <1>1, <1>2, <1>4, NewerNext DEF NextPicture
<1> QED BY <1>3, <1>4

LEMMA OutputsKept ==
    ASSUME FixedOK, UdpOK, TakeOK, PosOK, SlotOK, FocusOK, OutputTypeOK, UNCHANGED outputVars,
           Alive' => Alive
    PROVE  FixedOK' /\ UdpOK' /\ TakeOK' /\ PosOK' /\ SlotOK' /\ FocusOK' /\ OutputTypeOK'
<1>1. /\ UNCHANGED <<output, package, work, size, maxFrame, frame, block, pos, blob>>
      /\ UNCHANGED <<take, focus, asked, copied, takes, seen>>
  BY DEF outputVars, workVars, sideVars
<1>2. FixedOK' /\ UdpOK' /\ TakeOK' /\ PosOK'
  BY <1>1 DEF FixedOK, UdpOK, TakeOK, PosOK
<1>3. SlotOK' /\ FocusOK'
  BY <1>1 DEF SlotOK, FocusOK, Pointer
<1>4. OutputTypeOK'
  BY <1>1 DEF OutputTypeOK
<1> QED BY <1>2, <1>3, <1>4

LEMMA OrderKept ==
    ASSUME PackageOK, AnswerOK, SharedTypeOK, SharedTypeOK', OutputTypeOK,
           UNCHANGED outputVars,
           \/ db'.n = db.n /\ (Fresh' => Fresh)
           \/ db'.n = NextPicture
    PROVE  PackageOK' /\ AnswerOK'
<1>1. /\ UNCHANGED <<output, package, work, size, maxFrame, frame, block, pos, blob>>
      /\ UNCHANGED <<take, focus, asked, copied, takes, seen>>
  BY DEF outputVars, workVars, sideVars
<1>2. ASSUME NEW x \in 0..Last, Past(x) PROVE x <= db'.n /\ (Fresh' => Newer(db'.n, x))
  BY <1>2, PastKept
<1>3. AnswerOK'
  <2>1. asked \in 0..Last /\ Past(asked)
    BY DEF AnswerOK, OutputTypeOK
  <2>2. Past(asked)'
    BY <1>1, <1>2, <2>1 DEF Past
  <2> QED BY <1>1, <2>2 DEF AnswerOK
<1>4. PackageOK'
  <2> SUFFICES ASSUME output = "zmq", takes = {} PROVE PackageOK'
    BY <1>1 DEF PackageOK
  <2>1. ASSUME NEW b \in Slots PROVE Past(block[b].n)'
    <3>1. block[b].n \in 0..Last
      BY DEF OutputTypeOK, Block, Blocks, Slots, Own
    <3>2. Past(block[b].n)
      BY DEF PackageOK
    <3> QED BY <1>1, <1>2, <3>1, <3>2 DEF Past
  <2> QED BY <1>1, <2>1 DEF PackageOK
<1> QED BY <1>3, <1>4

-----------------------------------------------------------------------------
(* The input thread.                                                       *)

\* What is left of the invariant when the input thread has taken a step.
InputPart == SharedTypeOK /\ InputTypeOK /\ HolderOK /\ DbOK /\ MemoryErrors

LEMMA FreshKept ==
    ASSUME UNCHANGED outputVars, waiting' \in {waiting, {}}, waiting' = {} => at = "publish" \/ waiting = {},
           at' = "publish" => at = "publish"
    PROVE  Fresh' => Fresh
  BY DEF Fresh, outputVars, workVars

\* Moves that touch nothing but the place of the thread and what it has fetched.
LEMMA QuietStep ==
    ASSUME TypeOK, HolderOK, DbOK, MemoryErrors, Alive, UNCHANGED <<sharedVars, input, outputVars>>,
           InputTypeOK', at \notin {"fill", "publish", "gone"}, at' \notin {"fill", "publish"},
           InputEnded => InputEnded' /\ cause' = cause,
           at' = "preview" => input = "ptp2"
    PROVE  InputPart'
<1>1. UNCHANGED <<stop, holder, waiting, db, died, input, work, output>>
  BY DEF sharedVars, outputVars, workVars
<1>2. SharedTypeOK'
  BY <1>1 DEF TypeOK, SharedTypeOK
<1>3. died' = "no"
  BY <1>1 DEF Alive
<1>4. HolderOK'
  BY <1>1 DEF HolderOK, KeptLock
<1>5. DbOK'
  BY <1>1 DEF DbOK
<1>6. MemoryErrors'
  BY <1>3 DEF MemoryErrors
<1> QED BY <1>2, <1>4, <1>5, <1>6 DEF InputPart

LEMMA InputPartStep ==
    ASSUME TypeOK, HolderOK, DbOK, MemoryErrors, InputNext, UNCHANGED outputVars
    PROVE  /\ InputPart'
           /\ \/ db'.n = db.n /\ (Fresh' => Fresh)
              \/ db'.n = NextPicture
<1> DEFINE Goal == InputPart' /\ ((db'.n = db.n /\ (Fresh' => Fresh)) \/ db'.n = NextPicture)
<1>a. /\ stop \in BOOLEAN /\ holder \in {"nobody", "input", "worker"} /\ waiting \subseteq {"worker"}
      /\ db \in [n : 0..Last, size : 0..MaxSize, mem : Memory]
      /\ died \in Deaths
      /\ input \in InputKinds /\ cause \in Causes /\ got \in 0..MaxSize /\ empties \in 0..Retries
      /\ control \in {"nobody", "input", "zoom"} /\ zoom \in {"idle", "lock", "set"}
      /\ at \in {"test", "fetch", "preview", "lock", "fill", "publish", "quit", "clean", "gone"}
  BY DEF TypeOK, SharedTypeOK, InputTypeOK
<1>b. UNCHANGED <<work, output>>
  BY DEF outputVars, workVars
<1>q. ASSUME Alive, UNCHANGED <<sharedVars, input>>, InputTypeOK',
             at \notin {"fill", "publish", "gone"}, at' \notin {"fill", "publish"},
             InputEnded => InputEnded' /\ cause' = cause, at' = "preview" => input = "ptp2"
      PROVE  Goal
  <2>1. InputPart'
    BY ONLY <1>q, QuietStep, TypeOK, HolderOK, DbOK, MemoryErrors, UNCHANGED outputVars
  <2>2. Fresh' => Fresh
    BY <1>q, FreshKept DEF sharedVars
  <2>3. db'.n = db.n
    BY <1>q DEF sharedVars
  <2> QED BY <2>1, <2>2, <2>3
<1>1. CASE Test
  <2>1. /\ at = "test" /\ at' \in {"quit", "clean", "fetch"} /\ cause' \in {cause, "stop"} /\ Alive
        /\ UNCHANGED <<got, sharedVars, input, empties, control, zoom>>
    BY <1>1 DEF Test, Leave, InputAt, KeepShared, KeepCamera
  <2>2. InputTypeOK'
    BY <1>a, <2>1 DEF InputTypeOK, Causes
  <2> QED BY <1>q, <2>1, <2>2 DEF InputEnded
<1>2. CASE Fetching
  <2>1. /\ at \in {"fetch", "preview"} /\ at' \in {"lock", "preview"} /\ cause' = cause /\ Alive
        /\ at' = "preview" => input = "ptp2"
        /\ got' \in 0..MaxSize /\ control' \in {control, "input"}
        /\ UNCHANGED <<sharedVars, input, empties, zoom>>
    BY <1>2, <1>a DEF Fetching, Fetch, TakeControl, Preview, InputAt, KeepShared, KeepCamera, Sizes
  <2>2. InputTypeOK'
    BY <1>a, <2>1 DEF InputTypeOK, Causes
  <2> QED BY <1>q, <2>1, <2>2 DEF InputEnded
<1>3. CASE Skip \/ FetchFails \/ PreviewFails
  <2>1. /\ at \in {"fetch", "preview"} /\ at' \in {"test", "quit", "clean", "gone"}
        /\ cause' \in {cause, "failed", "library"} /\ Alive
        /\ UNCHANGED <<got, sharedVars, input, empties, control, zoom>>
    BY <1>3 DEF Skip, FetchFails, PreviewFails, Leave, InputAt, KeepShared, KeepCamera
  <2>2. InputTypeOK'
    BY <1>a, <2>1 DEF InputTypeOK, Causes
  <2> QED BY <1>q, <2>1, <2>2 DEF InputEnded
<1>c. Last \in Nat /\ MaxSize \in Nat /\ NextPicture \in 0..Last
  BY <1>a DEF NextPicture
<1>r. ASSUME Alive, UNCHANGED <<died, stop>>, holder' \in {"nobody", "input", "worker"}, HolderOK',
             waiting' \subseteq {"worker"}, db' \in [n : 0..Last, size : 0..MaxSize, mem : Memory],
             DbOK', InputTypeOK',
             \/ db'.n = db.n /\ (Fresh' => Fresh)
             \/ db'.n = NextPicture
      PROVE  Goal
  <2>1. SharedTypeOK'
    BY <1>a, <1>r DEF SharedTypeOK
  <2>2. MemoryErrors'
    BY <1>r DEF MemoryErrors, Alive
  <2> QED BY <1>r, <2>1, <2>2 DEF InputPart
<1>4. CASE LockPicture
  <2>1. /\ at = "lock" /\ at' = "fill" /\ holder = "nobody" /\ holder' = "input" /\ Alive
        /\ UNCHANGED <<stop, waiting, db, died, cause, got, input, empties, control, zoom>>
    BY <1>4 DEF LockPicture, InputAt, Acquire, KeepCamera
  <2>2. InputTypeOK'
    BY <1>a, <2>1 DEF InputTypeOK
  <2>3. HolderOK'
    BY <1>b, <2>1 DEF HolderOK
  <2>4. DbOK'
    BY <2>1 DEF DbOK, InputEnded
  <2>5. Fresh' => Fresh
    BY <2>1, FreshKept
  <2> QED BY <1>a, <1>r, <2>1, <2>2, <2>3, <2>4, <2>5
<1>5. CASE Filling
  <2>1. /\ at = "fill" /\ at' = "publish" /\ Alive
        /\ \E n \in 0..MaxSize : db' = [n |-> NextPicture, size |-> n, mem |-> "live"]
        /\ got' = 0 /\ empties' \in 0..Retries /\ control' \in {control, "nobody"}
        /\ UNCHANGED <<stop, holder, waiting, died, cause, input, zoom>>
    <3>1. CASE Fill
      BY <1>a, <3>1 DEF Fill, InputAt, Filled, KeepCamera
    <3>2. CASE FillPreview
      <4>1. empties' \in 0..Retries
        BY <1>a, <3>2 DEF FillPreview
      <4> QED BY <1>a, <3>2, <4>1 DEF FillPreview, InputAt, Filled
    <3> QED BY <1>5, <3>1, <3>2 DEF Filling
  <2>2. PICK n \in 0..MaxSize : db' = [n |-> NextPicture, size |-> n, mem |-> "live"]
    BY <2>1
  <2>3. /\ db' \in [n : 0..Last, size : 0..MaxSize, mem : Memory] /\ db'.n = NextPicture
        /\ db'.mem = "live"
    BY <1>c, <2>2 DEF Memory
  <2>4. InputTypeOK'
    BY <1>a, <2>1 DEF InputTypeOK
  <2>5. HolderOK'
    BY <1>b, <2>1 DEF HolderOK
  <2>6. DbOK'
    BY <2>3 DEF DbOK
  <2> QED BY <1>a, <1>r, <2>1, <2>3, <2>4, <2>5, <2>6
<1>6. CASE NoMemoryForFile
  <2>1. /\ at = "fill" /\ at' = "quit" /\ cause' = "noMemory" /\ Alive /\ holder = "input"
        /\ db' = [db EXCEPT !.mem = "null"]
        /\ UNCHANGED <<stop, holder, waiting, died, got, input, empties, control, zoom>>
    BY <1>6 DEF NoMemoryForFile, Leave, InputAt, KeepCamera, HolderOK
  <2>2. /\ db' \in [n : 0..Last, size : 0..MaxSize, mem : Memory] /\ db'.n = db.n /\ db'.mem = "null"
    BY <1>a, <2>1 DEF Memory
  <2>3. InputTypeOK'
    BY <1>a, <2>1 DEF InputTypeOK, Causes
  <2>4. HolderOK'
    BY <1>b, <2>1 DEF HolderOK, InputEnded, KeptLock
  <2>5. DbOK'
    BY <2>1, <2>2 DEF DbOK, InputEnded
  <2>6. Fresh' => Fresh
    BY <2>1, FreshKept
  <2> QED BY <1>a, <1>r, <2>1, <2>2, <2>3, <2>4, <2>5, <2>6
<1>7. CASE ReadFails
  <2>1. /\ at = "fill" /\ at' = "quit" /\ cause' = "failed" /\ Alive /\ holder' = "nobody"
        /\ holder = "input" /\ db' = [db EXCEPT !.mem = "null", !.size = 0]
        /\ UNCHANGED <<stop, waiting, died, got, input, empties, control, zoom>>
    BY <1>7 DEF ReadFails, Leave, InputAt, KeepCamera, Release
  <2>2. /\ db' \in [n : 0..Last, size : 0..MaxSize, mem : Memory] /\ db'.n = db.n /\ db'.size = 0
    <3>1. 0 \in 0..MaxSize /\ "null" \in Memory
      BY <1>c DEF Memory
    <3> QED BY <1>a, <2>1, <3>1
  <2>3. InputTypeOK'
    BY <1>a, <2>1 DEF InputTypeOK, Causes
  <2>4. HolderOK'
    BY <1>b, <2>1 DEF HolderOK
  <2>5. DbOK'
    BY <2>2 DEF DbOK
  <2>6. Fresh' => Fresh
    BY <2>1, FreshKept
  <2> QED BY <1>a, <1>r, <2>1, <2>2, <2>3, <2>4, <2>5, <2>6
<1>8. CASE GiveUp \/ FillPreviewFails
  <2>1. /\ at = "fill" /\ at' = "gone" /\ cause' \in {"gaveUp", "library", "noMemory"} /\ Alive
        /\ input = "ptp2" /\ holder = "input" /\ control' \in {control, "nobody"}
        /\ db' = db \/ db' = [db EXCEPT !.n = NextPicture]
        /\ UNCHANGED <<stop, holder, waiting, died, got, input, empties, zoom>>
    BY <1>8 DEF GiveUp, FillPreviewFails, Leave, InputAt, KeepShared, KeepCamera, HolderOK, sharedVars
  <2>2. /\ db' \in [n : 0..Last, size : 0..MaxSize, mem : Memory]
        /\ db'.n = db.n \/ db'.n = NextPicture
        /\ db'.mem = db.mem /\ db'.size = db.size
    BY <1>a, <1>c, <2>1
  <2>3. InputTypeOK'
    BY <1>a, <2>1 DEF InputTypeOK, Causes
  <2>4. HolderOK'
    BY <1>b, <2>1 DEF HolderOK, InputEnded, KeptLock
  <2>5. DbOK'
    BY <2>1, <2>2 DEF DbOK, InputEnded
  <2>6. Fresh' => Fresh
    BY <2>1, FreshKept
  <2> QED BY <1>a, <1>r, <2>1, <2>2, <2>3, <2>4, <2>5, <2>6
<1>9. CASE Publish
  <2>1. /\ at = "publish" /\ at' = "test" /\ Alive /\ holder = "input" /\ holder' = "nobody" /\ waiting' = {}
        /\ UNCHANGED <<stop, db, died, cause, got, input, empties, control, zoom>>
    BY <1>9 DEF Publish, InputAt, Broadcast, Release, KeepCamera
  <2>2. InputTypeOK'
    BY <1>a, <2>1 DEF InputTypeOK
  <2>3. HolderOK'
    BY <1>b, <2>1 DEF HolderOK
  <2>4. DbOK'
    BY <2>1 DEF DbOK, InputEnded
  <2>5. Fresh' => Fresh
    BY <2>1, FreshKept
  <2> QED BY <1>a, <1>r, <2>1, <2>2, <2>3, <2>4, <2>5
<1>10. CASE FreeList
  <2>1. CASE InputAt("quit", "clean") /\ UNCHANGED died
    <3>1. /\ at = "quit" /\ at' = "clean" /\ Alive /\ cause' = cause
          /\ UNCHANGED <<sharedVars, got, input, empties, control, zoom>>
      BY <1>10, <2>1 DEF FreeList, InputAt, KeepCamera, sharedVars
    <3>2. InputTypeOK'
      BY <1>a, <3>1 DEF InputTypeOK
    <3> QED BY <1>q, <3>1, <3>2 DEF InputEnded
  <2>2. CASE at = "quit" /\ input = "newFiles" /\ Die("list") /\ UNCHANGED at
    <3>1. /\ died' = "list"
          /\ UNCHANGED <<stop, holder, waiting, db, at, cause, got, input, empties, control, zoom>>
      BY <1>10, <2>2 DEF FreeList, Die, KeepCamera
    <3>2. InputTypeOK' /\ SharedTypeOK'
      BY <1>a, <3>1 DEF InputTypeOK, SharedTypeOK, Deaths
    <3>3. HolderOK' /\ DbOK'
      BY <1>b, <3>1 DEF HolderOK, DbOK, InputEnded, KeptLock
    <3>4. MemoryErrors'
      BY <2>2, <3>1 DEF MemoryErrors
    <3>5. Fresh' => Fresh
      BY <2>2, <3>1, FreshKept
    <3> QED BY <3>1, <3>2, <3>3, <3>4, <3>5 DEF InputPart
  <2> QED BY <1>10, <2>1, <2>2 DEF FreeList
<1>11. CASE Clean
  <2>1. /\ at = "clean" /\ at' = "gone" /\ Alive
        /\ db' = IF db.mem = "live" THEN [db EXCEPT !.mem = "freed"] ELSE db
        /\ UNCHANGED <<stop, holder, waiting, died, cause, got, input, empties, control, zoom>>
    BY <1>11 DEF Clean, InputAt, KeepCamera
  <2>2. /\ db' \in [n : 0..Last, size : 0..MaxSize, mem : Memory] /\ db'.n = db.n
        /\ db'.size = db.size /\ db'.mem = IF db.mem = "live" THEN "freed" ELSE db.mem
    BY <1>a, <2>1 DEF Memory
  <2>3. InputTypeOK'
    BY <1>a, <2>1 DEF InputTypeOK
  <2>4. HolderOK'
    BY <1>b, <2>1 DEF HolderOK, InputEnded, KeptLock
  <2>5. DbOK'
    BY <2>1, <2>2 DEF DbOK, InputEnded
  <2>6. Fresh' => Fresh
    BY <2>1, FreshKept
  <2> QED BY <1>a, <1>r, <2>1, <2>2, <2>3, <2>4, <2>5, <2>6
<1>12. CASE CancelInput
  <2>1. /\ at' = "clean" /\ cause' = "cancelled" /\ Alive
        /\ at \in {"test", "fetch", "fill", "preview"}
        /\ at = "fill" => input \in Files \cup {"ptp2"}
        /\ UNCHANGED <<stop, holder, waiting, db, died, got, input, empties, control, zoom>>
    BY <1>12, <1>a DEF CancelInput, Cancellable, KeepShared, KeepCamera, sharedVars, InputKinds, Files
  <2>2. InputTypeOK'
    BY <1>a, <2>1 DEF InputTypeOK, Causes
  <2>3. HolderOK'
    BY <1>b, <2>1 DEF HolderOK, InputEnded, KeptLock
  <2>4. DbOK'
    BY <2>1 DEF DbOK, InputEnded
  <2>5. Fresh' => Fresh
    BY <2>1, FreshKept
  <2> QED BY <1>a, <1>r, <2>1, <2>2, <2>3, <2>4, <2>5 DEF HolderOK
<1>13. CASE ZoomAsk \/ ZoomLock \/ ZoomDone
  <2>1. /\ UNCHANGED <<stop, holder, waiting, db, died, at, cause, got, input, empties>>
        /\ control' \in {"zoom", "nobody", control} /\ zoom' \in {"idle", "lock", "set"}
    BY <1>13 DEF ZoomAsk, ZoomLock, ZoomDone, ZoomKeep, KeepShared, sharedVars
  <2>2. InputTypeOK' /\ SharedTypeOK'
    BY <1>a, <2>1 DEF InputTypeOK, SharedTypeOK
  <2>3. HolderOK' /\ DbOK'
    BY <1>b, <2>1 DEF HolderOK, DbOK, InputEnded, KeptLock
  <2>4. MemoryErrors'
    BY <2>1 DEF MemoryErrors, outputVars, workVars
  <2>5. Fresh' => Fresh
    BY <2>1, FreshKept
  <2> QED BY <2>1, <2>2, <2>3, <2>4, <2>5 DEF InputPart
<1> QED BY <1>1, <1>2, <1>3, <1>4, <1>5, <1>6, <1>7, <1>8, <1>9, <1>10, <1>11, <1>12, <1>13 DEF InputNext

-----------------------------------------------------------------------------
(* The blocks.                                                             *)

LEMMA Bounds ==
    /\ Last \in Nat /\ MaxSize \in Nat /\ NSlots \in Nat /\ NSlots >= 1 /\ FixedRoom \in Nat
    /\ 0 \in 0..MaxSize /\ 0 \in 0..Last /\ Own \in Blocks /\ Own \notin Slots /\ 1 \in Slots
    /\ Slots \subseteq Blocks /\ 0 \notin Blocks /\ Blocks \subseteq Nat
    /\ NSlots + 1 = Own /\ Headroom \in Nat
    /\ 0..MaxSize \subseteq Limits /\ Limits \subseteq Nat
    /\ \A x \in 0..MaxSize : x + Headroom \in Limits
    /\ Limits \subseteq Rooms /\ FixedRoom \in Rooms /\ Rooms \subseteq Nat
    /\ Null = 0
  BY DEF Own, Blocks, Slots, Limits, Rooms, Null

LEMMA BlockIs ==
    ASSUME NEW m \in [Blocks -> Block], NEW b \in Blocks
    PROVE  /\ m[b] = [state |-> m[b].state, room |-> m[b].room, n |-> m[b].n, size |-> m[b].size]
           /\ m[b].state \in {"none", "live", "freed"} /\ m[b].room \in Rooms
           /\ m[b].n \in 0..Last /\ m[b].size \in 0..MaxSize
<1>1. m[b] \in Block
  OBVIOUS
<1> QED BY <1>1 DEF Block

LEMMA LiveIs ==
    ASSUME NEW m \in [Blocks -> Block], NEW b \in Blocks, NEW r \in Rooms,
           NEW new, new = [m EXCEPT ![b].state = "live", ![b].room = r]
    PROVE  /\ new \in [Blocks -> Block] /\ new[b].state = "live" /\ new[b].room = r
           /\ \A c \in Blocks : new[c].n = m[c].n /\ new[c].size = m[c].size
           /\ \A c \in Blocks \ {b} : new[c] = m[c]
<1>1. /\ m[b].n \in 0..Last /\ m[b].size \in 0..MaxSize
      /\ m[b] = [state |-> m[b].state, room |-> m[b].room, n |-> m[b].n, size |-> m[b].size]
  BY BlockIs
<1>2. new[b] = [state |-> "live", room |-> r, n |-> m[b].n, size |-> m[b].size]
  BY <1>1
<1>3. new[b] \in Block
  BY <1>1, <1>2 DEF Block
<1>4. \A c \in Blocks \ {b} : new[c] = m[c]
  OBVIOUS
<1>5. new \in [Blocks -> Block]
  BY <1>3, <1>4
<1> QED BY <1>2, <1>4, <1>5

LEMMA FreedIs ==
    ASSUME OutputTypeOK
    PROVE  /\ FrameFreed \in [Blocks -> Block]
           /\ \A c \in Blocks : /\ FrameFreed[c].n = block[c].n /\ FrameFreed[c].size = block[c].size
                                /\ FrameFreed[c].room = block[c].room
<1>1. block \in [Blocks -> Block] /\ frame \in {Null} \cup Blocks
  BY DEF OutputTypeOK
<1>2. CASE frame = Null
  BY <1>1, <1>2 DEF FrameFreed
<1>3. CASE frame # Null
  <2> DEFINE new == [block EXCEPT ![frame].state = "freed"]
  <2>1. frame \in Blocks /\ FrameFreed = new
    BY <1>1, <1>3 DEF FrameFreed
  <2>2. /\ block[frame].n \in 0..Last /\ block[frame].size \in 0..MaxSize /\ block[frame].room \in Rooms
        /\ block[frame] = [state |-> block[frame].state, room |-> block[frame].room,
                           n |-> block[frame].n, size |-> block[frame].size]
    BY <1>1, <2>1, BlockIs
  <2>3. new[frame] = [state |-> "freed", room |-> block[frame].room,
                      n |-> block[frame].n, size |-> block[frame].size]
    BY <1>1, <2>1, <2>2
  <2>4. new[frame] \in Block
    BY <2>2, <2>3 DEF Block
  <2>5. \A c \in Blocks \ {frame} : new[c] = block[c]
    BY <1>1
  <2>6. new \in [Blocks -> Block]
    BY <1>1, <2>1, <2>4, <2>5
  <2>7. new[frame].n = block[frame].n /\ new[frame].size = block[frame].size
        /\ new[frame].room = block[frame].room
    BY <2>3
  <2> HIDE DEF new
  <2> QED BY <2>1, <2>5, <2>6, <2>7
<1> QED BY <1>2, <1>3

\* A copy marks the slot of zmq with the picture, and nothing else.
LEMMA CopiedIs ==
    ASSUME OutputTypeOK, SharedTypeOK, NEW b \in {Null} \cup Blocks, NEW bytes \in 0..MaxSize,
           bytes = 0 \/ b # Null
    PROVE  /\ CopyTo(b, bytes) \in [Blocks -> Block]
           /\ \A c \in Blocks : /\ CopyTo(b, bytes)[c].state = block[c].state
                                /\ CopyTo(b, bytes)[c].room = block[c].room
           /\ \A c \in Blocks \ {b} : CopyTo(b, bytes)[c] = block[c]
           /\ bytes = 0 => CopyTo(b, bytes) = block
           /\ output = "zmq" /\ bytes # 0 /\ b \in Slots =>
                CopyTo(b, bytes)[b].n = db.n /\ CopyTo(b, bytes)[b].size = bytes
<1>1. block \in [Blocks -> Block] /\ db.n \in 0..Last
  BY DEF OutputTypeOK, SharedTypeOK
<1>2. CASE bytes = 0 \/ b = Own \/ output # "zmq"
  <2>1. CopyTo(b, bytes) = block
    BY <1>2 DEF CopyTo
  <2>2. b \in Slots => b # Own
    BY Bounds
  <2> QED BY <1>1, <1>2, <2>1, <2>2
<1>3. CASE ~(bytes = 0 \/ b = Own \/ output # "zmq")
  <2> DEFINE new == [block EXCEPT ![b].n = db.n, ![b].size = bytes]
  <2>1. b \in Blocks /\ CopyTo(b, bytes) = new
    BY <1>3 DEF CopyTo
  <2>2. /\ block[b].state \in {"none", "live", "freed"} /\ block[b].room \in Rooms
        /\ block[b] = [state |-> block[b].state, room |-> block[b].room,
                       n |-> block[b].n, size |-> block[b].size]
    BY <1>1, <2>1, BlockIs
  <2>3. new[b] = [state |-> block[b].state, room |-> block[b].room, n |-> db.n, size |-> bytes]
    BY <1>1, <2>1, <2>2
  <2>4. new[b] \in Block
    BY <1>1, <2>2, <2>3 DEF Block
  <2>5. \A c \in Blocks \ {b} : new[c] = block[c]
    BY <1>1
  <2>6. new \in [Blocks -> Block]
    BY <1>1, <2>1, <2>4, <2>5
  <2> HIDE DEF new
  <2>7. \A c \in Blocks : new[c].state = block[c].state /\ new[c].room = block[c].room
    BY <2>3, <2>5
  <2> QED BY <1>3, <2>1, <2>3, <2>5, <2>6, <2>7
<1> QED BY <1>2, <1>3

LEMMA SentIs ==
    ASSUME OutputTypeOK
    PROVE  /\ Sent \in [Blocks -> Block]
           /\ \A c \in Blocks : /\ Sent[c].state = block[c].state /\ Sent[c].room = block[c].room
                                /\ Sent[c].n = 0 /\ Sent[c].size = 0
<1>1. block \in [Blocks -> Block]
  BY DEF OutputTypeOK
<1>2. ASSUME NEW c \in Blocks
      PROVE  Sent[c] = [state |-> block[c].state, room |-> block[c].room, n |-> 0, size |-> 0]
  <2>1. block[c] = [state |-> block[c].state, room |-> block[c].room,
                    n |-> block[c].n, size |-> block[c].size]
    BY <1>1, BlockIs
  <2>2. Sent[c] = [block[c] EXCEPT !.n = 0, !.size = 0]
    BY DEF Sent
  <2> QED BY <2>1, <2>2
<1>3. ASSUME NEW c \in Blocks PROVE Sent[c] \in Block
  <2>1. block[c].state \in {"none", "live", "freed"} /\ block[c].room \in Rooms
    BY <1>1, BlockIs
  <2>2. 0 \in 0..Last /\ 0 \in 0..MaxSize
    BY Bounds
  <2>3. Sent[c] = [state |-> block[c].state, room |-> block[c].room, n |-> 0, size |-> 0]
    BY <1>2
  <2> QED BY ONLY <2>1, <2>2, <2>3 DEF Block
<1>4. Sent \in [Blocks -> Block]
  BY <1>3 DEF Sent
<1> QED BY <1>2, <1>4

-----------------------------------------------------------------------------
(* The output plugin.                                                      *)

\* What is left of the invariant when the output plugin has taken a step.
OutputPart ==
    /\ SharedTypeOK /\ OutputTypeOK
    /\ HolderOK
    /\ DbOK /\ FixedOK /\ UdpOK /\ WorkOK /\ TakeOK /\ PosOK /\ MemoryErrors
    /\ SlotOK /\ PackageOK /\ AnswerOK
    /\ FocusOK

LEMMA OutputTyped ==
    ASSUME TypeOK
    PROVE  /\ stop \in BOOLEAN /\ holder \in {"nobody", "input", "worker"} /\ waiting \subseteq {"worker"}
           /\ db \in [n : 0..Last, size : 0..MaxSize, mem : Memory]
           /\ db.n \in 0..Last /\ db.size \in 0..MaxSize
           /\ died \in Deaths
           /\ output \in OutputKinds
           /\ work \in {"test", "recv", "lock", "wait", "room", "copy", "use", "ended"}
           /\ size \in 0..MaxSize /\ maxFrame \in Limits
           /\ frame \in {Null} \cup Blocks
           /\ block \in [Blocks -> Block]
           /\ pos \in Blocks
           /\ package \in [n : Packages, buf : Limits \cup {NoBuf}]
           /\ blob \in [Slots -> 0..MaxSize]
           /\ take.size \in 0..MaxSize
           /\ asked \in 0..Last /\ copied \in 0..Last
           /\ takes \subseteq {"copied", "grew", "noMemory"}
  BY DEF TypeOK, SharedTypeOK, OutputTypeOK

\* Nothing the output plugin does lets a waiting worker see a picture that was
\* not published since.
LEMMA FreshStep ==
    ASSUME HolderOK, OutputNext, UNCHANGED inputVars
    PROVE  UNCHANGED <<stop, db>> /\ (Fresh' => Fresh)
<1>1. at' = at
  BY DEF inputVars
<1>2. CASE Await
  <2>1. at # "publish" /\ work' = "wait" /\ "worker" \in waiting' /\ UNCHANGED <<stop, db>>
    <3>1. holder = "nobody" /\ waiting' = waiting \cup {"worker"} /\ work' = "wait" /\ UNCHANGED <<stop, db>>
      BY <1>2 DEF Await, BeginToWait, WorkGoto
    <3> QED BY <3>1 DEF HolderOK
  <2> QED BY <1>1, <2>1 DEF Fresh
<1>3. CASE Woken
  BY <1>3 DEF Woken, WorkGoto, WakesUp, Fresh
<1>4. CASE WorkTest \/ WorkStops \/ Datagram \/ Use \/ SaveFails \/ \E sv \in Sharpness : Judge(sv)
  <2>1. work' \in {"recv", "lock", "ended", "test"} /\ UNCHANGED <<stop, db>>
    BY <1>4 DEF WorkTest, WorkStops, Datagram, Use, SaveFails, Judge, WorkGoto, UseKeep, sharedVars
  <2> QED BY <2>1 DEF Fresh
<1>5. CASE Grow \/ Fits \/ NoRoom \/ Copy
  <2>1. work \in {"room", "copy"} \/ work' = "ended"
    BY <1>5 DEF Grow, Fits, NoRoom, Copy, WorkGoto
  <2>2. work' \in {"room", "copy"} => work \in {"room", "copy"}
    BY <2>1
  <2>3. work' # "wait"
    BY <1>5 DEF Grow, Fits, NoRoom, Copy, WorkGoto
  <2>4. UNCHANGED <<stop, db>>
    BY <1>5 DEF Grow, Fits, NoRoom, Copy, WorkGoto, sharedVars
  <2> QED BY <2>2, <2>3, <2>4 DEF Fresh
<1>6. CASE Pack \/ CancelWorker
  BY <1>6 DEF Pack, PackDies, CancelWorker, Fresh
<1>7. CASE TakeNext
  <2>1. UNCHANGED <<work, stop, db, waiting>>
    BY <1>7 DEF TakeNext, TakeAsk, TakeNoMemory, TakeCopy, TakeWrite, TakeKeep
  <2> QED BY <1>1, <2>1 DEF Fresh
<1> QED BY <1>2, <1>3, <1>4, <1>5, <1>6, <1>7 DEF OutputNext, WorkNext

\* A step that neither marks a block nor begins to use one keeps the order.
LEMMA OrderStep ==
    ASSUME PackageOK, AnswerOK, OutputTypeOK, UNCHANGED <<db, output>>, Fresh' => Fresh,
           asked' = asked \/ Past(asked)',
           \/ takes' # {}
           \/ output # "zmq"
           \/ /\ UNCHANGED <<pos, blob, takes>>
              /\ \A c \in Blocks : block'[c].n = block[c].n /\ block'[c].size = block[c].size,
           \/ work' # "use"
           \/ output = "zmq" /\ takes' # {}
           \/ UNCHANGED <<work, size, copied, asked>>
    PROVE  PackageOK' /\ AnswerOK'
<1>1. ASSUME NEW x, Past(x) PROVE x <= db'.n /\ (Fresh' => Newer(db'.n, x))
  BY <1>1 DEF Past
<1>2. AnswerOK'
  <2>1. Past(asked)'
    BY <1>1 DEF AnswerOK, Past
  <2> QED BY <2>1 DEF AnswerOK
<1>3. PackageOK'
  <2> SUFFICES ASSUME output = "zmq", takes' = {} PROVE PackageOK'
    BY DEF PackageOK
  <2>1. /\ UNCHANGED <<pos, blob, takes>>
        /\ \A c \in Blocks : block'[c].n = block[c].n /\ block'[c].size = block[c].size
    OBVIOUS
  <2>2. pos \in Blocks /\ Slots \subseteq Blocks /\ \A i \in 1..(pos - 1) : i \in Blocks
    <3>1. pos \in Blocks
      BY DEF OutputTypeOK
    <3> QED BY <3>1, Bounds DEF Blocks
  <2>3. \A b \in Slots : Past(block[b].n)'
    BY <1>1, <2>1, <2>2 DEF PackageOK, Past
  <2>4. \A i \in 1..(pos' - 1) : blob'[i] \in {0, block'[i].size}
    BY <2>1, <2>2 DEF PackageOK
  <2>5. ASSUME work' = "use"
        PROVE  /\ size' = 0 \/ (block'[pos'].n = copied' /\ block'[pos'].size = size')
               /\ \A b \in Slots \ {pos'} : Newer(copied', block'[b].n)
    BY <2>1, <2>2, <2>5 DEF PackageOK
  <2> QED BY <2>3, <2>4, <2>5 DEF PackageOK
<1> QED BY <1>2, <1>3

\* A package keeps its length, and buf is as large as max_frame_size was once.
LEMMA PackageIs ==
    ASSUME OutputTypeOK, Pack
    PROVE  /\ package' \in [n : Packages, buf : Limits \cup {NoBuf}] /\ package'.n = package.n
           /\ died' \in {died, "ring", "null", "stale", "long"}
<1>1. package \in [n : Packages, buf : Limits \cup {NoBuf}] /\ maxFrame \in Limits
  BY DEF OutputTypeOK
<1>2. PICK b \in Bufs : package' = [package EXCEPT !.buf = b]
  BY DEF Pack
<1>3. b \in Limits \cup {NoBuf}
  BY <1>1 DEF Bufs
<1>4. package' \in [n : Packages, buf : Limits \cup {NoBuf}] /\ package'.n = package.n
  BY <1>1, <1>2, <1>3
<1>5. died' \in {died, "ring", "null", "stale", "long"}
  <2>1. PackFault(package'.buf, blob') \in {"no", "ring", "null", "stale", "long"}
    BY DEF PackFault
  <2> QED BY <2>1 DEF Pack, PackDies, Die
<1> QED BY <1>4, <1>5

\* The mutex, the condition variable and the picture.
LEMMA HolderStep ==
    ASSUME TypeOK, HolderOK, DbOK, OutputNext, UNCHANGED inputVars
    PROVE  SharedTypeOK' /\ HolderOK' /\ DbOK'
<1>1. /\ UNCHANGED <<input, at, cause>> /\ UNCHANGED <<stop, db>>
      /\ waiting \subseteq {"worker"} /\ holder \in {"nobody", "input", "worker"} /\ stop \in BOOLEAN
      /\ db \in [n : 0..Last, size : 0..MaxSize, mem : Memory]
      /\ died \in Deaths
  BY FreshStep DEF inputVars, TypeOK, SharedTypeOK
<1> DEFINE Goal == /\ waiting' \subseteq {"worker"} /\ holder' \in {"nobody", "input", "worker"}
                   /\ died' \in Deaths
                   /\ HolderOK' /\ (holder = "input" => holder' = "input")
<1> SUFFICES Goal
  <2>1. ASSUME Goal PROVE SharedTypeOK'
    BY <1>1, <2>1 DEF SharedTypeOK
  <2>2. ASSUME Goal PROVE DbOK'
    BY <1>1, <2>2 DEF DbOK, InputEnded
  <2> QED BY <2>1, <2>2
<1>2. CASE WorkTest \/ WorkStops \/ Datagram \/ Use \/ SaveFails \/ \E sv \in Sharpness : Judge(sv)
  <2>1. /\ work \in {"test", "recv", "use"} /\ work' \in {"recv", "lock", "ended", "test"}
        /\ UNCHANGED <<holder, waiting, died>>
    BY <1>2 DEF WorkTest, WorkStops, Datagram, Use, SaveFails, Judge, WorkGoto, UseKeep, sharedVars
  <2>2. HolderOK'
    BY <1>1, <2>1 DEF HolderOK, InputEnded, KeptLock
  <2> QED BY <1>1, <2>1, <2>2
<1>3. CASE Await \/ Woken
  <2>1. /\ \/ /\ work' = "wait" /\ waiting' \subseteq {"worker"} /\ holder' = "nobody"
           \/ /\ work' = "room" /\ waiting' = {} /\ holder' = "worker"
        /\ holder = "nobody" /\ died' \in {died, "ring"}
    BY <1>1, <1>3 DEF Await, Woken, Die, BeginToWait, WakesUp, Acquire, WorkGoto
  <2>2. HolderOK'
    BY <1>1, <2>1 DEF HolderOK, InputEnded, KeptLock
  <2> QED BY <1>1, <2>1, <2>2 DEF Deaths
<1>4. CASE Grow \/ Fits
  <2>1. /\ work = "room" /\ work' \in {"room", "copy"} /\ UNCHANGED <<holder, waiting>>
        /\ died' \in {died, "stale"}
    BY <1>4 DEF Grow, Fits, WorkGoto, Die, sharedVars
  <2>2. HolderOK'
    BY <1>1, <2>1 DEF HolderOK, InputEnded, KeptLock
  <2> QED BY <1>1, <2>1, <2>2 DEF Deaths
<1>5. CASE NoRoom \/ Copy
  <2>1. /\ work \in {"room", "copy"} /\ UNCHANGED waiting
        /\ \/ UNCHANGED <<work, holder>>
           \/ work' \in {"ended", "use"} /\ holder = "worker" /\ holder' = "nobody"
    BY <1>5 DEF NoRoom, Copy, WorkGoto, Release
  <2>2. died' \in Deaths
    <3>1. died' = died \/ died' = CopyFault(frame, size)
      BY <1>5 DEF NoRoom, Copy, Die
    <3> QED BY <1>1, <3>1 DEF CopyFault, Deaths
  <2>3. HolderOK'
    BY <1>1, <2>1 DEF HolderOK, InputEnded, KeptLock
  <2> QED BY <1>1, <2>1, <2>2, <2>3
<1>6. CASE Pack \/ CancelWorker
  <2>1. CASE Pack
    <3>1. /\ work = "use" /\ work' \in {"use", "test"} /\ UNCHANGED <<holder, waiting>>
          /\ died' \in {died, "ring", "null", "stale", "long"}
      <4>1. OutputTypeOK
        BY DEF TypeOK
      <4> QED BY <2>1, <4>1, PackageIs DEF Pack, PackDies
    <3>2. HolderOK'
      BY <1>1, <3>1 DEF HolderOK, InputEnded, KeptLock
    <3> QED BY <1>1, <3>1, <3>2 DEF Deaths
  <2>2. CASE CancelWorker
    <3>1. /\ stop /\ work \in {"recv", "use", "wait"} /\ work' = "ended" /\ UNCHANGED died
          /\ waiting' = {}
          /\ \/ holder' = holder
             \/ holder = "nobody" /\ holder' = "worker"
      BY <1>1, <2>2 DEF CancelWorker, Acquire
    <3>2. HolderOK'
      BY <1>1, <3>1 DEF HolderOK, InputEnded, KeptLock
    <3> QED BY <1>1, <3>1, <3>2
  <2> QED BY <1>6, <2>1, <2>2
<1>7. CASE TakeNext
  <2>1. /\ UNCHANGED <<work, holder, waiting>>
        /\ died' \in {died, "no", "stale", "overrun", "picture"}
    <3>1. UNCHANGED <<work, holder, waiting>>
      BY <1>7 DEF TakeNext, TakeAsk, TakeNoMemory, TakeCopy, TakeWrite, TakeKeep
    <3>2. CASE TakeAsk \/ TakeNoMemory \/ TakeWrite
      BY <3>1, <3>2 DEF TakeAsk, TakeNoMemory, TakeWrite, Die
    <3>3. CASE TakeCopy
      BY <3>1, <3>3 DEF TakeCopy, Die, CopyFault
    <3> QED BY <1>7, <3>2, <3>3 DEF TakeNext
  <2>2. HolderOK'
    BY <1>1, <2>1 DEF HolderOK, InputEnded, KeptLock
  <2> QED BY <1>1, <2>1, <2>2 DEF Deaths
<1> QED BY <1>2, <1>3, <1>4, <1>5, <1>6, <1>7 DEF OutputNext, WorkNext

LEMMA SlotIs ==
    ASSUME OutputTypeOK
    PROVE  /\ Slot \in Blocks /\ Slot # Null
           /\ output = "zmq" => Slot = pos
           /\ output = "udp" => Slot = pos
           /\ GrownSize \in Limits /\ GrownSize >= maxFrame /\ GrownSize >= size
           /\ GrownSize \in Rooms
           /\ output \in {"viewer", "autofocus"} => ~MustGrow
<1>1. /\ pos \in Blocks /\ size \in 0..MaxSize /\ maxFrame \in Limits /\ output \in OutputKinds
  BY DEF OutputTypeOK
<1>2. GrownSize \in Limits /\ GrownSize >= maxFrame /\ GrownSize >= size
  BY <1>1, Bounds DEF GrownSize, TooBig
<1>3. GrownSize \in Rooms
  BY <1>2, Bounds
<1>4. Slot \in Blocks /\ Slot # Null
  BY <1>1, Bounds DEF Slot
<1> QED BY <1>1, <1>2, <1>3, <1>4 DEF Slot, MustGrow

\* The blocks when a take has grown the frame.
Grown(r) == [b \in Blocks |->
                 IF b = Own THEN NewBlock(r)
                 ELSE IF b = frame THEN [block[b] EXCEPT !.state = "freed"] ELSE block[b]]

LEMMA GrownIs ==
    ASSUME OutputTypeOK, NEW r \in Limits
    PROVE  Grown(r) \in [Blocks -> Block]
<1> DEFINE m == block
           new == Grown(r)
<1>a. m \in [Blocks -> Block]
  BY DEF OutputTypeOK
<1>b. ASSUME NEW c \in Blocks
      PROVE  new[c] = IF c = Own THEN NewBlock(r)
                      ELSE IF c = frame THEN [m[c] EXCEPT !.state = "freed"] ELSE m[c]
  BY DEF Grown
<1> HIDE DEF m, new
<1>1. ASSUME NEW c \in Blocks PROVE new[c] \in Block
  <2>1. /\ m[c] = [state |-> m[c].state, room |-> m[c].room, n |-> m[c].n, size |-> m[c].size]
        /\ m[c].state \in {"none", "live", "freed"} /\ m[c].room \in Rooms
        /\ m[c].n \in 0..Last /\ m[c].size \in 0..MaxSize
    BY <1>a, BlockIs
  <2>2. CASE c = Own
    <3>1. new[c] = [state |-> "live", room |-> r, n |-> 0, size |-> 0]
      BY <1>b, <2>2 DEF NewBlock, NoBlock
    <3>2. r \in Rooms /\ 0 \in 0..Last /\ 0 \in 0..MaxSize
      BY Bounds
    <3> QED BY <2>2, <3>1, <3>2 DEF Block
  <2>3. CASE c # Own /\ c = frame
    <3>1. new[c] = [state |-> "freed", room |-> m[c].room, n |-> m[c].n, size |-> m[c].size]
      BY <1>b, <2>1, <2>3
    <3> QED BY <2>1, <3>1 DEF Block
  <2>4. CASE c # Own /\ c # frame
    BY <1>a, <1>b, <2>4
  <2> QED BY <2>2, <2>3, <2>4
<1> USE DEF m, new
<1> QED BY <1>1 DEF Grown

\* A search that begins starts from nothing; the best of a search is updated
\* together with the sharpest picture seen, and kept when it ends.
LEMMA JudgeIs ==
    ASSUME OutputTypeOK, FocusOK, NEW s \in Sharpness, Judge(s)
    PROVE  /\ focus' \in [now : Positions, max : Positions, sv : Levels, search : BOOLEAN]
           /\ seen' \in [focus : Positions, sv : Levels]
           /\ FocusOK'
<1> DEFINE apart == s - focus.sv > Delta \/ focus.sv - s > Delta
           begin == ~focus.search /\ apart
           now   == IF begin THEN [now |-> FocusTop, max |-> FocusTop, sv |-> -1, search |-> TRUE]
                             ELSE focus
           done  == now.search /\ now.now = 0
           better == s > now.sv
           best  == IF begin THEN [focus |-> FocusTop, sv |-> s]
                    ELSE IF now.search /\ ~done /\ s > seen.sv THEN [focus |-> now.now, sv |-> s]
                    ELSE seen
<1>1. /\ focus \in [now : Positions, max : Positions, sv : Levels, search : BOOLEAN]
      /\ seen \in [focus : Positions, sv : Levels]
  BY DEF OutputTypeOK
<1>2. /\ focus' = IF ~now.search THEN now
                  ELSE IF done THEN [now EXCEPT !.now = now.max, !.search = FALSE]
                  ELSE [now EXCEPT !.max = IF better THEN now.now ELSE @,
                                   !.sv  = IF better THEN s ELSE @,
                                   !.now = IF @ > FocusStep THEN @ - FocusStep ELSE 0]
      /\ seen' = best
  BY DEF Judge
<1>3. /\ FocusTop \in Positions /\ 0 \in Positions /\ -1 \in Levels /\ s \in Levels
      /\ s >= -1 /\ s \in Int /\ Positions \subseteq Nat /\ Levels \subseteq Int
      /\ FocusTop > 0 /\ FocusStep \in Nat
  BY DEF Positions, Levels, FirstFocus, FirstSharpness
<1>4. now \in [now : Positions, max : Positions, sv : Levels, search : BOOLEAN]
  BY <1>1, <1>3
<1>5. best \in [focus : Positions, sv : Levels]
  BY <1>1, <1>3, <1>4
<1>6. CASE begin
  <2>1. /\ now = [now |-> FocusTop, max |-> FocusTop, sv |-> -1, search |-> TRUE]
        /\ best = [focus |-> FocusTop, sv |-> s]
    BY <1>6
  <2>2. ~done /\ (better \/ s = -1)
    BY <1>3, <2>1
  <2>3. focus' = [now |-> IF FocusTop > FocusStep THEN FocusTop - FocusStep ELSE 0,
                  max |-> FocusTop, sv |-> s, search |-> TRUE]
    <3>1. now.search /\ now.now = FocusTop /\ now.max = FocusTop /\ now.sv = -1
      BY <2>1
    <3> HIDE DEF now, done, better, best
    <3>2. focus' = [now EXCEPT !.max = FocusTop, !.sv = s,
                               !.now = IF FocusTop > FocusStep THEN FocusTop - FocusStep ELSE 0]
      BY <1>2, <2>2, <3>1
    <3> QED BY ONLY <2>1, <3>2
  <2>4. (IF FocusTop > FocusStep THEN FocusTop - FocusStep ELSE 0) \in Positions
    BY <1>3 DEF Positions
  <2>5. focus' \in [now : Positions, max : Positions, sv : Levels, search : BOOLEAN]
    BY <1>3, <2>3, <2>4
  <2>6. focus'.search /\ focus'.max = FocusTop /\ focus'.sv = s
    BY ONLY <2>3
  <2>7. seen'.focus = FocusTop /\ seen'.sv = s
    BY <1>2, <2>1
  <2>8. FocusOK'
    BY <2>6, <2>7 DEF FocusOK
  <2> HIDE DEF now, best
  <2> QED BY <1>2, <1>5, <2>5, <2>8
<1>7. CASE ~begin /\ ~now.search
  <2>1. focus' = focus /\ best = seen /\ ~focus.search
    BY <1>2, <1>7
  <2> QED BY <1>1, <1>2, <2>1 DEF FocusOK
<1>8. CASE ~begin /\ now.search /\ done
  <2>1. now = focus /\ best = seen /\ focus.max = seen.focus
    BY <1>8 DEF FocusOK
  <2>2. focus' = [now |-> focus.max, max |-> focus.max, sv |-> focus.sv, search |-> FALSE]
    BY <1>1, <1>2, <1>8, <2>1
  <2>3. ~focus'.search /\ focus'.now = focus.max
    BY ONLY <2>2
  <2>4. FocusOK'
    BY <1>2, <2>1, <2>3 DEF FocusOK
  <2>5. focus' \in [now : Positions, max : Positions, sv : Levels, search : BOOLEAN]
    BY <1>1, <2>2
  <2> HIDE DEF best
  <2> QED BY <1>2, <1>5, <2>4, <2>5
<1>9. CASE ~begin /\ now.search /\ ~done
  <2>1. now = focus /\ focus.search /\ focus.max = seen.focus /\ focus.sv = seen.sv
    BY <1>9 DEF FocusOK
  <2> DEFINE next == IF focus.now > FocusStep THEN focus.now - FocusStep ELSE 0
  <2>2. next \in Positions
    <3>1. focus.now \in 0..FocusTop /\ FocusTop \in Nat
      BY <1>1, <1>3 DEF Positions
    <3> QED BY <1>3, <3>1 DEF Positions
  <2>3. CASE s > focus.sv
    <3>1. focus' = [now |-> next, max |-> focus.now, sv |-> s, search |-> TRUE]
      BY <1>1, <1>2, <1>9, <2>1, <2>3
    <3>2. seen' = [focus |-> focus.now, sv |-> s]
      BY <1>2, <1>9, <2>1, <2>3
    <3> QED BY <1>1, <1>3, <2>2, <3>1, <3>2 DEF FocusOK
  <2>4. CASE ~(s > focus.sv)
    <3>1. focus' = [now |-> next, max |-> focus.max, sv |-> focus.sv, search |-> TRUE]
      BY <1>1, <1>2, <1>9, <2>1, <2>4
    <3>2. seen' = seen
      BY <1>2, <1>9, <2>1, <2>4
    <3> QED BY <1>1, <2>1, <2>2, <3>1, <3>2 DEF FocusOK
  <2> QED BY <2>3, <2>4
<1> QED BY <1>6, <1>7, <1>8, <1>9

LEMMA OutputTypeStep ==
    ASSUME TypeOK, PosOK, FocusOK, OutputNext
    PROVE  OutputTypeOK' /\ FocusOK'
<1>1. /\ output \in OutputKinds
      /\ work \in {"test", "recv", "lock", "wait", "room", "copy", "use", "ended"}
      /\ size \in 0..MaxSize /\ maxFrame \in Limits
      /\ db.n \in 0..Last /\ db.size \in 0..MaxSize
      /\ frame \in {Null} \cup Blocks
      /\ block \in [Blocks -> Block]
      /\ pos \in Blocks /\ package \in [n : Packages, buf : Limits \cup {NoBuf}]
      /\ blob \in [Slots -> 0..MaxSize]
      /\ take \in [at : {"idle", "lock", "write"}, size : 0..MaxSize, left : 0..MaxTakes]
      /\ focus \in [now : Positions, max : Positions, sv : Levels, search : BOOLEAN]
      /\ asked \in 0..Last /\ copied \in 0..Last
      /\ takes \subseteq {"copied", "grew", "noMemory"}
      /\ seen \in [focus : Positions, sv : Levels]
      /\ OutputTypeOK /\ SharedTypeOK
  BY DEF TypeOK, SharedTypeOK, OutputTypeOK
<1>k. ASSUME UNCHANGED <<focus, seen>> PROVE FocusOK'
  BY <1>k DEF FocusOK
<1>2. CASE WorkTest \/ Datagram \/ Await \/ Fits \/ NoRoom
  <2>1. /\ work' \in {"recv", "lock", "wait", "copy", "ended"} /\ asked' \in 0..Last
        /\ maxFrame' \in Limits
        /\ UNCHANGED <<output, package, size, frame, block, pos, blob, take, focus, copied, takes, seen>>
    BY <1>1, <1>2, SlotIs DEF WorkTest, Datagram, Await, Fits, NoRoom, WorkGoto, sideVars
  <2> QED BY <1>1, <1>k, <2>1 DEF OutputTypeOK
<1>3. CASE WorkStops \/ CancelWorker
  <2>1. /\ work' = "ended" /\ block' = FrameFreed
        /\ UNCHANGED <<output, package, size, maxFrame, frame, pos, blob, take, focus, asked, copied, takes, seen>>
    BY <1>3 DEF WorkStops, CancelWorker, WorkGoto, sideVars
  <2>2. block' \in [Blocks -> Block]
    BY <1>1, <2>1, FreedIs
  <2> QED BY <1>1, <1>k, <2>1, <2>2 DEF OutputTypeOK
<1>4. CASE Woken
  <2>1. /\ work' = "room" /\ size' = db.size
        /\ frame' \in {Null, pos, frame}
        /\ UNCHANGED <<output, package, maxFrame, block, pos, blob, take, focus, asked, copied, takes, seen>>
    BY <1>4 DEF Woken, WorkGoto, sideVars, Pointer
  <2>2. frame' \in {Null} \cup Blocks
    BY <1>1, <2>1, Bounds
  <2> QED BY <1>1, <1>k, <2>1, <2>2 DEF OutputTypeOK
<1>5. CASE Grow
  <2>1. /\ work' \in {work, "copy"} /\ maxFrame' = GrownSize
        /\ frame' \in {frame, Slot}
        /\ \/ block' = block
           \/ block' = [block EXCEPT ![Slot].state = "live", ![Slot].room = GrownSize]
        /\ UNCHANGED <<output, package, size, pos, blob, take, focus, asked, copied, takes, seen>>
    BY <1>5 DEF Grow, sideVars
  <2>2. block' \in [Blocks -> Block]
    BY <1>1, <2>1, SlotIs, LiveIs
  <2>3. frame' \in {Null} \cup Blocks /\ maxFrame' \in Limits
    BY <1>1, <2>1, SlotIs
  <2> QED BY <1>1, <1>k, <2>1, <2>2, <2>3 DEF OutputTypeOK
<1>6. CASE Copy
  <2>1. /\ work' \in {work, "use"} /\ copied' \in {copied, db.n}
        /\ block' = block \/ (CopyFault(frame, size) = "no" /\ block' = CopyTo(frame, size))
        /\ UNCHANGED <<output, package, size, maxFrame, frame, pos, blob, take, focus, asked, takes, seen>>
    BY <1>6 DEF Copy
  <2>2. CopyFault(frame, size) = "no" => size = 0 \/ frame # Null
    BY <1>1 DEF CopyFault, BadTarget
  <2>3. block' \in [Blocks -> Block]
    BY <1>1, <2>1, <2>2, CopiedIs
  <2> QED BY <1>1, <1>k, <2>1, <2>3 DEF OutputTypeOK
<1>7. CASE Use \/ SaveFails
  <2>1. /\ work' \in {"test", "ended"} /\ size' = 0 /\ copied' = 0 /\ asked' = 0
        /\ UNCHANGED <<output, package, maxFrame, frame, block, pos, blob, take, focus, takes, seen>>
    BY <1>7 DEF Use, SaveFails, WorkGoto, Used, UseKeep
  <2> QED BY <1>1, <1>k, <2>1, Bounds DEF OutputTypeOK
<1>8. CASE Pack
  <2>1. /\ work' \in {work, "test"} /\ size' \in {size, 0} /\ copied' \in {copied, 0}
        /\ asked' \in {asked, 0}
        /\ blob' = [blob EXCEPT ![pos] = size]
        /\ pos' \in {pos, 1} \/ (~PackageFull /\ pos' = pos + 1)
        /\ block' \in {block, Sent}
        /\ takes' \subseteq takes
        /\ output = "zmq"
        /\ UNCHANGED <<output, maxFrame, frame, take, focus, seen>>
        /\ pos \in Slots
    BY <1>8 DEF Pack, PackDies, Used, PosOK
  <2>2. pos' \in Blocks
    <3>1. pos \in 1..NSlots /\ NSlots \in Nat
      BY <2>1, Bounds DEF Slots
    <3> QED BY <2>1, <3>1 DEF Blocks, Own
  <2>3. block' \in [Blocks -> Block]
    BY <1>1, <2>1, SentIs
  <2>4. blob' \in [Slots -> 0..MaxSize]
    BY <1>1, <2>1
  <2>5. package' \in [n : Packages, buf : Limits \cup {NoBuf}]
    BY <1>1, <1>8, PackageIs
  <2> QED BY <1>1, <1>k, <2>1, <2>2, <2>3, <2>4, <2>5, Bounds DEF OutputTypeOK
<1>9. ASSUME NEW s \in Sharpness, Judge(s) PROVE OutputTypeOK' /\ FocusOK'
  <2>1. /\ work' = "test" /\ size' = 0 /\ copied' = 0 /\ asked' = 0
        /\ UNCHANGED <<output, package, maxFrame, frame, block, pos, blob, take, takes>>
    BY <1>9 DEF Judge, WorkGoto, Used, UseKeep
  <2>2. /\ focus' \in [now : Positions, max : Positions, sv : Levels, search : BOOLEAN]
        /\ seen' \in [focus : Positions, sv : Levels]
        /\ FocusOK'
    BY <1>1, <1>9, JudgeIs
  <2> QED BY <1>1, <1>k, <2>1, <2>2, Bounds DEF OutputTypeOK
<1>10. CASE TakeAsk \/ TakeNoMemory \/ TakeWrite
  <2>1. /\ UNCHANGED <<output, package, work, size, frame, block, pos, blob, focus, asked, copied, seen>>
        /\ maxFrame' \in {maxFrame, db.size + Headroom} /\ takes' \subseteq takes \cup {"noMemory"}
    BY <1>10 DEF TakeAsk, TakeNoMemory, TakeWrite, TakeKeep
  <2>2. take' \in [at : {"idle", "lock", "write"}, size : 0..MaxSize, left : 0..MaxTakes]
    <3>1. CASE TakeAsk
      <4>1. take' = [at |-> "lock", size |-> 0, left |-> take.left - 1] /\ take.left > 0
        BY <3>1 DEF TakeAsk
      <4>2. take.left - 1 \in 0..MaxTakes
        BY <1>1, <4>1
      <4> QED BY <4>1, <4>2, Bounds
    <3>2. CASE TakeNoMemory
      <4>1. take' = [take EXCEPT !.at = "idle"]
        BY <3>2 DEF TakeNoMemory
      <4> QED BY <1>1, <4>1
    <3>3. CASE TakeWrite
      <4>1. take' = [take EXCEPT !.at = "idle", !.size = 0]
        BY <3>3 DEF TakeWrite
      <4> QED BY <1>1, <4>1, Bounds
    <3> QED BY <1>10, <3>1, <3>2, <3>3
  <2>3. maxFrame' \in Limits
    BY <1>1, <2>1, Bounds
  <2> QED BY <1>1, <1>k, <2>1, <2>2, <2>3 DEF OutputTypeOK
<1>11. CASE TakeCopy
  <2>1. /\ UNCHANGED <<output, package, work, size, pos, blob, focus, asked, copied, seen>>
        /\ maxFrame' \in {maxFrame, db.size + Headroom} /\ frame' \in {frame, Own}
        /\ takes' \subseteq takes \cup {"copied", "grew"}
        /\ take' = [take EXCEPT !.at = "write", !.size = db.size]
    BY <1>11 DEF TakeCopy, TakeKeep
  <2>2. block' \in [Blocks -> Block]
    <3>1. CASE TakeTooBig
      <4>1. block' = Grown(db.size + Headroom)
        BY <1>11, <3>1 DEF TakeCopy, Grown
      <4>2. db.size + Headroom \in Limits
        BY <1>1, Bounds
      <4> QED BY <1>1, <4>1, <4>2, GrownIs
    <3>2. CASE ~TakeTooBig
      <4>1. block' = block \/ (CopyFault(frame, db.size) = "no" /\ block' = CopyTo(frame, db.size))
        BY <1>11, <3>2 DEF TakeCopy
      <4>2. CopyFault(frame, db.size) = "no" => db.size = 0 \/ frame # Null
        BY <1>1 DEF CopyFault, BadTarget
      <4>3. CopyFault(frame, db.size) = "no" => CopyTo(frame, db.size) \in [Blocks -> Block]
        BY <1>1, <4>2, CopiedIs
      <4> QED BY <1>1, <4>1, <4>3
    <3> QED BY <3>1, <3>2
  <2>3. take' \in [at : {"idle", "lock", "write"}, size : 0..MaxSize, left : 0..MaxTakes]
    BY <1>1, <2>1
  <2>4. frame' \in {Null} \cup Blocks /\ maxFrame' \in Limits
    BY <1>1, <2>1, Bounds
  <2> QED BY <1>1, <1>k, <2>1, <2>2, <2>3, <2>4 DEF OutputTypeOK
<1> QED BY <1>2, <1>3, <1>4, <1>5, <1>6, <1>7, <1>8, <1>9, <1>10, <1>11 DEF OutputNext, WorkNext, TakeNext

\* The memory and the slots.
MemoryPart == FixedOK /\ UdpOK /\ WorkOK /\ TakeOK /\ PosOK /\ MemoryErrors /\ SlotOK

\* Moves that leave the memory alone.
LEMMA MemoryKept ==
    ASSUME OutputTypeOK, MemoryPart, Alive,
           UNCHANGED <<db, output, package, maxFrame, frame, block, pos, take, takes, died>>,
           work # "ended", work' # "use",
           work' \in {"room", "copy"} => work = "room" /\ ~MustGrow /\ size' = size
    PROVE  MemoryPart'
<1>1. FixedOK' /\ UdpOK' /\ TakeOK'
  BY DEF MemoryPart, FixedOK, UdpOK, TakeOK
<1>2. MemoryErrors'
  BY DEF MemoryErrors, Alive
<1>4. PosOK'
  BY DEF MemoryPart, PosOK, Alive
<1>3. WorkOK' /\ SlotOK'
  <2>1. CASE work' \notin {"room", "copy"}
    BY <2>1 DEF WorkOK, SlotOK
  <2>2. CASE work = "room" /\ ~MustGrow /\ size' = size
    <3>1. /\ size = db.size
          /\ output \in {"udp", "zmq"} => ~TooBig
          /\ output = "zmq" => frame # Null
      BY <2>2 DEF MemoryPart, WorkOK, MustGrow
    <3>a. size \in Nat /\ maxFrame \in Nat
      BY Bounds DEF OutputTypeOK
    <3>2. WorkOK'
      BY <2>2, <3>1, <3>a DEF WorkOK, TooBig
    <3>3. output = "zmq" /\ "grew" \notin takes /\ pos \in Slots => frame = Pointer(pos) /\ frame = pos
      BY <2>2, <3>1 DEF MemoryPart, SlotOK, Pointer
    <3>4. SlotOK'
      BY <2>2, <3>3 DEF SlotOK, Pointer
    <3> QED BY <3>2, <3>4
  <2> QED BY <2>1, <2>2
<1> QED BY <1>1, <1>2, <1>3, <1>4 DEF MemoryPart

LEMMA MemoryStepWork ==
    ASSUME TypeOK, HolderOK, DbOK, MemoryPart,
           \/ WorkTest \/ WorkStops \/ Datagram \/ Await \/ Woken \/ Fits \/ NoRoom
           \/ Use \/ SaveFails \/ CancelWorker \/ \E sv \in Sharpness : Judge(sv)
    PROVE  MemoryPart'
<1>a. OutputTypeOK
  BY DEF TypeOK
<1>1. CASE WorkTest \/ Datagram \/ Await \/ Fits
  <2>1. /\ Alive /\ UNCHANGED <<db, output, package, maxFrame, frame, block, pos, take, takes, died, size>>
        /\ work # "ended" /\ work' # "use"
        /\ work' \in {"room", "copy"} => work = "room" /\ ~MustGrow
    BY <1>1 DEF WorkTest, Datagram, Await, Fits, WorkGoto, sideVars, sharedVars
  <2>2. work' \in {"room", "copy"} => work = "room" /\ ~MustGrow /\ size' = size
    BY <2>1
  <2> QED BY <1>a, <2>1, <2>2, MemoryKept
<1>2. CASE Use \/ SaveFails \/ \E sv \in Sharpness : Judge(sv)
  <2>1. /\ Alive /\ UNCHANGED <<db, output, package, maxFrame, frame, block, pos, take, takes, died>>
        /\ work # "ended" /\ work' \notin {"room", "copy", "use"}
    BY <1>2 DEF Use, SaveFails, Judge, WorkGoto, UseKeep, sharedVars
  <2> QED BY <1>a, <2>1, MemoryKept
<1>3. CASE WorkStops \/ CancelWorker
  <2>1. /\ Alive /\ UNCHANGED <<db, output, package, maxFrame, frame, pos, take, takes, died>>
        /\ work' = "ended" /\ block' = FrameFreed
    BY <1>3 DEF WorkStops, CancelWorker, WorkGoto, sideVars, sharedVars
  <2>2. block'[Own].room = block[Own].room
    BY <1>a, <2>1, FreedIs, Bounds
  <2>3. FixedOK' /\ UdpOK' /\ TakeOK' /\ PosOK' /\ WorkOK' /\ SlotOK'
    BY <2>1, <2>2 DEF MemoryPart, FixedOK, UdpOK, TakeOK, PosOK, WorkOK, SlotOK
  <2> QED BY <2>1, <2>3 DEF MemoryPart, MemoryErrors, Alive
<1>4. CASE NoRoom
  <2>1. /\ Alive /\ UNCHANGED <<db, output, package, frame, block, pos, take, takes, died>>
        /\ work' = "ended" /\ maxFrame' = GrownSize /\ MustGrow
    BY <1>4 DEF NoRoom, WorkGoto, sideVars
  <2>2. take.size <= maxFrame'
    <3>1. take.size \in 0..MaxSize /\ maxFrame \in Limits /\ take.size <= maxFrame
      BY OutputTyped DEF MemoryPart, TakeOK
    <3>2. GrownSize \in Limits /\ GrownSize >= maxFrame
      BY <1>a, SlotIs
    <3> QED BY <2>1, <3>1, <3>2, Bounds
  <2>3. FixedOK' /\ UdpOK' /\ TakeOK' /\ PosOK' /\ WorkOK' /\ SlotOK'
    BY <2>1, <2>2 DEF MemoryPart, FixedOK, UdpOK, TakeOK, PosOK, WorkOK, SlotOK
  <2> QED BY <2>1, <2>3 DEF MemoryPart, MemoryErrors, Alive
<1>5. CASE Woken
  <2>1. /\ Alive /\ UNCHANGED <<db, output, package, maxFrame, block, pos, take, takes>>
        /\ work = "wait" /\ work' = "room" /\ size' = db.size
        /\ frame' = IF output = "zmq" /\ pos \in Slots THEN Pointer(pos) ELSE frame
        /\ died' = IF output = "zmq" /\ pos \notin Slots THEN "ring" ELSE died
    BY <1>5 DEF Woken, WorkGoto, Die, sideVars
  <2>2. WorkOK' /\ TakeOK'
    BY <2>1 DEF MemoryPart, WorkOK, TakeOK
  <2>3. FixedOK' /\ UdpOK'
    BY <2>1 DEF MemoryPart, FixedOK, UdpOK
  <2>4. SlotOK'
    BY <2>1 DEF SlotOK, Pointer
  <2>5. CASE output = "zmq" /\ pos \notin Slots
    <3>1. pos \in Blocks /\ package.n \in Nat
      BY <1>a DEF OutputTypeOK
    <3>2. pos <= package.n /\ package.n \notin Slots
      BY <2>5, <3>1, Bounds DEF MemoryPart, PosOK, Blocks, Slots, Own
    <3>3. PosOK'
      BY <2>1, <2>5, <3>2 DEF PosOK, Alive
    <3>4. MemoryErrors'
      BY <2>1, <2>5, <3>2 DEF MemoryErrors
    <3> QED BY <2>2, <2>3, <2>4, <3>3, <3>4 DEF MemoryPart
  <2>6. CASE ~(output = "zmq" /\ pos \notin Slots)
    <3>1. output # "zmq" => pos \in Slots
      BY Bounds DEF MemoryPart, PosOK
    <3>2. PosOK'
      BY <2>1, <2>6, <3>1 DEF MemoryPart, PosOK
    <3> QED BY <2>1, <2>2, <2>3, <2>4, <2>6, <3>2 DEF MemoryPart, MemoryErrors, Alive
  <2> QED BY <2>5, <2>6
<1> QED BY <1>1, <1>2, <1>3, <1>4, <1>5

LEMMA MemoryStepGrow ==
    ASSUME TypeOK, HolderOK, DbOK, MemoryPart, Grow
    PROVE  MemoryPart'
<1>1. /\ OutputTypeOK /\ block \in [Blocks -> Block] /\ pos \in Blocks
      /\ frame \in {Null} \cup Blocks /\ size \in 0..MaxSize /\ maxFrame \in Limits
      /\ take.size \in 0..MaxSize
  BY OutputTyped, Bounds DEF TypeOK
<1>2. /\ Alive /\ died = "no" /\ work = "room" /\ maxFrame' = GrownSize /\ output \in {"udp", "zmq"}
      /\ UNCHANGED <<db, output, package, size, pos, take, takes>>
  BY DEF Grow, MustGrow, Alive, sideVars
<1>3. /\ Slot = pos /\ GrownSize \in Rooms /\ GrownSize >= maxFrame /\ GrownSize >= size
      /\ GrownSize \in Limits
  BY <1>1, <1>2, SlotIs
<1>4. FixedOK'
  BY <1>2 DEF FixedOK
<1>5. size = db.size /\ take.size <= maxFrame'
  BY <1>1, <1>2, <1>3, Bounds DEF MemoryPart, WorkOK, TakeOK
<1>8. PosOK'
  BY <1>2 DEF MemoryPart, PosOK, Alive
<1>6. CASE frame # Null /\ block[frame].state = "freed"
  <2>1. died' = "stale" /\ UNCHANGED <<work, frame, block>>
    BY <1>6 DEF Grow, Die
  <2>2. output = "zmq" /\ take.left < MaxTakes
    <3>1. frame \in Blocks
      BY <1>1, <1>6
    <3>2. "grew" \in takes
      BY <1>2, <1>6, <3>1 DEF MemoryPart, TakeOK
    <3> QED BY <3>2 DEF MemoryPart, TakeOK
  <2>3. UdpOK'
    BY <1>2, <2>2 DEF UdpOK
  <2>4. WorkOK' /\ TakeOK' /\ SlotOK'
    BY <1>2, <1>5, <2>1 DEF MemoryPart, WorkOK, TakeOK, SlotOK, Pointer
  <2>5. MemoryErrors'
    BY <1>2, <2>1, <2>2 DEF MemoryErrors
  <2> QED BY <1>4, <1>8, <2>3, <2>4, <2>5 DEF MemoryPart
<1>7. CASE ~(frame # Null /\ block[frame].state = "freed")
  <2>1. /\ work' = "copy" /\ frame' = pos /\ UNCHANGED died
        /\ block' = [block EXCEPT ![pos].state = "live", ![pos].room = GrownSize]
    BY <1>3, <1>7 DEF Grow
  <2>2. /\ block'[pos].state = "live" /\ block'[pos].room = GrownSize
        /\ \A c \in Blocks \ {pos} : block'[c] = block[c]
    BY <1>1, <1>3, <2>1, LiveIs
  <2>3. UdpOK'
    BY <1>2, <2>1, <2>2 DEF MemoryPart, UdpOK
  <2>4. WorkOK'
    BY <1>1, <1>2, <1>3, <1>5, <2>1, Bounds DEF WorkOK
  <2>5. TakeOK'
    BY <1>2, <1>5, <2>1, <2>2 DEF MemoryPart, TakeOK
  <2>6. SlotOK'
    BY <1>2, <2>1 DEF SlotOK
  <2>7. MemoryErrors'
    BY <1>2, <2>1 DEF MemoryErrors
  <2> QED BY <1>4, <1>8, <2>3, <2>4, <2>5, <2>6, <2>7 DEF MemoryPart
<1> QED BY <1>6, <1>7

\* What a copy to the frame may meet.
LEMMA FaultIs ==
    ASSUME TypeOK, HolderOK, DbOK, MemoryPart, Alive, NEW bytes \in 0..MaxSize, bytes = db.size,
           holder # "input",
           \/ work = "copy" /\ bytes = size
           \/ output = "zmq" /\ take.at = "lock" /\ bytes <= maxFrame
    PROVE  LET fault == CopyFault(frame, bytes) IN
           /\ fault = "picture" => at = "gone"
           /\ fault = "stale" => output = "zmq" /\ take.left < MaxTakes
           /\ fault = "overrun" =>
                \/ output \in {"viewer", "autofocus"} /\ work = "copy" /\ size > FixedRoom
                \/ output = "zmq" /\ block[frame].room < maxFrame
           /\ fault \in {"no", "picture", "stale", "overrun"}
           /\ fault = "no" => bytes = 0 \/ frame \in Blocks
<1>1. /\ block \in [Blocks -> Block] /\ frame \in {Null} \cup Blocks /\ output \in OutputKinds
      /\ size \in 0..MaxSize /\ maxFrame \in Limits
  BY OutputTyped
<1>2. CASE bytes > 0 /\ db.mem # "live"
  <2>1. CopyFault(frame, bytes) = "picture"
    BY <1>1, <1>2 DEF CopyFault, BadSource, BadTarget, Overruns
  <2>2. at = "gone"
    BY <1>2 DEF DbOK
  <2> QED BY <2>1, <2>2
<1>3. CASE bytes = 0
  BY <1>1, <1>3 DEF CopyFault, BadSource, BadTarget, Overruns
<1>4. CASE bytes > 0 /\ db.mem = "live" /\ BadTarget(frame)
  <2>1. CopyFault(frame, bytes) = "stale"
    BY <1>1, <1>4 DEF CopyFault, BadSource, BadTarget, Overruns
  <2>2. CASE output = "zmq" /\ take.at = "lock"
    BY <2>1, <2>2 DEF MemoryPart, TakeOK
  <2>3. CASE work = "copy" /\ bytes = size
    <3>1. output \notin {"viewer", "autofocus"}
      BY <1>4, <2>3, Bounds DEF MemoryPart, FixedOK, BadTarget
    <3>2. output # "udp"
      BY <1>1, <1>4, <2>3, Bounds DEF MemoryPart, UdpOK, WorkOK, BadTarget
    <3>3. output = "zmq"
      BY <1>1, <3>1, <3>2 DEF OutputKinds
    <3>4. frame \in Blocks /\ block[frame].state = "freed"
      BY <1>1, <1>4, <2>3, <3>3 DEF MemoryPart, WorkOK, BadTarget
    <3>5. "grew" \in takes
      BY <2>3, <3>4 DEF MemoryPart, TakeOK
    <3>6. take.left < MaxTakes
      BY <3>5 DEF MemoryPart, TakeOK
    <3> QED BY <2>1, <3>3, <3>6
  <2> QED BY <2>2, <2>3
<1>5. CASE bytes > 0 /\ db.mem = "live" /\ ~BadTarget(frame) /\ Overruns(frame, bytes)
  <2>1. CopyFault(frame, bytes) = "overrun" /\ frame \in Blocks /\ bytes > block[frame].room
    BY <1>1, <1>5 DEF CopyFault, BadSource, BadTarget, Overruns
  <2>2. block[frame].room \in Nat
    BY <1>1, <2>1, BlockIs, Bounds
  <2>3. CASE output = "zmq" /\ bytes <= maxFrame
    BY <1>1, <2>1, <2>2, <2>3, Bounds
  <2>4. CASE work = "copy" /\ bytes = size
    <3>1. output \in {"udp", "zmq"} => size <= maxFrame
      BY <2>4 DEF MemoryPart, WorkOK
    <3>2. output = "zmq" => block[frame].room < maxFrame
      BY <1>1, <2>1, <2>2, <2>4, <3>1, Bounds
    <3>3. output # "udp"
      BY <1>1, <2>1, <2>2, <2>4, <3>1, Bounds DEF MemoryPart, UdpOK
    <3>4. output \in {"viewer", "autofocus"} => size > FixedRoom
      BY <2>1, <2>4 DEF MemoryPart, FixedOK
    <3> QED BY <1>1, <2>1, <2>4, <3>2, <3>3, <3>4 DEF OutputKinds
  <2> QED BY <2>3, <2>4
<1>6. CASE bytes > 0 /\ db.mem = "live" /\ ~BadTarget(frame) /\ ~Overruns(frame, bytes)
  <2>1. CopyFault(frame, bytes) = "no"
    BY <1>6 DEF CopyFault, BadSource
  <2>2. frame \in Blocks
    BY <1>1, <1>6 DEF BadTarget
  <2> QED BY <2>1, <2>2
<1> QED BY <1>2, <1>3, <1>4, <1>5, <1>6

LEMMA MemoryStepCopy ==
    ASSUME TypeOK, HolderOK, DbOK, MemoryPart, Copy, UNCHANGED inputVars
    PROVE  MemoryPart'
<1>1. /\ OutputTypeOK /\ SharedTypeOK /\ size \in 0..MaxSize /\ frame \in {Null} \cup Blocks
      /\ block \in [Blocks -> Block]
  BY OutputTyped DEF TypeOK
<1>2. /\ Alive /\ died = "no" /\ work = "copy" /\ holder = "worker" /\ size = db.size /\ at' = at
      /\ UNCHANGED <<db, output, package, size, maxFrame, frame, pos, take, takes>>
  BY DEF Copy, Alive, HolderOK, MemoryPart, WorkOK, inputVars
<1>6. work' \in {"copy", "use"} /\ PosOK'
  <2>1. work' \in {"copy", "use"}
    BY <1>2 DEF Copy
  <2> QED BY <1>2, <2>1 DEF MemoryPart, PosOK, Alive
<1> DEFINE fault == CopyFault(frame, size)
<1>3. /\ fault = "picture" => at = "gone"
      /\ fault = "stale" => output = "zmq" /\ take.left < MaxTakes
      /\ fault = "overrun" =>
           \/ output \in {"viewer", "autofocus"} /\ size > FixedRoom
           \/ output = "zmq" /\ block[frame].room < maxFrame
      /\ fault \in {"no", "picture", "stale", "overrun"}
      /\ fault = "no" => size = 0 \/ frame \in Blocks
  BY <1>1, <1>2, FaultIs
<1>4. CASE fault # "no"
  <2>1. died' = fault /\ UNCHANGED <<work, block>>
    BY <1>4 DEF Copy, Die
  <2> HIDE DEF fault
  <2>2. MemoryErrors'
    BY <1>2, <1>3, <1>4, <2>1 DEF MemoryErrors
  <2>3. FixedOK' /\ UdpOK' /\ WorkOK' /\ TakeOK' /\ SlotOK'
    BY <1>2, <2>1 DEF MemoryPart, FixedOK, UdpOK, WorkOK, TakeOK, SlotOK, Pointer
  <2> QED BY <1>6, <2>2, <2>3 DEF MemoryPart
<1>5. CASE fault = "no"
  <2>1. died' = died /\ work' = "use" /\ block' = CopyTo(frame, size)
    BY <1>5 DEF Copy
  <2>2. \A c \in Blocks : block'[c].state = block[c].state /\ block'[c].room = block[c].room
    BY <1>1, <1>3, <1>5, <2>1, CopiedIs, Bounds
  <2>3. FixedOK' /\ UdpOK' /\ TakeOK'
    BY <1>2, <2>1, <2>2, Bounds DEF MemoryPart, FixedOK, UdpOK, TakeOK
  <2>4. WorkOK' /\ SlotOK'
    BY <2>1 DEF WorkOK, SlotOK
  <2> QED BY <1>2, <1>6, <2>1, <2>3, <2>4 DEF MemoryPart, MemoryErrors
<1> QED BY <1>4, <1>5

LEMMA MemoryStepPack ==
    ASSUME TypeOK, MemoryPart, Pack, UNCHANGED inputVars
    PROVE  MemoryPart'
<1>1. /\ OutputTypeOK /\ block \in [Blocks -> Block]
  BY OutputTyped DEF TypeOK
<1>2. /\ died = "no" /\ work = "use" /\ output = "zmq" /\ pos \in Slots
      /\ UNCHANGED <<db, output, maxFrame, frame, take>>
      /\ work' \in {"use", "test"} /\ takes' \subseteq takes
      /\ "grew" \in takes => "grew" \in takes'
      /\ pos' \in {pos, 1} \/ (~PackageFull /\ ~(pos > package.n) /\ pos' = pos + 1)
  BY DEF Pack, PackDies, Alive, MemoryPart, PosOK
<1>a. /\ package.n \in Nat /\ package'.n = package.n
  BY <1>1, PackageIs DEF OutputTypeOK
<1>3. FixedOK' /\ UdpOK' /\ WorkOK' /\ SlotOK'
  BY <1>2 DEF FixedOK, UdpOK, WorkOK, SlotOK
<1>4. block' = block \/ block' = Sent
  BY DEF Pack, PackDies
<1>5. \A b \in Blocks : block'[b].state = block[b].state
  BY <1>1, <1>4, SentIs
<1>6. TakeOK'
  BY <1>2, <1>5 DEF MemoryPart, TakeOK
<1>8. PosOK'
  <2>1. pos' = 1 \/ pos' <= package'.n
    <3>1. CASE pos' \in {pos, 1}
      BY <1>2, <1>a, <3>1 DEF MemoryPart, PosOK
    <3>2. CASE ~PackageFull /\ ~(pos > package.n) /\ pos' = pos + 1
      BY <1>2, <1>a, <3>2, Bounds DEF PackageFull, Slots
    <3> QED BY <1>2, <3>1, <3>2
  <2>2. work' = "use" => pos' = pos
    BY <1>2 DEF Pack, PackDies
  <2> QED BY <1>2, <2>1, <2>2 DEF PosOK
<1>7. MemoryErrors'
  <2>1. CASE died' = died
    BY <1>2, <2>1 DEF MemoryErrors
  <2>2. CASE pos > package.n /\ died' = "ring"
    <3>1. package.n \notin Slots
      BY <1>2, <1>a, <2>2, Bounds DEF MemoryPart, PosOK, Slots
    <3> QED BY <1>2, <1>a, <2>2, <3>1 DEF MemoryErrors
  <2>3. CASE PackageFull /\ died' = PackFault(package'.buf, blob') /\ died' # "no"
    <3>1. CASE package'.buf = NoBuf
      BY <1>2, <2>3, <3>1 DEF PackFault, MemoryErrors
    <3>2. CASE died' = "stale" /\ \E i \in 1..package.n : block[i].state = "freed"
      <4>1. \A i \in 1..package.n : i \in Blocks
        BY <1>2, <2>3, Bounds DEF PackageFull, Slots
      <4>2. "grew" \in takes
        BY <1>2, <3>2, <4>1 DEF MemoryPart, TakeOK
      <4>3. take.left < MaxTakes
        BY <4>2 DEF MemoryPart, TakeOK
      <4> QED BY <1>2, <3>2, <4>3 DEF MemoryErrors
    <3>3. CASE died' = "long" /\ PackedSize(package.n, blob') > BufferSize(package.n, package'.buf)
      <4>1. PackedSize(package'.n, blob') > BufferSize(package'.n, package'.buf)
        BY <1>a, <3>3
      <4> QED BY <1>2, <3>3, <4>1 DEF MemoryErrors
    <3> QED BY <2>3, <3>1, <3>2, <3>3 DEF PackFault
  <2> QED BY <2>1, <2>2, <2>3 DEF Pack, PackDies, Die
<1> QED BY <1>3, <1>6, <1>7, <1>8 DEF MemoryPart

LEMMA MemoryStepTake ==
    ASSUME TypeOK, HolderOK, DbOK, MemoryPart, TakeNext, UNCHANGED inputVars
    PROVE  MemoryPart'
<1>1. /\ OutputTypeOK /\ SharedTypeOK /\ frame \in {Null} \cup Blocks
      /\ block \in [Blocks -> Block] /\ maxFrame \in Limits /\ db.size \in 0..MaxSize
      /\ take \in [at : {"idle", "lock", "write"}, size : 0..MaxSize, left : 0..MaxTakes]
      /\ take.left \in 0..MaxTakes /\ MaxTakes \in Nat
  BY OutputTyped DEF TypeOK, OutputTypeOK
<1>2. /\ died = "no" /\ UNCHANGED <<db, output, package, work, size, pos>> /\ at' = at
  BY DEF TakeNext, TakeAsk, TakeNoMemory, TakeCopy, TakeWrite, TakeKeep, Alive, inputVars
<1>3. output = "zmq"
  BY DEF TakeNext, TakeAsk, TakeNoMemory, TakeCopy, TakeWrite, MemoryPart, TakeOK
<1>4. FixedOK' /\ UdpOK'
  BY <1>2, <1>3 DEF FixedOK, UdpOK
<1>9. PosOK'
  BY <1>2 DEF MemoryPart, PosOK, Alive
<1>5. CASE TakeAsk
  <2>1. /\ take' = [at |-> "lock", size |-> 0, left |-> take.left - 1]
        /\ UNCHANGED <<maxFrame, frame, block, takes, died>>
    BY <1>5 DEF TakeAsk
  <2>2. take'.left < MaxTakes /\ take'.size <= maxFrame
    BY <1>1, <2>1, Bounds
  <2>3. TakeOK'
    BY <1>2, <1>3, <2>1, <2>2 DEF MemoryPart, TakeOK
  <2>4. WorkOK' /\ SlotOK'
    BY <1>2, <2>1 DEF MemoryPart, WorkOK, SlotOK, Pointer
  <2> QED BY <1>2, <1>4, <1>9, <2>1, <2>3, <2>4 DEF MemoryPart, MemoryErrors
<1>6. CASE TakeNoMemory
  <2>1. /\ take.at = "lock" /\ holder = "nobody" /\ TakeTooBig /\ maxFrame' = db.size + Headroom
        /\ take' = [take EXCEPT !.at = "idle"] /\ takes' = takes \cup {"noMemory"}
        /\ UNCHANGED <<frame, block, died>>
    BY <1>6 DEF TakeNoMemory
  <2>2. work \notin {"room", "copy"}
    BY <2>1 DEF HolderOK
  <2>3. take'.left = take.left /\ take'.size = take.size /\ take'.size <= maxFrame'
    BY <1>1, <2>1, Bounds DEF MemoryPart, TakeOK, TakeTooBig
  <2>4. TakeOK'
    <3>1. take.left < MaxTakes
      BY <2>1 DEF MemoryPart, TakeOK
    <3>2. "grew" \in takes' => "grew" \in takes
      BY <2>1
    <3> QED BY <1>2, <1>3, <2>1, <2>3, <3>1, <3>2 DEF MemoryPart, TakeOK
  <2>5. WorkOK' /\ SlotOK'
    BY <1>2, <2>2 DEF WorkOK, SlotOK
  <2> QED BY <1>2, <1>4, <1>9, <2>1, <2>4, <2>5 DEF MemoryPart, MemoryErrors
<1>7. CASE TakeCopy
  <2>1. /\ take.at = "lock" /\ holder = "nobody"
        /\ take' = [take EXCEPT !.at = "write", !.size = db.size]
    BY <1>7 DEF TakeCopy
  <2>2. work \notin {"room", "copy"}
    BY <2>1 DEF HolderOK
  <2>3. take'.left = take.left /\ take'.size = db.size /\ take.left < MaxTakes
    BY <1>1, <2>1 DEF MemoryPart, TakeOK
  <2>4. WorkOK' /\ SlotOK'
    BY <1>2, <2>2 DEF WorkOK, SlotOK
  <2>5. CASE TakeTooBig
    <3>1. /\ maxFrame' = db.size + Headroom /\ takes' = takes \cup {"copied", "grew"}
          /\ died' = IF frame # Null /\ block[frame].state = "freed" THEN "stale"
                     ELSE IF BadSource(db.size) THEN "picture" ELSE died
      BY <1>7, <2>5 DEF TakeCopy
    <3>2. TakeOK'
      BY <1>1, <1>2, <1>3, <2>3, <3>1, Bounds DEF TakeOK
    <3>3. BadSource(db.size) => at = "gone"
      BY <2>1 DEF BadSource, DbOK
    <3>4. MemoryErrors'
      BY <1>2, <1>3, <2>3, <3>1, <3>3 DEF MemoryErrors
    <3> QED BY <1>4, <1>9, <2>4, <3>2, <3>4 DEF MemoryPart
  <2>6. CASE ~TakeTooBig
    <3> DEFINE fault == CopyFault(frame, db.size)
    <3>1. /\ UNCHANGED <<maxFrame, frame>> /\ takes' = takes \cup {"copied"}
          /\ \/ fault # "no" /\ died' = fault /\ block' = block
             \/ fault = "no" /\ died' = died /\ block' = CopyTo(frame, db.size)
      BY <1>7, <2>6 DEF TakeCopy, Die
    <3>2. db.size <= maxFrame
      BY <1>1, <2>6, Bounds DEF TakeTooBig
    <3>3. /\ fault = "picture" => at = "gone"
          /\ fault = "overrun" =>
               \/ output \in {"viewer", "autofocus"} /\ work = "copy" /\ size > FixedRoom
               \/ output = "zmq" /\ block[frame].room < maxFrame
          /\ fault \in {"no", "picture", "stale", "overrun"}
          /\ fault = "no" => db.size = 0 \/ frame \in Blocks
      BY <1>1, <1>2, <1>3, <2>1, <3>2, FaultIs DEF Alive
    <3>4. fault = "no" => \A c \in Blocks : CopyTo(frame, db.size)[c].state = block[c].state
      <4>1. fault = "no" => db.size = 0 \/ frame # Null
        BY <3>3, Bounds
      <4> HIDE DEF fault
      <4> QED BY <1>1, <4>1, CopiedIs
    <3> HIDE DEF fault
    <3>5. \A c \in Blocks : block'[c].state = block[c].state
      BY <3>1, <3>4
    <3>6. MemoryErrors'
      BY <1>2, <1>3, <2>2, <2>3, <3>1, <3>3 DEF MemoryErrors
    <3>7. TakeOK'
      BY <1>1, <1>2, <1>3, <2>3, <3>1, <3>2, <3>5 DEF MemoryPart, TakeOK
    <3> QED BY <1>4, <1>9, <2>4, <3>6, <3>7 DEF MemoryPart
  <2> QED BY <2>5, <2>6
<1>8. CASE TakeWrite
  <2>1. /\ take.at = "write" /\ take' = [take EXCEPT !.at = "idle", !.size = 0]
        /\ UNCHANGED <<maxFrame, frame, block, takes>>
        /\ \/ died' = died
           \/ take.size # 0 /\ died' = "stale"
           \/ take.size # 0 /\ ~BadTarget(frame) /\ Overruns(frame, take.size) /\ died' = "overrun"
    BY <1>8 DEF TakeWrite, Die
  <2>2. take'.left = take.left /\ take'.size = 0 /\ take.left < MaxTakes
    BY <1>1, <2>1 DEF MemoryPart, TakeOK
  <2>3. TakeOK'
    BY <1>1, <1>2, <1>3, <2>1, <2>2, Bounds DEF MemoryPart, TakeOK
  <2>4. WorkOK' /\ SlotOK'
    BY <1>2, <2>1 DEF MemoryPart, WorkOK, SlotOK, Pointer
  <2>5. MemoryErrors'
    <3>1. CASE died' \in {died, "stale"}
      BY <1>2, <1>3, <2>2, <3>1 DEF MemoryErrors
    <3>2. CASE ~BadTarget(frame) /\ Overruns(frame, take.size) /\ died' = "overrun"
      <4>1. frame \in Blocks /\ take.size > block[frame].room /\ take.size <= maxFrame
        BY <1>1, <3>2 DEF BadTarget, Overruns, MemoryPart, TakeOK
      <4>2. block[frame].room \in Nat /\ take.size \in Nat
        BY <1>1, <4>1, BlockIs, Bounds
      <4>3. block'[frame'].room < maxFrame'
        BY <1>1, <2>1, <4>1, <4>2, Bounds
      <4> QED BY <1>2, <1>3, <3>2, <4>3 DEF MemoryErrors
    <3> QED BY <2>1, <3>1, <3>2
  <2> QED BY <1>4, <1>9, <2>3, <2>4, <2>5 DEF MemoryPart
<1> QED BY <1>5, <1>6, <1>7, <1>8 DEF TakeNext

\* Where nobody is about to copy, all that was published is past.
LEMMA PastUnlessFresh ==
    ASSUME SharedTypeOK, UNCHANGED db, ~Fresh', NEW x, x = 0 \/ x = db.n
    PROVE  x <= db'.n /\ (Fresh' => Newer(db'.n, x))
  BY DEF SharedTypeOK

LEMMA OrderStepCopy ==
    ASSUME TypeOK, MemoryPart, PackageOK, AnswerOK, Copy, CopyFault(frame, size) = "no"
    PROVE  PackageOK' /\ AnswerOK'
<1>1. /\ OutputTypeOK /\ SharedTypeOK /\ size \in 0..MaxSize /\ frame \in {Null} \cup Blocks
      /\ block \in [Blocks -> Block] /\ db.n \in 0..Last
  BY OutputTyped DEF TypeOK
<1>a. pos \in Slots
  BY DEF Copy, MemoryPart, PosOK
<1>2. /\ work = "copy" /\ work' = "use" /\ copied' = db.n /\ block' = CopyTo(frame, size)
      /\ UNCHANGED <<db, output, package, size, frame, pos, blob, asked, takes>>
  BY DEF Copy
<1>3. Fresh /\ ~Fresh'
  BY <1>2 DEF Fresh
<1>4. ASSUME NEW x, Past(x) PROVE x <= db.n /\ Newer(db.n, x) /\ Past(x)'
  BY <1>2, <1>3, <1>4 DEF Past
<1>5. AnswerOK'
  BY <1>2, <1>4 DEF AnswerOK
<1>6. PackageOK'
  <2> SUFFICES ASSUME output = "zmq", takes = {} PROVE PackageOK'
    BY <1>2 DEF PackageOK
  <2>1. frame = pos /\ pos \in Blocks /\ pos # Null
    BY <1>1, <1>a, <1>2, Bounds DEF MemoryPart, SlotOK
  <2>2. /\ \A c \in Blocks \ {pos} : block'[c] = block[c]
        /\ size = 0 => block' = block
        /\ size # 0 => block'[pos].n = db.n /\ block'[pos].size = size
    BY <1>1, <1>a, <1>2, <2>1, CopiedIs
  <2>3. \A b \in Slots : Past(block[b].n)
    BY DEF PackageOK
  <2>4. ASSUME NEW b \in Slots PROVE Past(block[b].n)'
    <3>1. CASE b # pos \/ size = 0
      BY <1>4, <2>2, <2>3, <3>1, Bounds DEF Past
    <3>2. CASE b = pos /\ size # 0
      BY <1>1, <1>a, <1>2, <1>3, <2>2, <3>2 DEF Past
    <3> QED BY <3>1, <3>2
  <2>5. \A i \in 1..(pos' - 1) : blob'[i] \in {0, block'[i].size}
    <3>1. \A i \in 1..(pos - 1) : i \in Blocks \ {pos}
      BY <1>1, <1>a DEF Slots, Blocks, Own
    <3> QED BY <1>2, <2>2, <3>1 DEF PackageOK
  <2>6. size' = 0 \/ (block'[pos'].n = copied' /\ block'[pos'].size = size')
    BY <1>2, <2>2
  <2>7. \A b \in Slots \ {pos'} : Newer(copied', block'[b].n)
    BY <1>2, <1>4, <2>2, <2>3, Bounds
  <2> QED BY <2>4, <2>5, <2>6, <2>7 DEF PackageOK
<1> QED BY <1>5, <1>6

LEMMA OrderStepPack ==
    ASSUME TypeOK, MemoryPart, PackageOK, AnswerOK, Pack, work' = "test"
    PROVE  PackageOK' /\ AnswerOK'
<1>1. /\ OutputTypeOK /\ SharedTypeOK /\ size \in 0..MaxSize
      /\ block \in [Blocks -> Block] /\ pos \in Slots /\ blob \in [Slots -> 0..MaxSize]
  BY OutputTyped DEF TypeOK, Pack, MemoryPart, PosOK
<1>2. /\ work = "use" /\ output = "zmq" /\ asked' = 0 /\ size' = 0
      /\ UNCHANGED <<db, output>> /\ ~Fresh'
      /\ blob' = [blob EXCEPT ![pos] = size]
      /\ pos' = IF PackageFull THEN 1 ELSE pos + 1
      /\ block' = IF PackageFull THEN Sent ELSE block
      /\ takes' = IF PackageFull THEN takes \ {"copied"} ELSE takes
  BY DEF Pack, PackDies, Used, Fresh
<1>3. Past(0)' /\ AnswerOK'
  BY <1>1, <1>2, PastUnlessFresh DEF Past, AnswerOK
<1>4. CASE PackageFull
  <2>1. \A b \in Slots : block'[b].n = 0
    BY <1>1, <1>2, <1>4, SentIs, Bounds
  <2>2. \A b \in Slots : Past(block[b].n)'
    BY <1>3, <2>1 DEF Past
  <2>3. 1..(pos' - 1) = {}
    BY <1>2, <1>4
  <2> QED BY <1>2, <1>3, <2>2, <2>3 DEF PackageOK
<1>5. CASE ~PackageFull
  <2> SUFFICES ASSUME takes = {} PROVE PackageOK'
    BY <1>2, <1>3, <1>5 DEF PackageOK
  <2>1. \A b \in Slots : Past(block[b].n)'
    BY <1>2, <1>5 DEF PackageOK, Past
  <2>2. ASSUME NEW i \in 1..(pos' - 1) PROVE blob'[i] \in {0, block'[i].size}
    <3>1. i \in Slots /\ i \in 1..pos
      BY <1>1, <1>2, <1>5, <2>2 DEF Slots
    <3>2. CASE i = pos
      BY <1>1, <1>2, <1>5, <3>2 DEF PackageOK
    <3>3. CASE i # pos
      <4>1. i \in 1..(pos - 1)
        BY <1>1, <3>1, <3>3 DEF Slots
      <4> QED BY <1>1, <1>2, <1>5, <3>1, <3>3, <4>1 DEF PackageOK
    <3> QED BY <3>2, <3>3
  <2> QED BY <2>1, <2>2 DEF PackageOK
<1> QED BY <1>4, <1>5

LEMMA OrderStepAll ==
    ASSUME TypeOK, HolderOK, MemoryPart, PackageOK, AnswerOK, OutputNext, UNCHANGED inputVars
    PROVE  PackageOK' /\ AnswerOK'
<1>1. /\ OutputTypeOK /\ SharedTypeOK /\ block \in [Blocks -> Block]
      /\ UNCHANGED db /\ (Fresh' => Fresh)
  BY OutputTyped, FreshStep DEF TypeOK
<1>2. CASE WorkTest \/ Await \/ Fits \/ NoRoom
  <2>1. /\ UNCHANGED <<output, package, pos, blob, takes, block, asked>> /\ work' # "use"
    BY <1>2 DEF WorkTest, Await, Fits, NoRoom, WorkGoto, sideVars
  <2> QED BY <1>1, <2>1, OrderStep
<1>3. CASE WorkStops \/ CancelWorker
  <2>1. /\ UNCHANGED <<output, package, pos, blob, takes, asked>> /\ work' # "use" /\ block' = FrameFreed
    BY <1>3 DEF WorkStops, CancelWorker, WorkGoto, sideVars
  <2>2. \A c \in Blocks : block'[c].n = block[c].n /\ block'[c].size = block[c].size
    BY <1>1, <2>1, FreedIs
  <2> QED BY <1>1, <2>1, <2>2, OrderStep
<1>4. CASE Woken
  <2>1. /\ UNCHANGED <<output, package, pos, blob, takes, block, asked>> /\ work' # "use"
    BY <1>4 DEF Woken, WorkGoto, sideVars
  <2> QED BY <1>1, <2>1, OrderStep
<1>5. CASE Datagram \/ Use \/ SaveFails \/ \E sv \in Sharpness : Judge(sv)
  <2>1. /\ UNCHANGED <<output, package, takes, block>> /\ work' \in {"lock", "test", "ended"}
        /\ asked' \in {0, db.n}
        /\ output # "zmq" \/ UNCHANGED <<pos, blob>>
    BY <1>5 DEF Datagram, Use, SaveFails, Judge, WorkGoto, Used, UseKeep
  <2>2. ~Fresh'
    BY <2>1 DEF Fresh
  <2>3. Past(asked)'
    BY <1>1, <2>1, <2>2, PastUnlessFresh DEF Past
  <2> QED BY <1>1, <2>1, <2>3, OrderStep
<1>6. CASE Grow
  <2>1. /\ UNCHANGED <<output, package, pos, blob, takes, asked, size, copied>> /\ work' \in {"room", "copy"}
        /\ \/ block' = block
           \/ block' = [block EXCEPT ![Slot].state = "live", ![Slot].room = GrownSize]
    BY <1>6 DEF Grow, sideVars
  <2>2. \A c \in Blocks : block'[c].n = block[c].n /\ block'[c].size = block[c].size
    BY <1>1, <2>1, SlotIs, LiveIs
  <2> QED BY <1>1, <2>1, <2>2, OrderStep
<1>7. CASE Copy
  <2>1. CASE CopyFault(frame, size) = "no"
    BY <1>7, <2>1, OrderStepCopy
  <2>2. CASE CopyFault(frame, size) # "no"
    <3>1. /\ UNCHANGED <<output, package, pos, blob, takes, block, asked>> /\ work' # "use"
      BY <1>7, <2>2 DEF Copy
    <3> QED BY <1>1, <3>1, OrderStep
  <2> QED BY <2>1, <2>2
<1>8. CASE Pack
  <2>1. CASE work' = "test"
    BY <1>8, <2>1, OrderStepPack
  <2>2. CASE work' # "test"
    <3>1. /\ UNCHANGED <<output, takes, pos, block, size, copied, asked, work>>
          /\ output = "zmq" /\ work = "use" /\ blob' = [blob EXCEPT ![pos] = size]
      BY <1>8, <2>2 DEF Pack, PackDies, Used
    <3>2. pos \in Slots /\ blob \in [Slots -> 0..MaxSize]
      BY <1>1, <1>8 DEF Pack, MemoryPart, PosOK, OutputTypeOK
    <3>3. \A i \in 1..(pos - 1) : blob'[i] = blob[i]
      BY <3>1, <3>2, Bounds DEF Slots
    <3>4. ~Fresh'
      BY <3>1 DEF Fresh
    <3>5. AnswerOK'
      BY <1>1, <3>1, <3>4 DEF AnswerOK, Past
    <3>6. PackageOK'
      BY <1>1, <3>1, <3>3, <3>4 DEF PackageOK, Past
    <3> QED BY <3>5, <3>6
  <2> QED BY <2>1, <2>2
<1>9. CASE TakeNext
  <2>1. /\ UNCHANGED <<output, package, pos, blob, asked, work, size, copied>>
        /\ takes' # {} \/ UNCHANGED <<block, takes>>
    BY <1>9 DEF TakeNext, TakeAsk, TakeNoMemory, TakeCopy, TakeWrite, TakeKeep
  <2> QED BY <1>1, <2>1, OrderStep
<1> QED BY <1>2, <1>3, <1>4, <1>5, <1>6, <1>7, <1>8, <1>9 DEF OutputNext, WorkNext

-----------------------------------------------------------------------------
(* All together.                                                           *)

LEMMA PipelineInitInv == Init => PipelineInv
<1> SUFFICES ASSUME SharedInit, NEW i \in InputKinds, NEW o \in OutputKinds,
                    InputInit(i), OutputInit(o)
             PROVE  PipelineInv
  <2>1. ASSUME NEW p \in InputKinds \X OutputKinds PROVE p[1] \in InputKinds /\ p[2] \in OutputKinds
    OBVIOUS
  <2> QED BY <2>1 DEF Init
<1>1. /\ stop = FALSE /\ holder = "nobody" /\ waiting = {} /\ died = "no"
      /\ input = i /\ got = 0 /\ empties = 0 /\ control = "nobody" /\ zoom = "idle"
      /\ at \in {"test", "gone"} /\ cause \in {"none", "failed"}
      /\ output = o /\ work = "test" /\ size = 0 /\ maxFrame = 0 /\ pos = 1
      /\ blob = [k \in Slots |-> 0]
      /\ take = [at |-> "idle", size |-> 0, left |-> MaxTakes]
      /\ focus = [now |-> FocusTop, max |-> FirstFocus, sv |-> FirstSharpness, search |-> TRUE]
      /\ asked = 0 /\ copied = 0 /\ takes = {}
      /\ seen = [focus |-> FirstFocus, sv |-> FirstSharpness]
  BY DEF SharedInit, InputInit, OutputInit
<1>2. db \in [n : 0..Last, size : 0..MaxSize, mem : Memory] /\ db.n = 0 /\ db.size = 0
  <2>1. \E m \in {"live", "null"} : db = [n |-> 0, size |-> 0, mem |-> m]
    BY DEF InputInit
  <2>2. \A m \in {"live", "null"} : m \in Memory
    BY DEF Memory
  <2> QED BY <2>1, <2>2, Bounds
<1>3. /\ frame = IF o \in {"viewer", "autofocus"} THEN Own ELSE Null
      /\ block = [b \in Blocks |-> IF b = frame THEN NewBlock(FixedRoom) ELSE NoBlock]
  BY DEF OutputInit
<1>4. frame \in {Null} \cup Blocks
  BY <1>3, Bounds
<1>5. ASSUME NEW b \in Blocks
      PROVE  /\ block[b] \in Block /\ block[b].n = 0 /\ block[b].size = 0
             /\ block[b].state # "freed"
             /\ b = frame => block[b].state = "live" /\ block[b].room = FixedRoom
  <2>1. CASE b = frame
    <3>1. block[b] = [state |-> "live", room |-> FixedRoom, n |-> 0, size |-> 0]
      BY <1>3, <2>1 DEF NewBlock, NoBlock
    <3> QED BY <3>1, Bounds DEF Block
  <2>2. CASE b # frame
    <3>1. block[b] = [state |-> "none", room |-> 0, n |-> 0, size |-> 0]
      BY <1>3, <2>2 DEF NoBlock
    <3>2. 0 \in Rooms
      BY Bounds
    <3> QED BY <2>2, <3>1, <3>2, Bounds DEF Block
  <2> QED BY <2>1, <2>2
<1>6. block \in [Blocks -> Block]
  BY <1>3, <1>5
<1>7. SharedTypeOK /\ InputTypeOK
  <2>1. SharedTypeOK
    BY <1>1, <1>2 DEF SharedTypeOK, Deaths
  <2>2. input \in InputKinds /\ cause \in Causes /\ got \in 0..MaxSize /\ empties \in 0..Retries
    BY <1>1 DEF Causes
  <2> QED BY <1>1, <2>1, <2>2 DEF InputTypeOK
<1>8. OutputTypeOK
  <2>5. package \in [n : Packages, buf : Limits \cup {NoBuf}]
    <3>1. \E n \in Packages : package = [n |-> n, buf |-> NoBuf]
      <4>1. (CHOOSE n \in Packages : TRUE) \in Packages
        BY DEF OutputsAssumption
      <4> QED BY <4>1 DEF OutputInit
    <3> QED BY <3>1
  <2>1. /\ take \in [at : {"idle", "lock", "write"}, size : 0..MaxSize, left : 0..MaxTakes]
        /\ blob \in [Slots -> 0..MaxSize]
    BY <1>1, Bounds
  <2>2. /\ FocusTop \in Positions /\ FirstFocus \in Positions /\ FirstSharpness \in Levels
    BY DEF Positions, Levels, FirstFocus
  <2>3. /\ focus \in [now : Positions, max : Positions, sv : Levels, search : BOOLEAN]
        /\ seen \in [focus : Positions, sv : Levels]
    BY <1>1, <2>2
  <2>4. size \in 0..MaxSize /\ maxFrame \in Limits /\ {asked, copied} \subseteq 0..Last /\ pos \in Blocks
    BY <1>1, Bounds
  <2> QED BY <1>1, <1>4, <1>6, <2>1, <2>3, <2>4, <2>5 DEF OutputTypeOK
<1>9. HolderOK /\ DbOK /\ MemoryErrors
  BY <1>1, <1>2 DEF HolderOK, DbOK, MemoryErrors
<1>10. FixedOK /\ UdpOK
  BY <1>1, <1>3, <1>5, Bounds DEF FixedOK, UdpOK
<1>11. WorkOK /\ TakeOK /\ PosOK /\ SlotOK
  <2>1. TakeOK
    BY <1>1, <1>5 DEF TakeOK
  <2> QED BY <1>1, <2>1 DEF WorkOK, PosOK, SlotOK
<1>12. ~Fresh
  BY <1>1 DEF Fresh
<1>13. PackageOK /\ AnswerOK
  <2>1. \A b \in Slots : block[b].n = 0
    BY <1>5, Bounds
  <2>2. 1..(pos - 1) = {}
    BY <1>1
  <2>3. Past(0)
    BY <1>2, <1>12 DEF Past
  <2> QED BY <1>1, <2>1, <2>2, <2>3 DEF PackageOK, AnswerOK
<1>14. FocusOK
  BY <1>1 DEF FocusOK
<1> QED BY <1>7, <1>8, <1>9, <1>10, <1>11, <1>13, <1>14 DEF PipelineInv, TypeOK

LEMMA SizeKept ==
    ASSUME InputNext, at # "fill"
    PROVE  db'.size = db.size
<1>1. CASE Clean
  BY <1>1 DEF Clean
<1>2. CASE FillPreviewFails \/ NoMemoryForFile \/ ReadFails \/ Filling \/ GiveUp
  BY <1>2 DEF FillPreviewFails, NoMemoryForFile, ReadFails, Filling, Fill, FillPreview, GiveUp,
              Leave, InputAt
<1>3. CASE ~(Clean \/ FillPreviewFails \/ NoMemoryForFile \/ ReadFails \/ Filling \/ GiveUp)
  <2>1. UNCHANGED db
    BY <1>3 DEF InputNext, Test, Fetching, Fetch, TakeControl, Preview, Skip, FetchFails, PreviewFails,
                LockPicture, Publish, FreeList, CancelInput, ZoomAsk, ZoomLock, ZoomDone,
                KeepShared, ZoomKeep, sharedVars
  <2> QED BY <2>1
<1> QED BY <1>1, <1>2, <1>3

\* What is dead stays so.
LEMMA DeathStays ==
    ASSUME InputNext, died' = "no"
    PROVE  died = "no"
BY DEF InputNext, Test, Fetching, Fetch, TakeControl, Preview, Skip, FetchFails, PreviewFails,
       LockPicture, Filling, Fill, FillPreview, NoMemoryForFile, ReadFails, GiveUp,
       FillPreviewFails, Publish, FreeList, Clean, CancelInput, ZoomAsk, ZoomLock, ZoomDone,
       Leave, InputAt, KeepShared, ZoomKeep, sharedVars, Alive, Die

LEMMA PipelineInvStep == PipelineInv /\ [Next]_vars => PipelineInv'
<1> SUFFICES ASSUME PipelineInv, [Next]_vars PROVE PipelineInv'
  OBVIOUS
<1>1. /\ TypeOK /\ SharedTypeOK /\ InputTypeOK /\ OutputTypeOK
      /\ HolderOK /\ DbOK /\ FixedOK /\ UdpOK /\ WorkOK /\ TakeOK /\ PosOK /\ MemoryErrors
      /\ SlotOK /\ PackageOK /\ AnswerOK /\ FocusOK
  BY DEF PipelineInv, TypeOK
<1>2. CASE InputNext /\ UNCHANGED outputVars
  <2>1. /\ SharedTypeOK' /\ InputTypeOK' /\ HolderOK' /\ DbOK' /\ MemoryErrors'
        /\ \/ db'.n = db.n /\ (Fresh' => Fresh)
           \/ db'.n = NextPicture
    BY <1>1, <1>2, InputPartStep DEF InputPart
  <2>5. Alive' => Alive
    BY <1>1, <1>2, DeathStays DEF Alive
  <2>2. FixedOK' /\ UdpOK' /\ TakeOK' /\ PosOK' /\ SlotOK' /\ FocusOK' /\ OutputTypeOK'
    BY <1>1, <1>2, <2>5, OutputsKept
  <2>3. PackageOK' /\ AnswerOK'
    BY <1>1, <1>2, <2>1, OrderKept
  <2>4. WorkOK'
    <3>1. UNCHANGED <<output, package, work, size, maxFrame, frame>>
      BY <1>2 DEF outputVars, workVars
    <3>2. work \in {"room", "copy"} => at # "fill"
      BY <1>1 DEF HolderOK
    <3>3. work \in {"room", "copy"} => db'.size = db.size
      BY <1>2, <3>2, SizeKept
    <3> QED BY <1>1, <3>1, <3>3 DEF WorkOK
  <2> QED BY <2>1, <2>2, <2>3, <2>4 DEF PipelineInv, TypeOK
<1>3. CASE OutputNext /\ UNCHANGED inputVars
  <2>1. SharedTypeOK' /\ HolderOK' /\ DbOK'
    BY <1>1, <1>3, HolderStep
  <2>2. OutputTypeOK' /\ FocusOK'
    BY <1>1, <1>3, OutputTypeStep
  <2>3. MemoryPart
    BY <1>1 DEF MemoryPart
  <2>4. MemoryPart'
    BY <1>1, <1>3, <2>3, MemoryStepWork, MemoryStepGrow, MemoryStepCopy, MemoryStepPack,
       MemoryStepTake DEF OutputNext, WorkNext
  <2>5. PackageOK' /\ AnswerOK'
    BY <1>1, <1>3, <2>3, OrderStepAll
  <2>6. InputTypeOK'
    BY <1>1, <1>3 DEF InputTypeOK, inputVars
  <2> QED BY <2>1, <2>2, <2>4, <2>5, <2>6 DEF PipelineInv, MemoryPart, TypeOK
<1>4. CASE (Stop \/ UNCHANGED sharedVars) /\ UNCHANGED <<inputVars, outputVars>>
  <2>1. /\ UNCHANGED <<holder, waiting, db, died>> /\ stop' \in {stop, TRUE}
        /\ UNCHANGED <<input, at, cause, got, empties, control, zoom>>
        /\ UNCHANGED <<output, package, work, size, maxFrame, frame, block, pos, blob>>
        /\ UNCHANGED outputVars
    BY <1>4 DEF Stop, sharedVars, inputVars, outputVars, workVars
  <2>2. SharedTypeOK' /\ InputTypeOK'
    <3>1. stop' \in BOOLEAN
      BY <1>1, <2>1 DEF SharedTypeOK
    <3>2. SharedTypeOK'
      BY <1>1, <2>1, <3>1 DEF SharedTypeOK
    <3>3. InputTypeOK'
      BY <1>1, <2>1 DEF InputTypeOK
    <3> QED BY <3>2, <3>3
  <2>3. stop => stop'
    BY <1>1, <2>1 DEF SharedTypeOK
  <2>4. HolderOK' /\ DbOK'
    BY <1>1, <2>1, <2>3 DEF HolderOK, DbOK, InputEnded, KeptLock
  <2>5. FixedOK' /\ UdpOK' /\ TakeOK' /\ PosOK' /\ SlotOK' /\ FocusOK' /\ OutputTypeOK'
    BY <1>1, <2>1, OutputsKept DEF Alive
  <2>6. db'.n = db.n /\ (Fresh' => Fresh)
    BY <2>1 DEF Fresh
  <2>7. PackageOK' /\ AnswerOK'
    BY <1>1, <2>1, <2>2, <2>6, OrderKept
  <2>8. WorkOK' /\ MemoryErrors'
    <3>1. take' = take /\ package' = package
      BY <2>1 DEF outputVars, workVars
    <3> QED BY <1>1, <2>1, <3>1 DEF WorkOK, MemoryErrors
  <2> QED BY <2>2, <2>4, <2>5, <2>7, <2>8 DEF PipelineInv, TypeOK
<1> QED BY <1>2, <1>3, <1>4 DEF Next, ByInput, ByOutput, vars

LEMMA PipelineSafe == Spec => []PipelineInv
<1> QED BY PipelineInitInv, PipelineInvStep, PTL DEF Spec

\* The mutex in->db is left locked only by an input_file without memory, an
\* input_ptp2 whose camera failed or that gave up, and a thread cancelled at
\* shutdown in the middle of its section or in pthread_cond_wait.
THEOREM LockIsLeftOnlyAtTheEnd == Spec => []LeftLocked
<1>1. PipelineInv => LeftLocked
  BY DEF PipelineInv, HolderOK, LeftLocked, KeptLock, InputEnded
<1> QED BY <1>1, PipelineSafe, PTL

\* No copy of a picture meets bad memory but in the ways MemoryErrors lists; the
\* worker of output_udp never overruns its frame, whatever the sizes.
THEOREM CopiesAreSafe == Spec => []MemoryErrors
<1>1. PipelineInv => MemoryErrors
  BY DEF PipelineInv
<1> QED BY <1>1, PipelineSafe, PTL

\* output_udp answers with a picture published after the datagram came; a
\* package of output_zmqserver holds whole pictures, each newer than the one
\* before, as long as no take has come in between.
THEOREM PicturesInOrder == Spec => []InOrder
<1>1. PipelineInv => InOrder
  <2> SUFFICES ASSUME PipelineInv PROVE InOrder
    OBVIOUS
  <2>1. pos \in Blocks /\ PackageOK /\ AnswerOK
    BY DEF PipelineInv, TypeOK, OutputTypeOK
  <2>2. \A i \in 1..(pos - 1) : i \in Slots \ {pos}
    BY <2>1, Bounds DEF Slots, Blocks
  <2>3. ASSUME output = "zmq", work = "use", takes = {}
        PROVE  /\ size = 0 \/ (block[pos].n = copied /\ block[pos].size = size)
               /\ \A i \in 1..(pos - 1) :
                    /\ blob[i] \in {0, block[i].size}
                    /\ size = 0 \/ blob[i] = 0 \/ Newer(block[pos].n, block[i].n)
    <3>1. /\ size = 0 \/ (block[pos].n = copied /\ block[pos].size = size)
          /\ \A b \in Slots \ {pos} : Newer(copied, block[b].n)
          /\ \A i \in 1..(pos - 1) : blob[i] \in {0, block[i].size}
      BY <2>1, <2>3 DEF PackageOK
    <3> QED BY <2>2, <3>1
  <2> QED BY <2>1, <2>3 DEF InOrder, AnswerOK
<1> QED BY <1>1, PipelineSafe, PTL

\* The focus output_autofocus keeps when a search ends is that of the sharpest
\* picture of the search.
THEOREM FocusIsBest == Spec => []BestFocus
<1>1. PipelineInv => BestFocus
  BY DEF PipelineInv, FocusOK, BestFocus
<1> QED BY <1>1, PipelineSafe, PTL
====
