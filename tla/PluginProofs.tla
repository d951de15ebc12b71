---- MODULE PluginProofs ----
(***************************************************************************)
(* Two plugins, for any values of the constants.                           *)
(*                                                                         *)
(* output_file, for any number of takers, any sizes of pictures, any ring  *)
(* and any number of restarts: a picture that is copied to the shared      *)
(* memory fits, unless a realloc has failed or the worker freed it; the    *)
(* link leads to no empty file; and the ring is kept as long as its        *)
(* options say, of the newest pictures.                                    *)
(*                                                                         *)
(* input_http, for pictures of any length and a buffer of any size: every  *)
(* picture that was sent in full and fits is delivered, whole, and nothing *)
(* else is, on every connection that has seen no picture with the text of  *)
(* a boundary in it.                                                       *)
(***************************************************************************)
EXTENDS OutputFile, MjpgProxy, SequenceTheorems, FiniteSetTheorems, TLAPS

-----------------------------------------------------------------------------
(* output_file: the memory its threads share.                              *)

SizesOK ==
    /\ published \in [nr : Nat, bytes : Nat]
    /\ room \in Nat /\ maxFrame \in Nat

\* Until a realloc fails or frame is freed, max_frame_size is what frame has.
RoomInv == noMemory \/ givenBack \/ (room = maxFrame /\ ~overrun /\ ~dangling)

MemoryInv == SizesOK /\ RoomInv

LEMMA MemoryInit == Init => MemoryInv
  BY DEF Init, MemoryInv, SizesOK, RoomInv, Nothing

\* The copy that both worker and takers make, with or without success.
LEMMA CopyKeeps ==
    MemoryInv /\ (CopyPicture \/ NoMemory) /\ UNCHANGED published => MemoryInv'
<1> SUFFICES ASSUME MemoryInv, CopyPicture \/ NoMemory, UNCHANGED published
             PROVE  MemoryInv'
  OBVIOUS
<1> USE FileAssumption DEF MemoryInv, SizesOK, RoomInv
<1>1. Grown(published.bytes) \in Nat
  BY DEF Grown
<1>2. CASE NoMemory
  BY <1>1, <1>2 DEF NoMemory
<1>3. CASE CopyPicture
  <2>1. noMemory' = noMemory /\ givenBack' = givenBack /\ dangling' = dangling
    BY <1>3 DEF CopyPicture
  <2>2. CASE TooSmall(published.bytes)
    <3>1. maxFrame' = Grown(published.bytes) /\ room' = Grown(published.bytes)
      BY <1>3, <2>2 DEF CopyPicture
    <3>2. ~(published.bytes > room')
      BY <3>1 DEF Grown
    <3>3. ~overrun /\ ~dangling => ~overrun'
      BY <1>3, <3>2, Zenon DEF CopyPicture
    <3>4. SizesOK'
      BY <1>1, <3>1
    <3>5. RoomInv'
      BY <2>1, <3>1, <3>3
    <3> QED BY <3>4, <3>5
  <2>3. CASE ~TooSmall(published.bytes)
    <3>1. maxFrame' = maxFrame /\ room' = room
      BY <1>3, <2>3 DEF CopyPicture
    <3>2. CASE noMemory \/ givenBack
      BY <2>1, <3>1, <3>2
    <3>3. CASE ~noMemory /\ ~givenBack
      <4>1. ~(published.bytes > room') /\ ~overrun /\ ~dangling
        BY <2>3, <3>1, <3>3 DEF TooSmall
      <4>2. ~overrun'
        BY <1>3, <4>1, Zenon DEF CopyPicture
      <4> QED BY <2>1, <3>1, <3>3, <4>1, <4>2
    <3> QED BY <3>2, <3>3
  <2> QED BY <2>2, <2>3
<1> QED BY <1>2, <1>3

\* The worker frees frame, if there is one.
LEMMA FreeKeeps == MemoryInv /\ (\E p \in BOOLEAN : Free(p)) /\ UNCHANGED published => MemoryInv'
<1> SUFFICES ASSUME MemoryInv, NEW p \in BOOLEAN, Free(p), UNCHANGED published
             PROVE  MemoryInv'
  OBVIOUS
<1>1. /\ room' = 0 /\ maxFrame' = maxFrame /\ overrun' = overrun /\ noMemory' = noMemory
      /\ SizesOK
  BY DEF Free, MemoryInv
<1>2. SizesOK'
  BY <1>1 DEF SizesOK
<1>3. CASE room > 0
  <2>1. givenBack'
    BY <1>3 DEF Free
  <2> QED BY <1>2, <2>1 DEF MemoryInv, RoomInv
<1>4. CASE ~(room > 0)
  <2>1. (dangling' => dangling) /\ (givenBack => givenBack')
    BY <1>4, Zenon DEF Free
  <2>2. room = 0
    BY <1>1, <1>4 DEF SizesOK
  <2> QED BY <1>1, <1>2, <2>1, <2>2 DEF MemoryInv, RoomInv
<1> QED BY <1>3, <1>4

\* Every other step leaves the memory alone, publishes, or starts anew.
LEMMA MemoryStep == MemoryInv /\ [Next]_vars => MemoryInv'
<1> SUFFICES ASSUME MemoryInv, [Next]_vars PROVE MemoryInv'
  OBVIOUS
<1>1. ASSUME UNCHANGED <<published, memory>> PROVE MemoryInv'
  BY <1>1 DEF MemoryInv, SizesOK, RoomInv, memory
<1>2. CASE Publish
  BY <1>2, FileAssumption DEF Publish, MemoryInv, SizesOK, RoomInv, memory
<1>3. CASE Copy
  BY <1>3, CopyKeeps DEF Copy
<1>4. ASSUME NEW t \in Takers, Take(t) PROVE MemoryInv'
  BY <1>4, CopyKeeps DEF Take
<1>5. CASE Restart
  BY <1>5 DEF Restart, MemoryInv, SizesOK, RoomInv
<1>10. CASE NoName
  <2>1. UNCHANGED published /\ (Free(FALSE) \/ UNCHANGED memory)
    BY <1>10 DEF NoName
  <2> QED BY <1>1, <2>1, FreeKeeps
<1>11. CASE StopWorker
  BY <1>11, FreeKeeps DEF StopWorker
<1>6. CASE Open \/ Write \/ Unlink \/ Link
  BY <1>1, <1>6 DEF Open, Write, Unlink, Link
<1>7. CASE Maintain \/ Delete \/ Again \/ Tick \/ SetBack
  BY <1>1, <1>7 DEF Maintain, Delete, Again, Tick, SetBack
<1>8. ASSUME NEW t \in Takers, WriteTaken(t) PROVE MemoryInv'
  <2>1. /\ UNCHANGED <<published, room, maxFrame, dangling, noMemory, givenBack>>
        /\ overrun' = (overrun \/ dangling)
    BY <1>8 DEF WriteTaken
  <2>2. ~overrun /\ ~dangling => ~overrun'
    BY <2>1, Zenon
  <2> QED BY <2>1, <2>2 DEF MemoryInv, SizesOK, RoomInv
<1>9. CASE UNCHANGED vars
  BY <1>1, <1>9 DEF vars
<1> QED BY <1>2, <1>3, <1>4, <1>5, <1>6, <1>7, <1>8, <1>9, <1>10, <1>11 DEF Next

\* worker_thread and output_cmd never copy more than frame holds, nor use it once
\* it is freed, whichever of them made it grow and whatever the restarts, unless
\* a realloc has failed or the worker, stopped or without a name, has freed frame
\* (output_file.c:101-103, 226-239, 259-263 and 589-602).
THEOREM CopiesFit == Spec => []CopyFits
<1>1. MemoryInv => CopyFits
  BY DEF MemoryInv, RoomInv, CopyFits
<1> QED BY <1>1, MemoryInit, MemoryStep, PTL DEF Spec

-----------------------------------------------------------------------------
(* The link.                                                               *)

FolderTypes ==
    /\ DOMAIN files \subseteq Nat \X Nat
    /\ \A f \in DOMAIN files : files[f] \in 1..Len(data)
    /\ data \in Seq(Int)
    /\ link \in 0..Len(data)
    /\ now \in Nat /\ counter \in Nat
    /\ published.nr \in Nat /\ published \in [nr : Nat, bytes : Nat]
    /\ frame \in [nr : Nat, bytes : Nat]

\* There is a picture to write: numbers start at 1.
CopyInv ==
    /\ news => published.nr # 0
    /\ pc \in {"copied", "opened"} => published.nr # 0 /\ frame.nr # 0

\* With a steady clock every name is older than the one given next.
NamesInv ==
    steady => \A f \in DOMAIN files : f[1] < now \/ (f[1] = now /\ f[2] < counter)

\* The worker's file is there, and holds something once it is written.
FileInv ==
    /\ pc \in {"opened", "written", "unlinked"} => name \in DOMAIN files
    /\ pc \in {"written", "unlinked"} => data[files[name]] # Empty

LinkInv == FolderTypes /\ CopyInv /\ NamesInv /\ FileInv /\ LinkNotEmpty

LEMMA LinkInit == Init => LinkInv
  BY DEF Init, LinkInv, FolderTypes, CopyInv, NamesInv, FileInv, LinkNotEmpty, Nothing

\* A step of which all that LinkInv speaks of is unchanged.
LEMMA LinkFrame ==
    LinkInv /\ UNCHANGED <<published, news, frame, pc, counter, name, folder, now, steady>>
        => LinkInv'
  BY DEF LinkInv, FolderTypes, CopyInv, NamesInv, FileInv, LinkNotEmpty, folder

\* A steady clock gives each name once: the file that is opened is a new one.
LEMMA OpenStep == LinkInv /\ Open => LinkInv'
<1> SUFFICES ASSUME LinkInv, Open PROVE LinkInv'
  OBVIOUS
<1> USE DEF LinkInv
<1>1. /\ name' = <<now, counter>> /\ counter' = counter + 1
      /\ UNCHANGED <<published, news, frame, link, now, steady>>
      /\ pc = "copied"
  BY DEF Open, memory, clock
<1>2. name' \in Nat \X Nat /\ counter' \in Nat
  BY <1>1 DEF FolderTypes
<1>3. CASE Create /\ Goto("opened")
  <2>1. /\ data' = Append(data, Empty) /\ pc' = "opened" /\ name' \notin DOMAIN files
        /\ files' = [f \in DOMAIN files \cup {name'} |->
                        IF f = name' THEN Len(data') ELSE files[f]]
    BY <1>3 DEF Create, Goto
  <2>2. /\ data' \in Seq(Int) /\ Len(data') = Len(data) + 1 /\ Len(data) \in Nat
        /\ \A i \in 1..Len(data) : data'[i] = data[i]
    BY <2>1 DEF FolderTypes, Empty
  <2>3. \A f \in DOMAIN files' : files'[f] \in 1..Len(data')
    BY <2>1, <2>2 DEF FolderTypes
  <2>4. FolderTypes'
    BY <1>1, <1>2, <2>1, <2>2, <2>3 DEF FolderTypes
  <2>5. CopyInv' /\ FileInv'
    BY <1>1, <2>1 DEF CopyInv, FileInv
  <2>6. NamesInv'
    <3> SUFFICES ASSUME steady, NEW f \in DOMAIN files'
                 PROVE  f[1] < now \/ (f[1] = now /\ f[2] < counter')
      BY <1>1 DEF NamesInv
    <3>1. CASE f = name'
      BY <1>1, <3>1 DEF FolderTypes
    <3>2. CASE f # name'
      <4>1. f \in DOMAIN files
        BY <2>1, <3>2
      <4> QED BY <1>1, <4>1 DEF NamesInv, FolderTypes
    <3> QED BY <3>1, <3>2
  <2>7. LinkNotEmpty'
    <3> SUFFICES ASSUME steady, link # 0 PROVE data'[link] # Empty
      BY <1>1 DEF LinkNotEmpty
    <3>1. link \in 1..Len(data) /\ data[link] # Empty
      BY <2>2 DEF LinkNotEmpty, FolderTypes
    <3>2. data'[link] = data[link]
      BY <2>2, <3>1
    <3> QED BY <3>1, <3>2
  <2> QED BY <2>4, <2>5, <2>6, <2>7
<1>4. CASE Truncate /\ Goto("opened")
  <2>1. /\ name' \in DOMAIN files /\ files' = files /\ pc' = "opened"
        /\ data' = [data EXCEPT ![files[name']] = Empty]
    BY <1>4 DEF Truncate, Goto
  <2>2. ~steady
    <3>1. name'[1] = now /\ name'[2] = counter
      BY <1>1
    <3>2. ~(name'[1] < now) /\ ~(name'[2] < counter)
      BY <3>1 DEF FolderTypes
    <3> QED BY <2>1, <3>1, <3>2 DEF NamesInv
  <2>3. data' \in Seq(Int) /\ Len(data') = Len(data)
    BY <2>1 DEF FolderTypes, Empty
  <2>4. FolderTypes'
    BY <1>1, <1>2, <2>1, <2>3 DEF FolderTypes
  <2>5. CopyInv' /\ FileInv' /\ NamesInv' /\ LinkNotEmpty'
    BY <1>1, <2>1, <2>2 DEF CopyInv, FileInv, NamesInv, LinkNotEmpty
  <2> QED BY <2>4, <2>5
<1>5. CASE Goto("ended") /\ UNCHANGED <<files, data>>
  <2>1. pc' = "ended" /\ files' = files /\ data' = data
    BY <1>5 DEF Goto
  <2>2. FolderTypes'
    BY <1>1, <1>2, <2>1 DEF FolderTypes
  <2>3. NamesInv'
    BY <1>1, <2>1 DEF NamesInv, FolderTypes
  <2> QED BY <1>1, <2>1, <2>2, <2>3 DEF CopyInv, FileInv, LinkNotEmpty
<1> QED BY <1>3, <1>4, <1>5 DEF Open

LEMMA WriteStep == LinkInv /\ Write => LinkInv'
<1> SUFFICES ASSUME LinkInv, Write PROVE LinkInv'
  OBVIOUS
<1> USE DEF LinkInv
<1>1. UNCHANGED <<published, news, frame, name, files, link, now, steady, counter>> /\ pc = "opened"
  BY DEF Write, memory, ring, clock
<1>2. CASE \E d \in {Saved(mine), Torn} :
             data' = [data EXCEPT ![files[name]] = d] /\ Goto("written")
  <2>1. PICK d \in {Saved(mine), Torn} : data' = [data EXCEPT ![files[name]] = d]
    BY <1>2
  <2>2. d \in Int /\ d # Empty
    BY <1>1 DEF Saved, Torn, Empty, CopyInv, FolderTypes
  <2>3. name \in DOMAIN files /\ files[name] \in 1..Len(data)
    BY <1>1 DEF FileInv, FolderTypes
  <2>4. /\ data' \in Seq(Int) /\ Len(data') = Len(data)
        /\ data'[files[name]] = d
        /\ \A i \in 1..Len(data) : data'[i] \in {d, data[i]}
    BY <2>1, <2>2, <2>3 DEF FolderTypes
  <2>5. FolderTypes'
    BY <1>1, <2>4 DEF FolderTypes
  <2>6. LinkNotEmpty'
    <3> SUFFICES ASSUME steady, link # 0 PROVE data'[link] # Empty
      BY <1>1 DEF LinkNotEmpty
    <3>1. link \in 1..Len(data) /\ data[link] # Empty
      BY <2>4 DEF LinkNotEmpty, FolderTypes
    <3> QED BY <2>2, <2>4, <3>1
  <2>7. CopyInv' /\ FileInv' /\ NamesInv'
    BY <1>1, <1>2, <2>2, <2>3, <2>4 DEF CopyInv, FileInv, NamesInv, Goto
  <2> QED BY <2>5, <2>6, <2>7
<1>3. CASE WriteError /\ UNCHANGED data
  BY <1>1, <1>3 DEF WriteError, Goto, FolderTypes, CopyInv, NamesInv, FileInv, LinkNotEmpty
<1> QED BY <1>2, <1>3 DEF Write

\* What both kinds of threads do to the frame.
LEMMA CopyFrame ==
    LinkInv /\ (CopyPicture \/ NoMemory) /\ UNCHANGED published
        => /\ frame' \in [nr : Nat, bytes : Nat]
           /\ published.nr # 0 /\ frame.nr # 0 => frame'.nr # 0
           /\ CopyPicture => frame' = published
  BY DEF LinkInv, FolderTypes, CopyPicture, NoMemory

\* The worker ends, having freed the frame or not.
LEMMA EndFrame ==
    LinkInv /\ pc' \in {"ended", "cancelled"} /\ frame' \in {frame, Nothing}
        /\ (news' => news) /\ UNCHANGED <<published, counter, name, folder, now, steady>>
        => LinkInv'
<1> SUFFICES ASSUME LinkInv, pc' \in {"ended", "cancelled"}, frame' \in {frame, Nothing},
                    news' => news, UNCHANGED <<published, counter, name, folder, now, steady>>
             PROVE  LinkInv'
  OBVIOUS
<1>1. FolderTypes'
  BY DEF LinkInv, FolderTypes, folder, Nothing
<1>2. CopyInv'
  BY DEF LinkInv, CopyInv
<1>3. NamesInv' /\ FileInv' /\ LinkNotEmpty'
  BY DEF LinkInv, NamesInv, FileInv, LinkNotEmpty, folder
<1> QED BY <1>1, <1>2, <1>3 DEF LinkInv

LEMMA LinkStep == LinkInv /\ [Next]_vars => LinkInv'
<1> SUFFICES ASSUME LinkInv, [Next]_vars PROVE LinkInv'
  OBVIOUS
<1>1. CASE Publish
  <2>1. published' \in [nr : Nat, bytes : Nat] /\ published'.nr # 0
    <3>1. PICK b \in Bytes : published' = [nr |-> published.nr + 1, bytes |-> b]
      BY <1>1 DEF Publish
    <3>2. b \in Nat /\ published.nr + 1 \in Nat \ {0}
      BY FileAssumption DEF LinkInv, FolderTypes
    <3> QED BY <3>1, <3>2
  <2> QED BY <1>1, <2>1 DEF Publish, memory, ring, folder, clock, LinkInv, FolderTypes,
                           CopyInv, NamesInv, FileInv, LinkNotEmpty
<1>2. CASE Copy
  <2>1. frame' \in [nr : Nat, bytes : Nat] /\ published' = published
    BY <1>2, CopyFrame DEF Copy
  <2>2. /\ news' = FALSE /\ published.nr # 0
        /\ \/ pc' = "copied" /\ frame' = published
           \/ pc' = "ended"
    BY <1>2, CopyFrame DEF Copy, Goto, LinkInv, CopyInv
  <2> QED BY <1>2, <2>1, <2>2 DEF Copy, ring, folder, clock, LinkInv, FolderTypes,
                                 CopyInv, NamesInv, FileInv, LinkNotEmpty
<1>3. ASSUME NEW t \in Takers, Take(t) PROVE LinkInv'
  <2>1. /\ frame' \in [nr : Nat, bytes : Nat]
        /\ published.nr # 0 /\ frame.nr # 0 => frame'.nr # 0
    BY <1>3, CopyFrame DEF Take
  <2> QED BY <1>3, <2>1 DEF Take, ring, folder, clock, LinkInv, FolderTypes,
                           CopyInv, NamesInv, FileInv, LinkNotEmpty
<1>4. CASE Unlink
  BY <1>4 DEF Unlink, Goto, memory, ring, clock, LinkInv, FolderTypes,
              CopyInv, NamesInv, FileInv, LinkNotEmpty
<1>5. CASE Link
  <2>1. /\ UNCHANGED <<published, news, frame, counter, name, files, data, now, steady>>
        /\ pc = "unlinked" /\ pc' = "linked" /\ link' \in {0, files[name]}
    BY <1>5 DEF Link, Goto, memory, ring, clock
  <2>2. files[name] \in 1..Len(data) /\ data[files[name]] # Empty
    BY <2>1 DEF LinkInv, FolderTypes, FileInv
  <2>3. FolderTypes'
    BY <2>1, <2>2 DEF LinkInv, FolderTypes
  <2>4. CopyInv' /\ NamesInv' /\ FileInv'
    BY <2>1 DEF LinkInv, CopyInv, NamesInv, FileInv
  <2>5. LinkNotEmpty'
    BY <2>1, <2>2 DEF LinkNotEmpty
  <2> QED BY <2>3, <2>4, <2>5 DEF LinkInv
<1>6. CASE Maintain \/ Again
  <2>1. /\ UNCHANGED <<published, news, frame, counter, name, files, data, link, now, steady>>
        /\ pc' \in {"maintain", "wait"}
    BY <1>6 DEF Maintain, Again, Goto, memory, ring, folder, clock
  <2> QED BY <2>1 DEF LinkInv, FolderTypes, CopyInv, NamesInv, FileInv, LinkNotEmpty
<1>7. CASE Delete
  BY <1>7 DEF Delete, memory, clock, LinkInv, FolderTypes,
              CopyInv, NamesInv, FileInv, LinkNotEmpty
<1>8. ASSUME NEW t \in Takers, WriteTaken(t) PROVE LinkInv'
  BY <1>8, LinkFrame DEF WriteTaken, ring, clock
<1>9. CASE Tick
  <2>1. now' = now + 1 /\ now \in Nat
    BY <1>9 DEF Tick, LinkInv, FolderTypes
  <2>2. NamesInv'
    BY <1>9, <2>1 DEF Tick, ring, folder, LinkInv, NamesInv, FolderTypes
  <2> QED BY <1>9, <2>1, <2>2 DEF Tick, memory, ring, folder, LinkInv, FolderTypes,
                                 CopyInv, FileInv, LinkNotEmpty
<1>10. CASE SetBack
  BY <1>10 DEF SetBack, memory, ring, folder, LinkInv, FolderTypes,
               CopyInv, NamesInv, FileInv, LinkNotEmpty
<1>11. CASE Restart
  BY <1>11 DEF Restart, Nothing, folder, LinkInv, FolderTypes,
               CopyInv, NamesInv, FileInv, LinkNotEmpty
<1>12. CASE UNCHANGED vars
  BY <1>12, LinkFrame DEF vars, memory, ring, clock
<1>13. CASE NoName
  BY <1>13, EndFrame DEF NoName, Free, Goto, memory, ring, clock
<1>14. CASE StopWorker
  BY <1>14, EndFrame DEF StopWorker, Free, Goto, ring, clock
<1> QED BY OpenStep, WriteStep, <1>1, <1>2, <1>3, <1>4, <1>5, <1>6, <1>7, <1>8,
           <1>9, <1>10, <1>11, <1>12, <1>13, <1>14 DEF Next

\* Who opens the file of fixed name finds no empty picture, as long as the clock
\* is steady (worker_thread links after it has written, and each name is new:
\* output_file.c:245-293).
THEOREM LinkLeadsToPicture == Spec => []LinkNotEmpty
<1>1. LinkInv => LinkNotEmpty
  BY DEF LinkInv
<1> QED BY <1>1, LinkInit, LinkStep, PTL DEF Spec

-----------------------------------------------------------------------------
(* output_file: the ring.                                                  *)

Younger(all, f) == {g \in all : Before(g, f)}
Older(all, f)   == {g \in all : Before(f, g)}
Rank(all, f)    == Cardinality(Younger(all, f))

\* Names are in a strict total order, so each has a rank of its own.
LEMMA RankIs ==
    ASSUME NEW all, IsFiniteSet(all), all \subseteq Nat \X Nat, NEW f \in all
    PROVE  /\ Rank(all, f) \in Nat /\ Cardinality(all) \in Nat
           /\ IsFiniteSet(Older(all, f)) /\ Cardinality(Older(all, f)) \in Nat
           /\ Cardinality(Older(all, f)) = Cardinality(all) - 1 - Rank(all, f)
           /\ \A g \in all : Before(f, g) => Rank(all, f) < Rank(all, g)
           /\ \A g \in all : f = g \/ Before(f, g) \/ Before(g, f)
<1>1. f[1] \in Nat /\ f[2] \in Nat /\ f = <<f[1], f[2]>>
  OBVIOUS
<1>2. ~Before(f, f)
  BY <1>1 DEF Before
<1>3. ASSUME NEW g \in all PROVE f = g \/ Before(f, g) \/ Before(g, f)
  <2>1. g[1] \in Nat /\ g[2] \in Nat /\ g = <<g[1], g[2]>>
    OBVIOUS
  <2> QED BY <1>1, <2>1 DEF Before
<1>4. ASSUME NEW g \in all, Before(f, g) PROVE ~Before(g, f)
  BY <1>4 DEF Before
<1>5. ASSUME NEW g \in all, NEW h \in all, Before(f, g), Before(h, f) PROVE Before(h, g)
  BY <1>5 DEF Before
<1>6. /\ IsFiniteSet(Younger(all, f)) /\ Younger(all, f) \in SUBSET all
      /\ IsFiniteSet(Older(all, f)) /\ Older(all, f) \in SUBSET all
  BY FS_Subset DEF Younger, Older
<1>7. /\ Cardinality(all) \in Nat /\ Rank(all, f) \in Nat /\ Cardinality(Older(all, f)) \in Nat
  BY <1>6, FS_CardinalityType DEF Rank
<1> DEFINE upTo == Younger(all, f) \cup {f}
<1>8. f \notin Younger(all, f)
  BY <1>2 DEF Younger
<1>9. IsFiniteSet(upTo) /\ Cardinality(upTo) = Rank(all, f) + 1
  BY <1>6, <1>8, FS_AddElement DEF Rank
<1>10. Cardinality(Older(all, f)) = Cardinality(all) - 1 - Rank(all, f)
  <2>1. upTo \cup Older(all, f) = all
    BY <1>3, <1>6 DEF Younger, Older
  <2>2. upTo \cap Older(all, f) = {}
    BY <1>2, <1>4 DEF Younger, Older
  <2> HIDE DEF upTo
  <2>3. Cardinality(all) = Cardinality(upTo) + Cardinality(Older(all, f)) - Cardinality({})
    BY <1>6, <1>9, <2>1, <2>2, FS_Union
  <2>4. Cardinality({}) = 0
    BY FS_EmptySet
  <2> QED BY <1>7, <1>9, <2>3, <2>4
<1>11. ASSUME NEW g \in all, Before(f, g) PROVE Rank(all, f) < Rank(all, g)
  <2>1. upTo \in SUBSET Younger(all, g)
    BY <1>5, <1>11 DEF Younger
  <2>2. IsFiniteSet(Younger(all, g))
    BY FS_Subset DEF Younger
  <2> HIDE DEF upTo
  <2>3. Cardinality(upTo) <= Cardinality(Younger(all, g))
    BY <2>1, <2>2, FS_Subset
  <2>4. Rank(all, g) \in Nat
    BY <2>2, FS_CardinalityType DEF Rank
  <2> QED BY <1>7, <1>9, <2>3, <2>4 DEF Rank
<1> QED BY <1>3, <1>6, <1>7, <1>10, <1>11

\* maintain_ringbuffer leaves Size names at most, and deletes none of which there
\* are not Size newer ones.
LEMMA OldestIs ==
    ASSUME IsFiniteSet(DOMAIN files), DOMAIN files \subseteq Nat \X Nat, Size \in Nat
    PROVE  /\ Cardinality(DOMAIN files \ Oldest) <= Size
           /\ \A f \in Oldest : Cardinality(Older(DOMAIN files, f)) >= Size
<1> DEFINE all  == DOMAIN files
           n    == Cardinality(all)
           kept == all \ Oldest
<1>1. n \in Nat /\ Oldest = {f \in all : Rank(all, f) < n - Size}
  BY FS_CardinalityType DEF Oldest, Rank, Younger
<1>2. ASSUME NEW f \in Oldest PROVE Cardinality(Older(all, f)) >= Size
  BY <1>1, RankIs
<1>3. kept \in SUBSET all /\ IsFiniteSet(kept) /\ Cardinality(kept) \in Nat
  BY FS_Subset, FS_CardinalityType
<1>4. CASE n <= Size
  <2>1. Cardinality(kept) <= n
    BY <1>3, FS_Subset
  <2> QED BY <1>1, <1>2, <1>3, <1>4, <2>1
<1>5. CASE n > Size
  <2> DEFINE ranks == (n - Size)..(n - 1)
             r     == [f \in kept |-> Rank(all, f)]
  <2>1. IsFiniteSet(ranks) /\ Cardinality(ranks) = Size
    <3>1. n - Size \in Int /\ n - 1 \in Int
      BY <1>1
    <3> HIDE DEF n
    <3>2. /\ IsFiniteSet((n - Size)..(n - 1))
          /\ Cardinality((n - Size)..(n - 1)) = IF n - Size > n - 1 THEN 0 ELSE (n - 1) - (n - Size) + 1
      BY <3>1, FS_Interval
    <3>3. (IF n - Size > n - 1 THEN 0 ELSE (n - 1) - (n - Size) + 1) = Size
      BY <1>1, <1>5
    <3> QED BY <3>2, <3>3
  <2>2. ASSUME NEW f \in kept PROVE Rank(all, f) \in ranks
    <3>1. f \in all /\ ~(Rank(all, f) < n - Size)
      BY <1>1
    <3>2. Rank(all, f) \in Nat /\ Cardinality(Older(all, f)) \in Nat
          /\ Cardinality(Older(all, f)) = n - 1 - Rank(all, f)
      BY <3>1, RankIs
    <3> HIDE DEF n
    <3> QED BY <1>1, <1>5, <3>1, <3>2
  <2>3. ASSUME NEW f \in kept, NEW g \in kept, Rank(all, f) = Rank(all, g) PROVE f = g
    <3>1. f \in all /\ g \in all /\ Rank(all, f) \in Nat /\ Rank(all, g) \in Nat
      BY RankIs
    <3>2. /\ f = g \/ Before(f, g) \/ Before(g, f)
          /\ Before(f, g) => Rank(all, f) < Rank(all, g)
          /\ Before(g, f) => Rank(all, g) < Rank(all, f)
      BY <3>1, RankIs
    <3> QED BY <2>3, <3>1, <3>2
  <2>4. r \in Injection(kept, ranks)
    BY <2>2, <2>3 DEF Injection, IsInjective
  <2>5. Cardinality(kept) <= Cardinality(ranks)
    BY <2>1, <2>4, FS_Injection
  <2> QED BY <1>2, <2>1, <2>5
<1> QED BY <1>1, <1>4, <1>5

\* What output_init says the ring may exceed by, and the names given since the
\* ring was last cut down.
Spare == IF Exceed > 0 THEN Exceed ELSE 0
Since(c) == IF c <= Spare THEN c - 1 ELSE c % (Spare + 1)
Counted(c) == \E q \in Nat : \E r \in 0..Spare : c = (Spare + 1) * q + r

LEMMA SpareIs == Spare \in Nat /\ (Exceed > 0 => Spare = Exceed)
  BY FileAssumption DEF Spare

LEMMA Remainder ==
    ASSUME NEW c \in Nat, NEW m \in Nat \ {0}, NEW q \in Nat, NEW r \in 0..(m - 1), c = m * q + r
    PROVE  c % m = r
  OBVIOUS

LEMMA SmallRemainder == ASSUME NEW c \in Nat, NEW m \in Nat \ {0}, c < m PROVE c % m = c
  OBVIOUS

LEMMA CountNext ==
    ASSUME NEW c \in Nat, Counted(c)
    PROVE  /\ Counted(c + 1)
           /\ c % (Spare + 1) \in 0..Spare
           /\ (c + 1) % (Spare + 1) \in {0, (c % (Spare + 1)) + 1}
<1> DEFINE m == Spare + 1
<1>1. m \in Nat \ {0} /\ Spare \in Nat /\ Spare = m - 1
  BY SpareIs
<1>2. PICK q \in Nat : \E r \in 0..Spare : c = m * q + r
  BY DEF Counted
<1>3. PICK r \in 0..Spare : c = m * q + r
  BY <1>2
<1> HIDE DEF m
<1>4. c % m = r
  BY <1>1, <1>3, Remainder
<1>5. CASE r = Spare
  <2>1. c + 1 = m * (q + 1) + 0 /\ c + 1 \in Nat /\ q + 1 \in Nat /\ 0 \in 0..(m - 1) /\ 0 \in 0..Spare
    BY <1>1, <1>3, <1>5
  <2>2. (c + 1) % m = 0
    BY <1>1, <2>1, Remainder
  <2>3. Counted(c + 1)
    BY <2>1 DEF Counted, m
  <2> QED BY <1>4, <2>2, <2>3 DEF m
<1>6. CASE r # Spare
  <2>1. c + 1 = m * q + (r + 1) /\ c + 1 \in Nat /\ r + 1 \in 0..(m - 1) /\ r + 1 \in 0..Spare
    BY <1>1, <1>3, <1>6
  <2>2. (c + 1) % m = r + 1
    BY <1>1, <2>1, Remainder
  <2>3. Counted(c + 1)
    BY <2>1 DEF Counted, m
  <2> QED BY <1>4, <2>2, <2>3 DEF m
<1> QED BY <1>5, <1>6

LEMMA CountBack ==
    ASSUME NEW c \in Nat, c >= 1, Counted(c)
    PROVE  Counted(c - 1)
<1> DEFINE m == Spare + 1
<1>1. m \in Nat \ {0} /\ Spare \in Nat /\ Spare = m - 1
  BY SpareIs
<1>2. PICK q \in Nat : \E r \in 0..Spare : c = m * q + r
  BY DEF Counted
<1>3. PICK r \in 0..Spare : c = m * q + r
  BY <1>2
<1> HIDE DEF m
<1>4. CASE r = 0
  <2>1. q # 0
    <3> SUFFICES ASSUME q = 0 PROVE FALSE
      OBVIOUS
    <3> QED BY <1>1, <1>3, <1>4
  <2>2. q - 1 \in Nat /\ c - 1 = m * (q - 1) + Spare /\ Spare \in 0..Spare
    BY <1>1, <1>3, <1>4, <2>1
  <2> QED BY <2>2 DEF Counted, m
<1>5. CASE r # 0
  <2>1. c - 1 = m * q + (r - 1) /\ r - 1 \in 0..Spare
    BY <1>1, <1>3, <1>5
  <2> QED BY <2>1 DEF Counted, m
<1> QED BY <1>4, <1>5

\* The ring is cut down when a name is due, and each name not due is one more.
LEMMA SinceIs ==
    ASSUME NEW c \in Nat, c >= 1, Counted(c)
    PROVE  Since(c) \in 0..Spare
<1>1. Spare \in Nat /\ c % (Spare + 1) \in 0..Spare
  BY CountNext, SpareIs
<1> QED BY <1>1 DEF Since

LEMMA SinceNext ==
    ASSUME NEW c \in Nat, c >= 1, Counted(c)
    PROVE  LET isDue == Exceed <= 0 \/ c = 1 \/ c % (Exceed + 1) = 0 IN
           /\ isDue => Since(c) = 0
           /\ ~isDue => c - 1 \in Nat /\ c - 1 >= 1 /\ (Counted(c - 1) => Since(c) = Since(c - 1) + 1)
<1> DEFINE m == Spare + 1
           isDue == Exceed <= 0 \/ c = 1 \/ c % (Exceed + 1) = 0
<1>1. Spare \in Nat /\ m \in Nat \ {0} /\ c % m \in 0..Spare
  BY CountNext, SpareIs
<1>2. (Exceed <= 0 => Spare = 0) /\ (Exceed > 0 => Spare = Exceed) /\ Exceed \in Int
  BY FileAssumption DEF Spare
<1>3. ASSUME isDue PROVE Since(c) = 0
  <2>1. CASE Spare = 0
    <3>1. Since(c) = c % m /\ c % m \in 0..0
      BY <1>1, <2>1 DEF Since
    <3> QED BY <3>1
  <2>2. CASE Spare # 0 /\ c <= Spare
    <3>1. c % m = c
      BY <1>1, <2>2, SmallRemainder
    <3>2. c = 1
      BY <1>2, <1>3, <2>2, <3>1
    <3> QED BY <2>2, <3>2 DEF Since
  <2>3. CASE Spare # 0 /\ ~(c <= Spare)
    <3>1. c % (Exceed + 1) = 0 /\ Spare = Exceed
      BY <1>1, <1>2, <1>3, <2>3
    <3> QED BY <2>3, <3>1 DEF Since
  <2> QED BY <2>1, <2>2, <2>3
<1>4. ASSUME ~isDue
      PROVE  c - 1 \in Nat /\ c - 1 >= 1 /\ (Counted(c - 1) => Since(c) = Since(c - 1) + 1)
  <2>1. c - 1 \in Nat /\ c - 1 >= 1 /\ Spare = Exceed /\ c % m # 0
    BY <1>2, <1>4
  <2> SUFFICES ASSUME Counted(c - 1) PROVE Since(c) = Since(c - 1) + 1
    BY <2>1
  <2>2. CASE c <= Spare
    BY <1>1, <2>1, <2>2 DEF Since
  <2>3. CASE c - 1 > Spare
    <3>1. (c - 1) + 1 = c
      OBVIOUS
    <3>2. (c - 1) % m \in 0..Spare /\ c % m \in {0, ((c - 1) % m) + 1}
      BY <2>1, <3>1, CountNext
    <3> QED BY <1>1, <2>1, <2>3, <3>2 DEF Since
  <2>4. CASE c - 1 = Spare
    <3>1. c = m * 1 + 0 /\ 0 \in 0..(m - 1)
      BY <1>1, <2>4
    <3>2. c % m = 0
      BY <1>1, <3>1, Remainder
    <3> QED BY <2>1, <3>2
  <2> QED BY <1>1, <2>1, <2>2, <2>3, <2>4
<1> QED BY <1>3, <1>4

RingInv ==
    /\ IsFiniteSet(DOMAIN files) /\ doomed \subseteq DOMAIN files
    /\ Counted(counter)
    /\ pc \in {"opened", "written", "unlinked", "linked", "maintain"} => counter >= 1
    /\ Size \in Nat /\ ~missed =>
         /\ pc \in {"wait", "copied"} /\ counter >= 1 =>
              Cardinality(DOMAIN files) <= Size + Since(counter)
         /\ pc \in {"opened", "written", "unlinked", "linked"} /\ counter > 1 =>
              Cardinality(DOMAIN files) <= Size + Since(counter - 1) + 1
         /\ pc = "maintain" =>
              Cardinality(DOMAIN files \ doomed) <= Size + Since(counter)
    /\ Size \in Nat /\ pc = "maintain" =>
         \A f \in doomed : Cardinality(Older(DOMAIN files, f)) >= Size

\* With a steady clock the order of the names is that of the inodes.
InodesInv ==
    steady => \A f, g \in DOMAIN files : Before(f, g) => files[f] < files[g]

LEMMA RingInit == Init => RingInv /\ InodesInv
<1> SUFFICES ASSUME Init PROVE RingInv /\ InodesInv
  OBVIOUS
<1>1. /\ DOMAIN files = {} /\ doomed = {} /\ counter = 0 /\ pc = "wait"
  BY DEF Init
<1>2. Counted(0)
  <2>1. 0 = (Spare + 1) * 0 + 0 /\ 0 \in 0..Spare
    BY SpareIs
  <2> QED BY <2>1 DEF Counted
<1>3. IsFiniteSet({})
  BY FS_EmptySet
<1> QED BY <1>1, <1>2, <1>3 DEF RingInv, InodesInv

\* A step that leaves the folder and the names alone, and does not go on.
LEMMA RingFrame ==
    ASSUME RingInv, InodesInv, UNCHANGED <<files, counter, doomed, missed>>, steady' => steady,
           \/ pc' = pc
           \/ pc' \in {"ended", "cancelled"}
           \/ pc = "wait" /\ pc' = "copied"
           \/ pc = "opened" /\ pc' = "written"
           \/ pc = "written" /\ pc' = "unlinked"
           \/ pc = "unlinked" /\ pc' = "linked"
    PROVE  RingInv' /\ InodesInv'
<1>1. InodesInv'
  BY DEF InodesInv
<1>2. RingInv'
  BY DEF RingInv, Older
<1> QED BY <1>1, <1>2

LEMMA RingOpen == ASSUME LinkInv, RingInv, InodesInv, Open PROVE RingInv' /\ InodesInv'
<1>1. /\ pc = "copied" /\ name' = <<now, counter>> /\ counter' = counter + 1
      /\ UNCHANGED <<doomed, missed, steady>> /\ pc' \in {"opened", "ended"}
      /\ counter \in Nat /\ counter' >= 1 /\ counter' - 1 = counter
      /\ \A f \in DOMAIN files : files[f] \in 1..Len(data)
      /\ Len(data) \in Nat /\ IsFiniteSet(DOMAIN files) /\ DOMAIN files \subseteq Nat \X Nat
  BY DEF Open, Goto, clock, LinkInv, FolderTypes, RingInv
<1>2. Counted(counter')
  BY <1>1, CountNext DEF RingInv
<1>3. /\ DOMAIN files' \in {DOMAIN files, DOMAIN files \cup {name'}}
      /\ DOMAIN files \subseteq DOMAIN files'
  BY DEF Open, Create, Truncate
<1>4. /\ IsFiniteSet(DOMAIN files')
      /\ Cardinality(DOMAIN files') <= Cardinality(DOMAIN files) + 1
      /\ Cardinality(DOMAIN files) \in Nat /\ Cardinality(DOMAIN files') \in Nat
  <2>1. /\ IsFiniteSet(DOMAIN files \cup {name'})
        /\ Cardinality(DOMAIN files) \in Nat
        /\ Cardinality(DOMAIN files \cup {name'}) \in
             {Cardinality(DOMAIN files), Cardinality(DOMAIN files) + 1}
    BY <1>1, FS_AddElement, FS_CardinalityType
  <2>2. CASE DOMAIN files' = DOMAIN files
    BY <1>1, <2>1, <2>2
  <2>3. CASE DOMAIN files' = DOMAIN files \cup {name'}
    BY <2>1, <2>3
  <2> QED BY <1>3, <2>2, <2>3
<1>5. Size \in Nat /\ counter' > 1 /\ ~missed => Cardinality(DOMAIN files') <= Size + Since(counter' - 1) + 1
  <2> SUFFICES ASSUME Size \in Nat, counter' > 1, ~missed
               PROVE  Cardinality(DOMAIN files') <= Size + Since(counter) + 1
    BY <1>1
  <2>1. counter >= 1 /\ Counted(counter)
    BY <1>1 DEF RingInv
  <2>2. Cardinality(DOMAIN files) <= Size + Since(counter)
    BY <1>1, <2>1 DEF RingInv
  <2>3. Since(counter) \in Nat
    BY <1>1, <2>1, SinceIs, SpareIs
  <2> QED BY <1>4, <2>2, <2>3
<1>6. RingInv'
  <2>1. doomed' \subseteq DOMAIN files'
    BY <1>1, <1>3 DEF RingInv
  <2> QED BY <1>1, <1>2, <1>4, <1>5, <2>1 DEF RingInv
<1>7. InodesInv'
  <2> SUFFICES ASSUME steady, NEW f \in DOMAIN files', NEW g \in DOMAIN files', Before(f, g)
               PROVE  files'[f] < files'[g]
    BY <1>1 DEF InodesInv
  <2>1. CASE UNCHANGED files
    BY <2>1 DEF InodesInv
  <2>2. CASE Create
    <3>1. /\ data' = Append(data, Empty) /\ name' \notin DOMAIN files
          /\ files' = [k \in DOMAIN files \cup {name'} |->
                        IF k = name' THEN Len(data') ELSE files[k]]
      BY <2>2 DEF Create
    <3>2. Len(data') = Len(data) + 1
      BY <3>1 DEF LinkInv, FolderTypes, Empty
    <3>3. f # name'
      <4> SUFFICES ASSUME f = name' PROVE FALSE
        OBVIOUS
      <4>1. f[1] = now /\ f[2] = counter /\ now \in Nat
        BY <1>1 DEF LinkInv, FolderTypes
      <4>2. CASE g = name'
        <5>1. now < now \/ counter < counter
          BY <4>1, <4>2 DEF Before
        <5> QED BY <1>1, <4>1, <5>1
      <4>3. CASE g # name'
        <5>1. g \in DOMAIN files
          BY <3>1, <4>3
        <5>2. g[1] < now \/ (g[1] = now /\ g[2] < counter)
          BY <5>1 DEF LinkInv, NamesInv
        <5>3. g[1] \in Nat /\ g[2] \in Nat
          BY <1>1, <5>1
        <5> QED BY <1>1, <4>1, <5>2, <5>3 DEF Before
      <4> QED BY <4>2, <4>3
    <3>4. f \in DOMAIN files /\ files'[f] = files[f]
      BY <3>1, <3>3
    <3>5. CASE g = name'
      <4>1. files'[g] = Len(data) + 1 /\ files[f] \in 1..Len(data)
        BY <1>1, <3>1, <3>2, <3>4, <3>5
      <4> QED BY <1>1, <3>4, <4>1
    <3>6. CASE g # name'
      <4>1. g \in DOMAIN files /\ files'[g] = files[g]
        BY <3>1, <3>6
      <4> QED BY <3>4, <4>1 DEF InodesInv
    <3> QED BY <3>5, <3>6
  <2> QED BY <2>1, <2>2 DEF Open, Truncate
<1> QED BY <1>6, <1>7

LEMMA RingMaintain == ASSUME LinkInv, RingInv, InodesInv, Maintain PROVE RingInv' /\ InodesInv'
<1>1. /\ pc = "linked" /\ pc' = "maintain" /\ UNCHANGED <<files, counter, steady>>
      /\ IF Due /\ Size >= 0
         THEN (doomed' = Oldest /\ missed' = FALSE) \/ (doomed' = {} /\ missed' = TRUE)
         ELSE doomed' = {} /\ missed' = missed
      /\ counter \in Nat /\ counter >= 1 /\ Counted(counter)
      /\ IsFiniteSet(DOMAIN files) /\ DOMAIN files \subseteq Nat \X Nat
  BY DEF Maintain, Goto, folder, clock, LinkInv, FolderTypes, RingInv
<1>2. InodesInv'
  BY <1>1 DEF InodesInv
<1>3. doomed' \subseteq DOMAIN files'
  BY <1>1 DEF Oldest
<1>4. ASSUME Size \in Nat
      PROVE  /\ ~missed' => Cardinality(DOMAIN files' \ doomed') <= Size + Since(counter')
             /\ \A f \in doomed' : Cardinality(Older(DOMAIN files', f)) >= Size
  <2>1. Size >= 0
    BY <1>4
  <2>2. CASE Due
    <3>1. (doomed' = Oldest /\ missed' = FALSE) \/ (doomed' = {} /\ missed' = TRUE)
      BY <1>1, <2>1, <2>2
    <3>2. Since(counter) = 0
      BY <1>1, <2>2, SinceNext DEF Due
    <3>3. /\ Cardinality(DOMAIN files \ Oldest) <= Size
          /\ \A f \in Oldest : Cardinality(Older(DOMAIN files, f)) >= Size
      BY <1>1, <1>4, OldestIs
    <3>4. Size + Since(counter) = Size
      BY <1>4, <3>2
    <3> QED BY <1>1, <3>1, <3>3, <3>4
  <2>3. CASE ~Due
    <3>1. doomed' = {} /\ missed' = missed /\ DOMAIN files' \ doomed' = DOMAIN files
      BY <1>1, <2>3
    <3>2. counter - 1 \in Nat /\ counter - 1 >= 1 /\ (Counted(counter - 1) => Since(counter) = Since(counter - 1) + 1)
      BY <1>1, <2>3, SinceNext DEF Due
    <3>3. Counted(counter - 1)
      BY <1>1, <3>2, CountBack
    <3>4. ~missed => Cardinality(DOMAIN files) <= Size + Since(counter - 1) + 1
      BY <1>1, <1>4, <3>2 DEF RingInv
    <3>5. Since(counter - 1) \in Nat
      BY <3>2, <3>3, SinceIs, SpareIs
    <3>6. Size + Since(counter - 1) + 1 = Size + Since(counter)
      BY <1>4, <3>2, <3>3, <3>5
    <3> QED BY <1>1, <3>1, <3>4, <3>6
  <2> QED BY <2>2, <2>3
<1>5. RingInv'
  BY <1>1, <1>3, <1>4 DEF RingInv
<1> QED BY <1>2, <1>5

\* Deleting the oldest first takes away none of the files newer than the others.
LEMMA RingDelete == ASSUME LinkInv, RingInv, InodesInv, Delete PROVE RingInv' /\ InodesInv'
<1>1. PICK f \in doomed :
        /\ \A g \in doomed \ {f} : Before(f, g)
        /\ doomed' = doomed \ {f}
        /\ \/ files' = [g \in DOMAIN files \ {f} |-> files[g]] /\ missed' = missed
           \/ missed' = TRUE /\ files' = files
  BY DEF Delete
<1>2. /\ UNCHANGED <<pc, counter, steady>> /\ pc = "maintain"
      /\ f \in DOMAIN files /\ doomed \subseteq DOMAIN files
      /\ DOMAIN files \subseteq Nat \X Nat /\ IsFiniteSet(DOMAIN files)
  BY <1>1 DEF Delete, clock, LinkInv, FolderTypes, RingInv
<1>3. CASE missed' = TRUE /\ files' = files
  BY <1>1, <1>2, <1>3 DEF RingInv, InodesInv, Older
<1>4. CASE files' = [g \in DOMAIN files \ {f} |-> files[g]] /\ missed' = missed
  <2>1. DOMAIN files' = DOMAIN files \ {f} /\ missed' = missed
    BY <1>4
  <2>2. InodesInv'
    BY <1>2, <1>4, <2>1 DEF InodesInv
  <2>3. IsFiniteSet(DOMAIN files')
    BY <1>2, <2>1, FS_RemoveElement
  <2>4. DOMAIN files' \ doomed' = DOMAIN files \ doomed
    BY <1>1, <1>2, <2>1
  <2>5. ASSUME NEW g \in doomed' PROVE Older(DOMAIN files', g) = Older(DOMAIN files, g)
    <3>1. Before(f, g) /\ g \in DOMAIN files
      BY <1>1, <1>2
    <3>2. ~Before(g, f)
      BY <1>2, <3>1 DEF Before
    <3> QED BY <2>1, <3>2 DEF Older
  <2>6. RingInv'
    BY <1>1, <1>2, <2>1, <2>3, <2>4, <2>5 DEF RingInv
  <2> QED BY <2>2, <2>6
<1> QED BY <1>1, <1>3, <1>4

LEMMA RingAgain == ASSUME RingInv, InodesInv, Again PROVE RingInv' /\ InodesInv'
<1>1. /\ pc = "maintain" /\ doomed = {} /\ pc' = "wait" /\ UNCHANGED <<files, counter, steady, doomed, missed>>
  BY DEF Again, Goto, ring, folder, clock
<1>2. DOMAIN files \ doomed = DOMAIN files
  BY <1>1
<1>3. RingInv'
  BY <1>1, <1>2 DEF RingInv
<1> QED BY <1>1, <1>3 DEF InodesInv

LEMMA RingStep == LinkInv /\ RingInv /\ InodesInv /\ [Next]_vars => RingInv' /\ InodesInv'
<1> SUFFICES ASSUME LinkInv, RingInv, InodesInv, [Next]_vars PROVE RingInv' /\ InodesInv'
  OBVIOUS
<1>1. CASE Publish \/ Tick \/ SetBack \/ UNCHANGED vars
  <2>1. UNCHANGED <<files, counter, doomed, missed, pc>> /\ (steady' => steady)
    BY <1>1 DEF Publish, Tick, SetBack, vars, ring, folder, clock
  <2> QED BY <2>1, RingFrame
<1>2. CASE Copy \/ NoName \/ Write \/ Unlink \/ Link \/ StopWorker
  <2>1. /\ UNCHANGED <<files, counter, doomed, missed, steady>>
        /\ \/ pc' \in {"ended", "cancelled"}
           \/ pc = "wait" /\ pc' = "copied"
           \/ pc = "opened" /\ pc' = "written"
           \/ pc = "written" /\ pc' = "unlinked"
           \/ pc = "unlinked" /\ pc' = "linked"
    BY <1>2 DEF Copy, NoName, Write, WriteError, Unlink, Link, StopWorker, Goto, ring, folder, clock
  <2> QED BY <2>1, RingFrame
<1>3. ASSUME NEW t \in Takers, Take(t) \/ WriteTaken(t) PROVE RingInv' /\ InodesInv'
  <2>1. UNCHANGED <<files, counter, doomed, missed, pc, steady>>
    BY <1>3 DEF Take, WriteTaken, ring, folder, clock
  <2> QED BY <2>1, RingFrame
<1>4. CASE Restart
  <2>1. /\ files' = files /\ counter' = 0 /\ pc' = "wait" /\ doomed' = {} /\ (steady' => steady)
    BY <1>4 DEF Restart, folder
  <2>2. Counted(0)
    <3>1. 0 = (Spare + 1) * 0 + 0 /\ 0 \in 0..Spare
      BY SpareIs
    <3> QED BY <3>1 DEF Counted
  <2>3. RingInv'
    BY <2>1, <2>2 DEF RingInv
  <2> QED BY <2>1, <2>3 DEF InodesInv
<1> QED BY <1>1, <1>2, <1>3, <1>4, RingOpen, RingMaintain, RingDelete, RingAgain DEF Next

\* maintain_ringbuffer deletes a picture only when ringbuffer_size pictures made
\* after it are there, as long as the clock is steady (output_file.c:128-183).
THEOREM RingKeepsNewest == Spec => KeepsNewest
<1> DEFINE Kept == \A f \in DOMAIN files \ DOMAIN files' :
                      steady => Cardinality({g \in DOMAIN files' : files[g] > files[f]}) >= Size
<1>1. ASSUME LinkInv, RingInv, InodesInv, [Next]_vars PROVE [Kept]_vars
  <2>6. CASE UNCHANGED files
    BY <2>6
  <2>1. CASE Delete /\ ~UNCHANGED files
    <3>1. PICK f \in doomed :
            /\ \A g \in doomed \ {f} : Before(f, g)
            /\ files' = [g \in DOMAIN files \ {f} |-> files[g]] \/ UNCHANGED files
      BY <2>1 DEF Delete
    <3>2. /\ f \in DOMAIN files /\ DOMAIN files' = DOMAIN files \ {f} /\ pc = "maintain"
          /\ DOMAIN files \subseteq Nat \X Nat /\ IsFiniteSet(DOMAIN files)
          /\ \A g \in DOMAIN files : files[g] \in Int
      <4>1. /\ pc = "maintain" /\ f \in DOMAIN files
            /\ DOMAIN files \subseteq Nat \X Nat /\ IsFiniteSet(DOMAIN files)
        BY <1>1, <2>1, <3>1 DEF Delete, LinkInv, FolderTypes, RingInv
      <4>2. \A g \in DOMAIN files : files[g] \in Int
        BY <1>1 DEF LinkInv, FolderTypes
      <4>3. DOMAIN files' = DOMAIN files \ {f}
        BY <2>1, <3>1
      <4> QED BY <4>1, <4>2, <4>3
    <3> DEFINE newer == {g \in DOMAIN files' : files[g] > files[f]}
    <3>3. IsFiniteSet(newer) /\ Cardinality(newer) \in Nat
      <4>1. newer \subseteq DOMAIN files
        BY <3>2
      <4> QED BY <3>2, <4>1, FS_Subset, FS_CardinalityType
    <3>4. ASSUME steady PROVE Cardinality(newer) >= Size
      <4>1. CASE Size \in Nat
        <5>1. Older(DOMAIN files, f) \subseteq newer
          <6> SUFFICES ASSUME NEW g \in DOMAIN files, Before(f, g)
                       PROVE  g \in newer
            BY DEF Older
          <6>1. files[f] < files[g]
            BY <1>1, <3>2, <3>4 DEF InodesInv
          <6>2. g # f
            BY <3>2, <6>1
          <6> QED BY <3>2, <6>1, <6>2
        <5>2. Cardinality(Older(DOMAIN files, f)) >= Size
          BY <1>1, <3>1, <3>2, <4>1 DEF RingInv
        <5>3. /\ Cardinality(Older(DOMAIN files, f)) <= Cardinality(newer)
              /\ Cardinality(Older(DOMAIN files, f)) \in Nat
          BY <3>3, <5>1, FS_Subset, FS_CardinalityType
        <5> QED BY <3>3, <4>1, <5>2, <5>3
      <4>2. CASE Size = -1
        BY <3>3, <4>2
      <4> QED BY <4>1, <4>2, FileAssumption
    <3>5. DOMAIN files \ DOMAIN files' = {f}
      BY <3>2
    <3> QED BY <3>4, <3>5
  <2>2. ASSUME DOMAIN files \subseteq DOMAIN files' PROVE Kept
    BY <2>2
  <2>3. CASE Open
    BY <2>2, <2>3 DEF Open, Create, Truncate
  <2>4. CASE \/ Publish \/ Copy \/ NoName \/ Write \/ Unlink \/ Link \/ Maintain \/ Again
             \/ StopWorker \/ Tick \/ SetBack \/ Restart
    <3>1. UNCHANGED files
      BY <2>4 DEF Publish, Copy, NoName, StopWorker, Write, Unlink, Link, Maintain, Again, Tick, SetBack, Restart, folder
    <3> QED BY <2>2, <3>1
  <2>5. ASSUME NEW t \in Takers, Take(t) \/ WriteTaken(t) PROVE Kept
    BY <2>2, <2>5 DEF Take, WriteTaken, folder
  <2> QED BY <1>1, <2>1, <2>3, <2>4, <2>5, <2>6 DEF Next
<1> QED BY <1>1, LinkInit, LinkStep, RingInit, RingStep, PTL DEF Spec, KeepsNewest

-----------------------------------------------------------------------------
(* output_file: the types.                                                 *)

Sizes == {0} \cup {b + Slack : b \in Bytes}

FrameRanges ==
    /\ published \in [nr : 0..MaxPictures, bytes : Bytes \cup {0}]
    /\ frame \in [nr : 0..MaxPictures, bytes : Bytes \cup {0}]
    /\ room \in Sizes /\ maxFrame \in Sizes

\* The counter is behind the pictures: a name is given to each at most once.
CounterRanges ==
    /\ pc \in {"wait", "copied", "opened", "written", "unlinked", "linked", "maintain", "ended",
              "cancelled"}
    /\ news \in BOOLEAN /\ now \in 0..MaxTime
    /\ counter \in Nat /\ counter <= published.nr
    /\ news => pc = "wait"
    /\ news \/ pc = "copied" => counter < published.nr
    /\ name \in (0..MaxTime) \X (0..MaxPictures)

DataRanges ==
    /\ \A i \in 1..Len(data) : data[i] \in {Empty, Torn} \cup 1..MaxPictures
    /\ pc \in {"opened", "written", "unlinked", "linked"} => name \in DOMAIN files

RangesInv == FrameRanges /\ CounterRanges /\ DataRanges

LEMMA RangesInit == Init => RangesInv
<1> SUFFICES ASSUME Init PROVE RangesInv
  OBVIOUS
<1>1. FrameRanges
  BY FileAssumption DEF Init, FrameRanges, Sizes, Nothing
<1>2. CounterRanges
  <2>1. name \in (0..MaxTime) \X (0..MaxPictures)
    BY FileAssumption DEF Init
  <2>2. published.nr = 0 /\ counter = 0 /\ now = 0 /\ news = FALSE /\ pc = "wait"
    BY DEF Init, Nothing
  <2>3. now \in 0..MaxTime
    BY <2>2, FileAssumption
  <2>4. counter \in Nat /\ counter <= published.nr
    BY <2>2
  <2> QED BY <2>1, <2>2, <2>3, <2>4 DEF CounterRanges
<1>3. DataRanges
  BY DEF Init, DataRanges
<1> QED BY <1>1, <1>2, <1>3 DEF RangesInv

LEMMA CopyRanges ==
    RangesInv /\ (CopyPicture \/ NoMemory) /\ UNCHANGED published => FrameRanges'
<1> SUFFICES ASSUME RangesInv, CopyPicture \/ NoMemory, UNCHANGED published PROVE FrameRanges'
  OBVIOUS
<1> USE DEF RangesInv, FrameRanges
<1>1. TooSmall(published.bytes) => Grown(published.bytes) \in Sizes
  <2> SUFFICES ASSUME TooSmall(published.bytes) PROVE published.bytes \in Bytes
    BY DEF Grown, Sizes
  <2>1. maxFrame >= 0 /\ maxFrame \in Int
    BY FileAssumption DEF Sizes
  <2>2. published.bytes # 0
    BY <2>1 DEF TooSmall
  <2> QED BY <2>2
<1>2. maxFrame' \in Sizes /\ room' \in Sizes
  BY <1>1 DEF CopyPicture, NoMemory
<1>3. frame' \in {frame, published}
  BY DEF CopyPicture, NoMemory
<1> QED BY <1>2, <1>3

LEMMA RangesStep == LinkInv /\ RangesInv /\ [Next]_vars => RangesInv'
<1> SUFFICES ASSUME LinkInv, RangesInv, [Next]_vars PROVE RangesInv'
  OBVIOUS
<1> USE DEF RangesInv
<1>0. published.nr \in 0..MaxPictures /\ MaxPictures \in Nat /\ MaxTime \in Nat /\ published' = published => published'.nr = published.nr
  BY FileAssumption DEF FrameRanges
<1>1. CASE Publish
  <2>1. PICK b \in Bytes : published' = [nr |-> published.nr + 1, bytes |-> b]
    BY <1>1 DEF Publish
  <2>2. published'.nr = published.nr + 1 /\ published.nr \in 0..(MaxPictures - 1)
    BY <1>1, <2>1, FileAssumption DEF Publish, FrameRanges
  <2>3. published' \in [nr : 0..MaxPictures, bytes : Bytes \cup {0}]
    BY <2>1, <2>2, FileAssumption
  <2>4. UNCHANGED <<frame, room, maxFrame, pc, counter, name, files, data, now>>
        /\ news' = (news \/ pc = "wait")
    BY <1>1 DEF Publish, ring, memory, folder, clock
  <2>5. FrameRanges'
    BY <2>3, <2>4 DEF FrameRanges
  <2>6. CounterRanges'
    BY <2>2, <2>4 DEF CounterRanges
  <2> QED BY <2>4, <2>5, <2>6 DEF DataRanges
<1>2. CASE Copy
  <2>1. /\ UNCHANGED <<published, counter, name, files, data, now>>
        /\ news /\ news' = FALSE /\ pc' \in {"copied", "ended"}
    BY <1>2 DEF Copy, Goto, ring, folder, clock
  <2>2. FrameRanges'
    BY <1>2, <2>1, CopyRanges DEF Copy
  <2>3. CounterRanges'
    BY <2>1 DEF CounterRanges
  <2> QED BY <2>1, <2>2, <2>3 DEF DataRanges
<1>3. CASE Open
  <2>1. /\ UNCHANGED <<published, news, frame, room, maxFrame, now>> /\ pc = "copied"
        /\ name' = <<now, counter>> /\ counter' = counter + 1
        /\ pc' \in {"opened", "ended"}
        /\ pc' = "opened" => Create \/ Truncate
        /\ Create \/ Truncate \/ UNCHANGED <<files, data>>
    BY <1>3 DEF Open, Goto, ring, memory, clock
  <2>2. FrameRanges'
    BY <2>1 DEF FrameRanges
  <2>3. counter \in 0..MaxPictures /\ counter + 1 <= published.nr /\ now \in 0..MaxTime
    BY <2>1, FileAssumption DEF CounterRanges, FrameRanges
  <2>4. CounterRanges'
    <3>1. name' \in (0..MaxTime) \X (0..MaxPictures)
      BY <2>1, <2>3
    <3>2. ~news
      BY <2>1 DEF CounterRanges
    <3> QED BY <2>1, <2>3, <3>1, <3>2 DEF CounterRanges
  <2>5. DataRanges'
    <3>1. data \in Seq(Int) /\ \A f \in DOMAIN files : files[f] \in 1..Len(data)
      BY DEF LinkInv, FolderTypes
    <3>2. CASE Create
      <4>1. /\ data' = Append(data, Empty) /\ name' \in DOMAIN files'
        BY <3>2 DEF Create
      <4>2. /\ Len(data') = Len(data) + 1 /\ data'[Len(data) + 1] = Empty /\ Len(data) \in Nat
            /\ \A i \in 1..Len(data) : data'[i] = data[i]
        BY <3>1, <4>1 DEF Empty
      <4> QED BY <4>1, <4>2 DEF DataRanges
    <3>3. CASE Truncate
      <4>1. /\ data' = [data EXCEPT ![files[name']] = Empty] /\ name' \in DOMAIN files'
        BY <3>3 DEF Truncate
      <4>2. Len(data') = Len(data) /\ \A i \in 1..Len(data) : data'[i] \in {Empty, data[i]}
        BY <3>1, <4>1
      <4> QED BY <4>1, <4>2 DEF DataRanges
    <3>4. CASE UNCHANGED <<files, data>> /\ pc' = "ended"
      BY <3>4 DEF DataRanges
    <3> QED BY <2>1, <3>2, <3>3, <3>4
  <2> QED BY <2>2, <2>4, <2>5
<1>4. CASE Write
  <2>1. /\ UNCHANGED <<published, news, frame, room, maxFrame, counter, name, files, now>>
        /\ pc = "opened" /\ pc' \in {"written", "ended"}
        /\ (\E d \in {Saved(mine), Torn} : data' = [data EXCEPT ![files[name]] = d]) \/ data' = data
    BY <1>4 DEF Write, WriteError, Goto, ring, memory, clock
  <2>2. Saved(mine) \in {Torn} \cup 1..MaxPictures
    BY <2>1, FileAssumption DEF Saved, LinkInv, CopyInv, FrameRanges
  <2>3. \A i \in 1..Len(data') : data'[i] \in {Empty, Torn} \cup 1..MaxPictures
    <3>1. CASE data' = data
      BY <3>1 DEF DataRanges
    <3>2. ASSUME NEW d \in {Saved(mine), Torn}, data' = [data EXCEPT ![files[name]] = d]
          PROVE  \A i \in 1..Len(data') : data'[i] \in {Empty, Torn} \cup 1..MaxPictures
      <4>1. data \in Seq(Int) /\ files[name] \in 1..Len(data) /\ d \in Int
        BY <2>1, <2>2 DEF LinkInv, FolderTypes, FileInv, Torn
      <4>2. Len(data') = Len(data) /\ \A i \in 1..Len(data) : data'[i] \in {d, data[i]}
        BY <3>2, <4>1
      <4> QED BY <2>2, <4>2 DEF DataRanges
    <3> QED BY <2>1, <3>1, <3>2
  <2> QED BY <2>1, <2>3 DEF FrameRanges, CounterRanges, DataRanges
<1>5. CASE Unlink \/ Link \/ Maintain \/ Again
  <2>1. /\ UNCHANGED <<published, news, frame, room, maxFrame, counter, name, files, data, now>>
        /\ \/ pc = "written" /\ pc' = "unlinked"
           \/ pc = "unlinked" /\ pc' = "linked"
           \/ pc = "linked" /\ pc' = "maintain"
           \/ pc = "maintain" /\ pc' = "wait"
    BY <1>5 DEF Unlink, Link, Maintain, Again, Goto, ring, memory, folder, clock
  <2> QED BY <2>1 DEF FrameRanges, CounterRanges, DataRanges
<1>6. CASE Delete
  <2>1. /\ UNCHANGED <<published, news, frame, room, maxFrame, counter, name, pc, data, now>>
        /\ pc = "maintain"
    BY <1>6 DEF Delete, ring, memory, clock
  <2> QED BY <2>1 DEF FrameRanges, CounterRanges, DataRanges
<1>7. ASSUME NEW t \in Takers, Take(t) PROVE RangesInv'
  <2>1. UNCHANGED <<published, news, pc, counter, name, files, data, now>>
    BY <1>7 DEF Take, ring, folder, clock
  <2>2. FrameRanges'
    BY <1>7, <2>1, CopyRanges DEF Take
  <2> QED BY <2>1, <2>2 DEF CounterRanges, DataRanges
<1>8. ASSUME NEW t \in Takers, WriteTaken(t) PROVE RangesInv'
  <2>1. UNCHANGED <<published, news, frame, room, maxFrame, pc, counter, name, files, data, now>>
    BY <1>8 DEF WriteTaken, ring, folder, clock
  <2> QED BY <2>1 DEF FrameRanges, CounterRanges, DataRanges
<1>9. CASE Tick \/ SetBack
  <2>1. UNCHANGED <<published, news, frame, room, maxFrame, pc, counter, name, files, data>>
    BY <1>9 DEF Tick, SetBack, ring, memory, folder
  <2>2. now' \in 0..MaxTime
    BY <1>9, FileAssumption DEF Tick, SetBack, CounterRanges
  <2> QED BY <2>1, <2>2 DEF FrameRanges, CounterRanges, DataRanges
<1>10. CASE Restart
  <2>1. /\ published' = [published EXCEPT !.bytes = 0] /\ news' = FALSE
        /\ frame' = Nothing /\ room' = 0 /\ maxFrame' = 0 /\ pc' = "wait"
        /\ counter' = 0 /\ name' = <<0, 0>> /\ UNCHANGED <<files, data, now>>
    BY <1>10 DEF Restart, folder
  <2>2. FrameRanges'
    BY <2>1, FileAssumption DEF FrameRanges, Nothing, Sizes
  <2>3. CounterRanges'
    <3>1. name' \in (0..MaxTime) \X (0..MaxPictures)
      BY <2>1, FileAssumption
    <3>2. counter' <= published'.nr
      BY <2>1, <2>2 DEF FrameRanges
    <3> QED BY <2>1, <3>1, <3>2 DEF CounterRanges
  <2> QED BY <2>1, <2>2, <2>3 DEF DataRanges
<1>12. CASE NoName \/ StopWorker
  <2>1. /\ UNCHANGED <<published, counter, name, files, data, now, maxFrame>>
        /\ news' = FALSE \/ (news' = news /\ pc = "copied")
        /\ frame' \in {frame, Nothing} /\ room' \in {room, 0}
        /\ pc' \in {"ended", "cancelled"}
    BY <1>12 DEF NoName, StopWorker, Free, Goto, memory, ring, folder, clock
  <2>2. FrameRanges'
    BY <2>1, FileAssumption DEF FrameRanges, Nothing, Sizes
  <2>3. news' = FALSE
    BY <2>1 DEF CounterRanges
  <2>4. CounterRanges'
    BY <2>1, <2>3 DEF CounterRanges
  <2>5. DataRanges'
    BY <2>1 DEF DataRanges
  <2> QED BY <2>2, <2>4, <2>5
<1>11. CASE UNCHANGED vars
  BY <1>11 DEF vars, ring, memory, folder, clock, FrameRanges, CounterRanges, DataRanges
<1> QED BY <1>1, <1>2, <1>3, <1>4, <1>5, <1>6, <1>7, <1>8, <1>9, <1>10, <1>11, <1>12 DEF Next

\* Whenever the worker waits again, the folder has no more files of the ring than
\* -size and -exceed allow, whatever restarts left there and however the clock was
\* set, unless the latest maintenance failed; and the variables have their types (output_file.c:128-183 and 201-310).
THEOREM RingIsBounded == Spec => []RingBounded
<1>1. LinkInv /\ RangesInv /\ RingInv => TypeOK
  <2> SUFFICES ASSUME LinkInv, RangesInv, RingInv PROVE TypeOK
    OBVIOUS
  <2>1. counter \in 0..MaxPictures
    BY FileAssumption DEF RangesInv, FrameRanges, CounterRanges
  <2>2. /\ doomed \subseteq DOMAIN files
        /\ \A f \in DOMAIN files : files[f] \in 1..Len(data)
        /\ link \in 0..Len(data)
    BY DEF LinkInv, FolderTypes, RingInv
  <2> QED BY <2>1, <2>2 DEF RangesInv, FrameRanges, CounterRanges, DataRanges, Sizes, TypeOK
<1>2. RangesInv /\ RingInv => (pc = "wait" /\ counter > 0 /\ Size >= 0 /\ ~missed =>
         Cardinality(DOMAIN files) <= Size + Spare)
  <2> SUFFICES ASSUME RangesInv, RingInv, pc = "wait", counter > 0, Size >= 0, ~missed
               PROVE  Cardinality(DOMAIN files) <= Size + Spare
    OBVIOUS
  <2>1. Size \in Nat /\ counter \in Nat /\ counter >= 1
    BY FileAssumption DEF RangesInv, CounterRanges
  <2>2. Cardinality(DOMAIN files) <= Size + Since(counter) /\ Since(counter) \in 0..Spare
    BY <2>1, SinceIs DEF RingInv
  <2>3. Cardinality(DOMAIN files) \in Nat /\ Spare \in Nat
    BY SpareIs, FS_CardinalityType DEF RingInv
  <2> QED BY <2>1, <2>2, <2>3
<1>3. LinkInv /\ RangesInv /\ RingInv => RingBounded
  BY <1>1, <1>2 DEF RingBounded, Spare
<1> QED BY <1>3, LinkInit, LinkStep, RingInit, RingStep, RangesInit, RangesStep, PTL DEF Spec

-----------------------------------------------------------------------------
(* input_http: what the plugin has read of a section of the stream.        *)

\* What the present section is about to deliver, up to its end.
Data == sent \o PartEnd

\* The rest of a header and the last four bytes seen.
Unread(rest, seen) == wire = rest \o Data /\ last4 = seen

\* In the first line of the response or in the header of a part.
BeforePicture ==
    /\ part = "header" /\ due = 1 /\ matched = 0 /\ buffer = <<>>
    /\ \/ Unread(<<79, 75, 13, 10>>, <<0, 0, 0, 0>>)
       \/ Unread(<<75, 13, 10>>, <<0, 0, 0, 79>>)
       \/ Unread(<<13, 10>>, <<0, 0, 79, 75>>)
       \/ Unread(<<10>>, <<0, 79, 75, 13>>)
       \/ Unread(<<116, 13, 10, 13, 10>>, <<0, 0, 13, 10>>)
       \/ Unread(<<13, 10, 13, 10>>, <<0, 13, 10, 116>>)
       \/ Unread(<<10, 13, 10>>, <<13, 10, 116, 13>>)
       \/ Unread(<<13, 10>>, <<10, 116, 13, 10>>)
       \/ Unread(<<10>>, <<116, 13, 10, 13>>)

\* The last bytes of the buffer are as much of a boundary as was matched; and none
\* of it is missed where the picture ends.
MatchedOK(n) ==
    /\ matched >= 1 => n >= 1 /\ buffer[n] = 45
    /\ matched = 2  => n >= 2 /\ buffer[n - 1] = 45
    /\ n \in (Len(sent) + 1)..(Len(sent) + 2) => matched = 0
    /\ n = Len(sent) + 3 => matched = 1
    /\ n = Len(sent) + 4 => matched = 2

InPicture ==
    /\ part = "content" /\ due = 1
    /\ Len(buffer) <= Len(sent) + 4
    /\ buffer \o wire = Data
    /\ MatchedOK(Len(buffer))

\* The end of the part's last line is still to come, or was seen.
Delivered ==
    /\ part = "header" /\ due = 0 /\ matched = 0 /\ buffer = <<>>
    /\ image = [length |-> Len(sent), data |-> sent]
    /\ \/ wire = <<13, 10>> /\ last4 = <<0, 0, 0, 0>>
       \/ wire = <<10>> /\ last4 = <<0, 0, 0, 13>>
       \/ wire = <<>> /\ last4 = <<0, 0, 13, 10>>

\* A picture that does not fit: nothing is delivered any more.
Stuck == part = "content" /\ due = 1 /\ tooBig /\ Len(buffer) = BufferSize - 1

StreamOK ==
    /\ sent \in Frames \cup {HeaderRest} /\ Clean(sent)
    /\ tooBig \/ Needs(Len(sent)) <= BufferSize - 1
    /\ BeforePicture \/ InPicture \/ Stuck \/ Delivered

ProxyInv ==
    /\ ProxyTypeOK
    /\ ~unclean => image.length >= 0
    /\ worker = "stream" /\ ~unclean => StreamOK

-----------------------------------------------------------------------------
(* The bytes.                                                              *)

\* The bytes of two sequences, one behind the other.
LEMMA Joined ==
    ASSUME NEW s \in Seq(Byte), NEW t \in Seq(Byte)
    PROVE  /\ s \o t \in Seq(Byte) /\ Len(s \o t) = Len(s) + Len(t)
           /\ \A i \in 1..Len(s) : (s \o t)[i] = s[i]
           /\ \A i \in 1..Len(t) : (s \o t)[Len(s) + i] = t[i]
<1>1. Len(s) \in Nat /\ Len(t) \in Nat
  BY LenProperties
<1>2. /\ s \o t \in Seq(Byte) /\ Len(s \o t) = Len(s) + Len(t)
      /\ \A i \in 1..(Len(s) + Len(t)) : (s \o t)[i] = IF i <= Len(s) THEN s[i] ELSE t[i - Len(s)]
  BY ConcatProperties
<1> QED BY <1>1, <1>2

LEMMA Grouped ==
    ASSUME NEW r \in Seq(Byte), NEW s \in Seq(Byte), NEW t \in Seq(Byte)
    PROVE  (r \o s) \o t = r \o (s \o t)
  BY ConcatAssociative

\* The bytes s begin with b and go on with rest.
First(b, rest, s) ==
    /\ b \in Byte /\ rest \in Seq(Byte) /\ s \in Seq(Byte)
    /\ Len(s) = Len(rest) + 1 /\ s[1] = b /\ \A i \in 1..Len(rest) : s[i + 1] = rest[i]

LEMMA TakeFirst ==
    ASSUME NEW b, NEW rest, NEW s, First(b, rest, s), NEW t \in Seq(Byte)
    PROVE  s \o t # <<>> /\ Head(s \o t) = b /\ Tail(s \o t) = rest \o t
<1> DEFINE w == s \o t
           v == rest \o t
<1>1. /\ b \in Byte /\ rest \in Seq(Byte) /\ s \in Seq(Byte)
      /\ Len(s) = Len(rest) + 1 /\ s[1] = b /\ \A i \in 1..Len(rest) : s[i + 1] = rest[i]
  BY DEF First
<1>2. Len(s) \in Nat /\ Len(t) \in Nat /\ Len(rest) \in Nat
  BY <1>1, LenProperties
<1>3. /\ w \in Seq(Byte) /\ Len(w) = Len(s) + Len(t)
      /\ \A i \in 1..Len(s) : w[i] = s[i]
      /\ \A i \in 1..Len(t) : w[Len(s) + i] = t[i]
  BY <1>1, Joined
<1>4. /\ v \in Seq(Byte) /\ Len(v) = Len(rest) + Len(t)
      /\ \A i \in 1..Len(rest) : v[i] = rest[i]
      /\ \A i \in 1..Len(t) : v[Len(rest) + i] = t[i]
  BY <1>1, Joined
<1> HIDE DEF w, v
<1>5. w # <<>>
  BY <1>1, <1>2, <1>3, EmptySeq
<1>6. Head(w) = w[1] /\ w[1] = b
  BY <1>1, <1>2, <1>3, <1>5
<1>7. /\ Tail(w) \in Seq(Byte) /\ Len(Tail(w)) = Len(w) - 1
      /\ \A i \in 1..Len(Tail(w)) : Tail(w)[i] = w[i + 1]
  BY <1>3, <1>5, HeadTailProperties
<1>8. Len(Tail(w)) = Len(v)
  BY <1>1, <1>2, <1>3, <1>4, <1>7
<1>9. ASSUME NEW i \in 1..Len(Tail(w)) PROVE Tail(w)[i] = v[i]
  <2>1. i \in Nat /\ i >= 1 /\ i <= Len(rest) + Len(t) /\ Tail(w)[i] = w[i + 1]
    BY <1>1, <1>2, <1>4, <1>7, <1>8
  <2>2. CASE i <= Len(rest)
    <3>1. i \in 1..Len(rest) /\ i + 1 \in 1..Len(s)
      BY <1>1, <1>2, <2>1, <2>2
    <3>2. w[i + 1] = s[i + 1]
      BY <1>3, <3>1
    <3>3. s[i + 1] = rest[i] /\ v[i] = rest[i]
      BY <1>1, <1>4, <3>1
    <3> QED BY ONLY <2>1, <3>2, <3>3, Zenon
  <2>3. CASE i > Len(rest)
    <3> DEFINE k == i - Len(rest)
    <3>1. k \in 1..Len(t) /\ Len(rest) + k = i /\ Len(s) + k = i + 1
      BY <1>1, <1>2, <2>1, <2>3
    <3> HIDE DEF k
    <3>2. \A j \in 1..Len(t) : w[Len(s) + j] = v[Len(rest) + j]
      BY <1>3, <1>4
    <3>3. k \in 1..Len(t)
      BY <3>1
    <3>4. w[Len(s) + k] = v[Len(rest) + k]
      BY ONLY <3>2, <3>3, Zenon
    <3> QED BY ONLY <2>1, <3>1, <3>4
  <2> QED BY <1>2, <2>1, <2>2, <2>3
<1>10. Tail(w) = v
  BY <1>4, <1>7, <1>8, <1>9, SeqEqual
<1> QED BY <1>5, <1>6, <1>10 DEF w, v

LEMMA Texts ==
    /\ Boundary \in Seq(Byte) /\ Len(Boundary) = 3
    /\ Boundary[1] = 45 /\ Boundary[2] = 45 /\ Boundary[3] = 98
    /\ HeaderRest \in Seq(Byte) /\ Len(HeaderRest) = 3
    /\ PartHeader \in Seq(Byte) /\ PartHeader = <<116, 13, 10, 13, 10>>
  BY DEF Boundary, HeaderRest, PartHeader, Byte, Text, Cr, Lf

LEMMA PartEndIs ==
    /\ PartEnd \in Seq(Byte) /\ Len(PartEnd) = 7
    /\ PartEnd[1] = 13 /\ PartEnd[2] = 10 /\ PartEnd[3] = 45 /\ PartEnd[4] = 45
    /\ PartEnd[5] = 98 /\ PartEnd[6] = 13 /\ PartEnd[7] = 10
<1> DEFINE crlf == <<Cr, Lf>>
           half == crlf \o Boundary
           all  == half \o crlf
<1>1. crlf \in Seq(Byte) /\ Len(crlf) = 2 /\ crlf[1] = 13 /\ crlf[2] = 10
  BY DEF Byte, Cr, Lf
<1>2. Boundary \in Seq(Byte)
  BY Texts
<1> HIDE DEF crlf
<1>3. /\ half \in Seq(Byte) /\ Len(half) = Len(crlf) + Len(Boundary)
      /\ \A i \in 1..Len(crlf) : half[i] = crlf[i]
      /\ \A i \in 1..Len(Boundary) : half[Len(crlf) + i] = Boundary[i]
  BY <1>1, <1>2, Joined
<1> HIDE DEF half
<1>4. Len(half) = 5 /\ half[1] = 13 /\ half[2] = 10 /\ half[3] = 45 /\ half[4] = 45 /\ half[5] = 98
  <2>1. 1 \in 1..Len(Boundary) /\ 2 \in 1..Len(Boundary) /\ 3 \in 1..Len(Boundary)
    BY Texts
  <2>2. 1 \in 1..Len(crlf) /\ 2 \in 1..Len(crlf)
    BY <1>1
  <2>3. half[2 + 1] = Boundary[1] /\ half[2 + 2] = Boundary[2] /\ half[2 + 3] = Boundary[3]
    BY <1>1, <1>3, <2>1
  <2> QED BY <1>1, <1>3, Texts, <2>2, <2>3
<1>5. /\ all \in Seq(Byte) /\ Len(all) = Len(half) + Len(crlf)
      /\ \A i \in 1..Len(half) : all[i] = half[i]
      /\ \A i \in 1..Len(crlf) : all[Len(half) + i] = crlf[i]
  BY <1>1, <1>3, Joined
<1>6. PartEnd = all
  BY DEF PartEnd, half, crlf
<1> HIDE DEF all
<1>7. all[5 + 1] = crlf[1] /\ all[5 + 2] = crlf[2]
  BY <1>1, <1>4, <1>5
<1>8. all[1] = half[1] /\ all[2] = half[2] /\ all[3] = half[3] /\ all[4] = half[4] /\ all[5] = half[5]
  BY <1>4, <1>5
<1> QED BY <1>1, <1>4, <1>5, <1>6, <1>7, <1>8

\* The response header is its first line, the rest that is taken for a picture, and
\* the end of a part.
LEMMA ResponseIs == ResponseHeader = <<79, 75, 13, 10>> \o (HeaderRest \o PartEnd)
  BY DEF ResponseHeader, PartEnd, HeaderRest, Boundary, Cr, Lf, Text

-----------------------------------------------------------------------------
(* A section of the stream.                                                *)

LEMMA DataIs ==
    ASSUME sent \in Seq(Byte)
    PROVE  /\ Data \in Seq(Byte) /\ Len(Data) = Len(sent) + 7
           /\ \A i \in 1..Len(sent) : Data[i] = sent[i]
           /\ Data[Len(sent) + 1] = 13 /\ Data[Len(sent) + 2] = 10 /\ Data[Len(sent) + 3] = 45
           /\ Data[Len(sent) + 4] = 45 /\ Data[Len(sent) + 5] = 98 /\ Data[Len(sent) + 6] = 13
           /\ Data[Len(sent) + 7] = 10
<1>1. PartEnd \in Seq(Byte) /\ Len(PartEnd) = 7
  BY PartEndIs
<1>2. /\ sent \o PartEnd \in Seq(Byte) /\ Len(sent \o PartEnd) = Len(sent) + Len(PartEnd)
      /\ \A i \in 1..Len(sent) : (sent \o PartEnd)[i] = sent[i]
      /\ \A i \in 1..Len(PartEnd) : (sent \o PartEnd)[Len(sent) + i] = PartEnd[i]
  BY <1>1, Joined
<1>3. /\ Data \in Seq(Byte) /\ Len(Data) = Len(sent) + 7
      /\ \A i \in 1..Len(sent) : Data[i] = sent[i]
      /\ \A i \in 1..7 : Data[Len(sent) + i] = PartEnd[i]
  BY <1>1, <1>2 DEF Data
<1> QED BY <1>3, PartEndIs

\* The boundary is found at the end of the picture and nowhere else.
LEMMA BoundaryPlace ==
    ASSUME sent \in Seq(Byte), Clean(sent), NEW n \in Nat, 2 <= n, n <= Len(sent) + 4,
           Data[n - 1] = 45, Data[n] = 45, Data[n + 1] = 98
    PROVE  n = Len(sent) + 4
<1> DEFINE L == Len(sent)
<1>1. L \in Nat
  BY LenProperties
<1>2. CASE n + 1 <= L
  <2> DEFINE i == n - 1
             three == SubSeq(sent, i, i + 2)
  <2>1. i \in 1..(Len(sent) - 2) /\ i + 1 = n /\ i + 2 = n + 1
    BY <1>1, <1>2
  <2>2. sent[i] = 45 /\ sent[i + 1] = 45 /\ sent[i + 2] = 98
    <3>1. i \in 1..Len(sent) /\ i + 1 \in 1..Len(sent) /\ i + 2 \in 1..Len(sent)
      BY <1>1, <2>1
    <3>2. Data[i] = sent[i] /\ Data[i + 1] = sent[i + 1] /\ Data[i + 2] = sent[i + 2]
      BY <3>1, DataIs
    <3> QED BY <2>1, <3>2
  <2>3. /\ three \in Seq(Byte) /\ Len(three) = 3
        /\ three[1] = sent[i] /\ three[2] = sent[i + 1] /\ three[3] = sent[i + 2]
    BY <1>1, <2>1, SubSeqProperties
  <2>4. three = Boundary
    <3>1. Boundary \in Seq(Byte) /\ Len(Boundary) = 3 /\ Len(three) = Len(Boundary)
      BY <2>3, Texts
    <3>2. three[1] = Boundary[1] /\ three[2] = Boundary[2] /\ three[3] = Boundary[3]
      BY <2>2, <2>3, Texts
    <3>3. \A k \in 1..3 : three[k] = Boundary[k]
      BY ONLY <3>2
    <3> QED BY <2>3, <3>1, <3>3, SeqEqual
  <2> QED BY <2>1, <2>4 DEF Clean
<1>3. CASE ~(n + 1 <= L)
  <2>1. n + 1 = L + 1 \/ n + 1 = L + 2 \/ n + 1 = L + 3 \/ n + 1 = L + 4 \/ n = L + 4
    BY <1>1, <1>3
  <2>2. Data[L + 1] = 13 /\ Data[L + 2] = 10 /\ Data[L + 3] = 45 /\ Data[L + 4] = 45
    BY DataIs
  <2>3. n + 1 # L + 1 /\ n + 1 # L + 2 /\ n + 1 # L + 3 /\ n + 1 # L + 4
    BY <2>2
  <2> HIDE DEF L
  <2> QED BY <2>1, <2>3 DEF L
<1> QED BY <1>2, <1>3

\* Moving one byte from what is to come behind what is there.
LEMMA MoveOne ==
    ASSUME NEW s \in Seq(Byte), NEW t \in Seq(Byte), t # <<>>
    PROVE  /\ Head(t) \in Byte /\ Tail(t) \in Seq(Byte) /\ Len(Tail(t)) = Len(t) - 1
           /\ Len(t) >= 1 /\ Head(t) = t[1] /\ \A i \in 1..Len(Tail(t)) : Tail(t)[i] = t[i + 1]
           /\ Append(s, Head(t)) \in Seq(Byte) /\ Len(Append(s, Head(t))) = Len(s) + 1
           /\ Append(s, Head(t))[Len(s) + 1] = Head(t)
           /\ \A i \in 1..Len(s) : Append(s, Head(t))[i] = s[i]
           /\ Append(s, Head(t)) \o Tail(t) = s \o t
<1> DEFINE more == Append(s, Head(t))
           rest == Tail(t)
           new  == more \o rest
           all  == s \o t
<1>1. /\ Head(t) \in Byte /\ rest \in Seq(Byte) /\ Len(rest) = Len(t) - 1
      /\ Head(t) = t[1] /\ \A i \in 1..Len(rest) : rest[i] = t[i + 1]
  BY HeadTailProperties
<1>2. Len(s) \in Nat /\ Len(t) \in Nat /\ Len(rest) \in Nat
  BY <1>1, LenProperties
<1>3. /\ more \in Seq(Byte) /\ Len(more) = Len(s) + 1 /\ more[Len(s) + 1] = Head(t)
      /\ \A i \in 1..Len(s) : more[i] = s[i]
  BY <1>1, AppendProperties
<1>9. Len(t) >= 1
  BY <1>1, <1>2
<1> HIDE DEF more, rest
<1>4. /\ all \in Seq(Byte) /\ Len(all) = Len(s) + Len(t)
      /\ \A i \in 1..Len(s) : all[i] = s[i]
      /\ \A i \in 1..Len(t) : all[Len(s) + i] = t[i]
  BY Joined
<1>5. /\ new \in Seq(Byte) /\ Len(new) = Len(more) + Len(rest)
      /\ \A i \in 1..Len(more) : new[i] = more[i]
      /\ \A i \in 1..Len(rest) : new[Len(more) + i] = rest[i]
  BY <1>1, <1>3, Joined
<1> HIDE DEF new, all
<1>6. Len(new) = Len(all)
  BY <1>1, <1>2, <1>3, <1>4, <1>5
<1>7. ASSUME NEW i \in 1..Len(new) PROVE new[i] = all[i]
  <2>0. i \in Nat /\ i >= 1 /\ i <= Len(s) + Len(t)
    BY <1>2, <1>4, <1>6
  <2>1. CASE i <= Len(s)
    <3>1. new[i] = more[i] /\ more[i] = s[i] /\ all[i] = s[i]
      BY <1>2, <1>3, <1>4, <1>5, <2>0, <2>1
    <3> QED BY <3>1
  <2>2. CASE i = Len(s) + 1
    <3>1. new[i] = more[i] /\ all[Len(s) + 1] = t[1]
      BY <1>2, <1>3, <1>4, <1>5, <1>9, <2>0, <2>2
    <3> QED BY <1>1, <1>3, <2>2, <3>1
  <2>3. CASE i > Len(s) + 1
    <3> DEFINE k == i - (Len(s) + 1)
    <3>1. k \in 1..Len(rest) /\ i = Len(more) + k /\ k + 1 \in 1..Len(t) /\ Len(s) + (k + 1) = i
      BY <1>1, <1>2, <1>3, <2>0, <2>3
    <3>2. new[Len(more) + k] = rest[k] /\ rest[k] = t[k + 1]
      BY <1>1, <1>5, <3>1
    <3>3. all[Len(s) + (k + 1)] = t[k + 1]
      BY <1>4, <3>1
    <3> QED BY <3>1, <3>2, <3>3
  <2> QED BY <1>2, <2>0, <2>1, <2>2, <2>3
<1>8. new = all
  BY <1>4, <1>5, <1>6, <1>7, SeqEqual
<1> QED BY <1>1, <1>3, <1>8, <1>9 DEF more, rest, new, all

-----------------------------------------------------------------------------
(* One byte more.                                                          *)

\* One byte of a header: s is b and then rest.
LEMMA OneHeaderByte ==
    ASSUME NEW b, NEW rest, NEW s, NEW seen, First(b, rest, s),
           sent \in Seq(Byte), part = "header", Unread(s, seen), Receive
    PROVE  /\ wire' = rest \o Data /\ last4' = Push(seen, b)
           /\ part' = IF IsCrlfCrlf(Push(seen, b)) THEN "content" ELSE "header"
           /\ UNCHANGED <<matched, buffer, image, due, sent, tooBig, worker, stop>>
<1>1. Data \in Seq(Byte)
  BY DataIs
<1>2. s \o Data # <<>> /\ Head(s \o Data) = b /\ Tail(s \o Data) = rest \o Data
  BY <1>1, TakeFirst, SMTT(30)
<1>3. wire = s \o Data /\ last4 = seen
  BY DEF Unread
<1>4. Head(wire) = b /\ wire' = rest \o Data
  BY <1>2, <1>3 DEF Receive
<1>5. HeaderByte(b)
  BY <1>4 DEF Receive, ContentByte
<1> QED BY <1>3, <1>4, <1>5 DEF HeaderByte, Receive

LEMMA PushTyped ==
    ASSUME NEW w \in [1..4 -> Byte], NEW b \in Byte
    PROVE  Push(w, b) \in [1..4 -> Byte]
  BY DEF Push, Byte

\* What the test for the end of a header says of the bytes seen.
LEMMA HeaderEnds ==
    /\ Push(<<0, 0, 0, 0>>, 79) = <<0, 0, 0, 79>> /\ ~IsCrlfCrlf(<<0, 0, 0, 79>>)
    /\ Push(<<0, 0, 0, 79>>, 75) = <<0, 0, 79, 75>> /\ ~IsCrlfCrlf(<<0, 0, 79, 75>>)
    /\ Push(<<0, 0, 79, 75>>, 13) = <<0, 79, 75, 13>> /\ ~IsCrlfCrlf(<<0, 79, 75, 13>>)
    /\ IsCrlfCrlf(Push(<<0, 79, 75, 13>>, 10))
    /\ Push(<<0, 0, 13, 10>>, 116) = <<0, 13, 10, 116>> /\ ~IsCrlfCrlf(<<0, 13, 10, 116>>)
    /\ Push(<<0, 13, 10, 116>>, 13) = <<13, 10, 116, 13>> /\ ~IsCrlfCrlf(<<13, 10, 116, 13>>)
    /\ Push(<<13, 10, 116, 13>>, 10) = <<10, 116, 13, 10>> /\ ~IsCrlfCrlf(<<10, 116, 13, 10>>)
    /\ Push(<<10, 116, 13, 10>>, 13) = <<116, 13, 10, 13>> /\ ~IsCrlfCrlf(<<116, 13, 10, 13>>)
    /\ IsCrlfCrlf(Push(<<116, 13, 10, 13>>, 10))
    /\ Push(<<0, 0, 0, 0>>, 13) = <<0, 0, 0, 13>> /\ ~IsCrlfCrlf(<<0, 0, 0, 13>>)
    /\ Push(<<0, 0, 0, 13>>, 10) = <<0, 0, 13, 10>> /\ ~IsCrlfCrlf(<<0, 0, 13, 10>>)
  BY DEF Push, IsCrlfCrlf, CoversCr, CoversLf, Bit

LEMMA HeaderGoesOn ==
    ASSUME NEW b, NEW rest, NEW s, NEW seen, NEW next, First(b, rest, s),
           sent \in Seq(Byte), part = "header", Unread(s, seen), Receive,
           Push(seen, b) = next, ~IsCrlfCrlf(next)
    PROVE  Unread(rest, next)' /\ part' = "header" /\ UNCHANGED <<due, matched, buffer>>
<1>1. /\ wire' = rest \o Data /\ last4' = Push(seen, b)
      /\ part' = IF IsCrlfCrlf(Push(seen, b)) THEN "content" ELSE "header"
      /\ UNCHANGED <<matched, buffer, image, due, sent, tooBig, worker, stop>>
  BY OneHeaderByte
<1>2. Data' = Data
  BY <1>1 DEF Data
<1> QED BY <1>1, <1>2 DEF Unread

LEMMA HeaderIsOver ==
    ASSUME NEW b, NEW seen, First(b, <<>>, <<b>>), sent \in Seq(Byte), part = "header", due = 1, matched = 0,
           buffer = <<>>, Unread(<<b>>, seen), Receive, IsCrlfCrlf(Push(seen, b))
    PROVE  InPicture'
<1>1. /\ wire' = <<>> \o Data /\ last4' = Push(seen, b)
      /\ part' = IF IsCrlfCrlf(Push(seen, b)) THEN "content" ELSE "header"
      /\ UNCHANGED <<matched, buffer, image, due, sent, tooBig, worker, stop>>
  BY OneHeaderByte
<1>2. Data \in Seq(Byte) /\ Data' = Data /\ Len(sent) \in Nat
  BY <1>1, DataIs, LenProperties DEF Data
<1>3. buffer' \o wire' = Data'
  <2>1. <<>> \o Data = Data
    BY <1>2, ConcatEmptySeq
  <2> QED BY <1>1, <1>2, <2>1
<1>4. Len(buffer') = 0 /\ MatchedOK(0)'
  BY <1>1, <1>2 DEF MatchedOK
<1> QED BY <1>1, <1>2, <1>3, <1>4 DEF InPicture

\* The header texts, one byte after the other.
LEMMA HeaderTexts ==
    /\ First(79, <<75, 13, 10>>, <<79, 75, 13, 10>>)
    /\ First(75, <<13, 10>>, <<75, 13, 10>>)
    /\ First(13, <<10>>, <<13, 10>>)
    /\ First(10, <<>>, <<10>>)
    /\ First(116, <<13, 10, 13, 10>>, <<116, 13, 10, 13, 10>>)
    /\ First(13, <<10, 13, 10>>, <<13, 10, 13, 10>>)
    /\ First(10, <<13, 10>>, <<10, 13, 10>>)
<1>1. First(79, <<75, 13, 10>>, <<79, 75, 13, 10>>)
  BY DEF First, Byte
<1>2. First(75, <<13, 10>>, <<75, 13, 10>>)
  BY DEF First, Byte
<1>3. First(13, <<10>>, <<13, 10>>)
  BY DEF First, Byte
<1>4. First(10, <<>>, <<10>>)
  BY DEF First, Byte
<1>5. First(116, <<13, 10, 13, 10>>, <<116, 13, 10, 13, 10>>)
  BY DEF First, Byte
<1>6. First(13, <<10, 13, 10>>, <<13, 10, 13, 10>>)
  BY DEF First, Byte
<1>7. First(10, <<13, 10>>, <<10, 13, 10>>)
  BY DEF First, Byte
<1> QED BY <1>1, <1>2, <1>3, <1>4, <1>5, <1>6, <1>7

\* A byte of a header leads to the next, or to the empty buffer.
LEMMA HeaderStep ==
    ASSUME sent \in Seq(Byte), BeforePicture, Receive
    PROVE  BeforePicture' \/ InPicture'
<1> USE DEF BeforePicture
<1>0. part = "header" /\ due = 1 /\ matched = 0 /\ buffer = <<>>
  OBVIOUS
<1>1. CASE Unread(<<79, 75, 13, 10>>, <<0, 0, 0, 0>>)
  <2>0. First(79, <<75, 13, 10>>, <<79, 75, 13, 10>>)
    BY HeaderTexts
  <2>1. Push(<<0, 0, 0, 0>>, 79) = <<0, 0, 0, 79>> /\ ~IsCrlfCrlf(<<0, 0, 0, 79>>)
    BY HeaderEnds
  <2>2. Unread(<<75, 13, 10>>, <<0, 0, 0, 79>>)' /\ part' = "header" /\ UNCHANGED <<due, matched, buffer>>
    BY ONLY <1>0, <1>1, <2>0, <2>1, HeaderGoesOn, sent \in Seq(Byte), Receive
  <2> QED BY <1>0, <2>2, Zenon
<1>2. CASE Unread(<<75, 13, 10>>, <<0, 0, 0, 79>>)
  <2>0. First(75, <<13, 10>>, <<75, 13, 10>>)
    BY HeaderTexts
  <2>1. Push(<<0, 0, 0, 79>>, 75) = <<0, 0, 79, 75>> /\ ~IsCrlfCrlf(<<0, 0, 79, 75>>)
    BY HeaderEnds
  <2>2. Unread(<<13, 10>>, <<0, 0, 79, 75>>)' /\ part' = "header" /\ UNCHANGED <<due, matched, buffer>>
    BY ONLY <1>0, <1>2, <2>0, <2>1, HeaderGoesOn, sent \in Seq(Byte), Receive
  <2> QED BY <1>0, <2>2, Zenon
<1>3. CASE Unread(<<13, 10>>, <<0, 0, 79, 75>>)
  <2>0. First(13, <<10>>, <<13, 10>>)
    BY HeaderTexts
  <2>1. Push(<<0, 0, 79, 75>>, 13) = <<0, 79, 75, 13>> /\ ~IsCrlfCrlf(<<0, 79, 75, 13>>)
    BY HeaderEnds
  <2>2. Unread(<<10>>, <<0, 79, 75, 13>>)' /\ part' = "header" /\ UNCHANGED <<due, matched, buffer>>
    BY ONLY <1>0, <1>3, <2>0, <2>1, HeaderGoesOn, sent \in Seq(Byte), Receive
  <2> QED BY <1>0, <2>2, Zenon
<1>4. CASE Unread(<<10>>, <<0, 79, 75, 13>>)
  <2>0. First(10, <<>>, <<10>>)
    BY HeaderTexts
  <2>1. IsCrlfCrlf(Push(<<0, 79, 75, 13>>, 10))
    BY HeaderEnds
  <2> QED BY ONLY <1>0, <1>4, <2>0, <2>1, HeaderIsOver, sent \in Seq(Byte), Receive
<1>5. CASE Unread(<<116, 13, 10, 13, 10>>, <<0, 0, 13, 10>>)
  <2>0. First(116, <<13, 10, 13, 10>>, <<116, 13, 10, 13, 10>>)
    BY HeaderTexts
  <2>1. Push(<<0, 0, 13, 10>>, 116) = <<0, 13, 10, 116>> /\ ~IsCrlfCrlf(<<0, 13, 10, 116>>)
    BY HeaderEnds
  <2>2. Unread(<<13, 10, 13, 10>>, <<0, 13, 10, 116>>)' /\ part' = "header" /\ UNCHANGED <<due, matched, buffer>>
    BY ONLY <1>0, <1>5, <2>0, <2>1, HeaderGoesOn, sent \in Seq(Byte), Receive
  <2> QED BY <1>0, <2>2, Zenon
<1>6. CASE Unread(<<13, 10, 13, 10>>, <<0, 13, 10, 116>>)
  <2>0. First(13, <<10, 13, 10>>, <<13, 10, 13, 10>>)
    BY HeaderTexts
  <2>1. Push(<<0, 13, 10, 116>>, 13) = <<13, 10, 116, 13>> /\ ~IsCrlfCrlf(<<13, 10, 116, 13>>)
    BY HeaderEnds
  <2>2. Unread(<<10, 13, 10>>, <<13, 10, 116, 13>>)' /\ part' = "header" /\ UNCHANGED <<due, matched, buffer>>
    BY ONLY <1>0, <1>6, <2>0, <2>1, HeaderGoesOn, sent \in Seq(Byte), Receive
  <2> QED BY <1>0, <2>2, Zenon
<1>7. CASE Unread(<<10, 13, 10>>, <<13, 10, 116, 13>>)
  <2>0. First(10, <<13, 10>>, <<10, 13, 10>>)
    BY HeaderTexts
  <2>1. Push(<<13, 10, 116, 13>>, 10) = <<10, 116, 13, 10>> /\ ~IsCrlfCrlf(<<10, 116, 13, 10>>)
    BY HeaderEnds
  <2>2. Unread(<<13, 10>>, <<10, 116, 13, 10>>)' /\ part' = "header" /\ UNCHANGED <<due, matched, buffer>>
    BY ONLY <1>0, <1>7, <2>0, <2>1, HeaderGoesOn, sent \in Seq(Byte), Receive
  <2> QED BY <1>0, <2>2, Zenon
<1>8. CASE Unread(<<13, 10>>, <<10, 116, 13, 10>>)
  <2>0. First(13, <<10>>, <<13, 10>>)
    BY HeaderTexts
  <2>1. Push(<<10, 116, 13, 10>>, 13) = <<116, 13, 10, 13>> /\ ~IsCrlfCrlf(<<116, 13, 10, 13>>)
    BY HeaderEnds
  <2>2. Unread(<<10>>, <<116, 13, 10, 13>>)' /\ part' = "header" /\ UNCHANGED <<due, matched, buffer>>
    BY ONLY <1>0, <1>8, <2>0, <2>1, HeaderGoesOn, sent \in Seq(Byte), Receive
  <2> QED BY <1>0, <2>2, Zenon
<1>9. CASE Unread(<<10>>, <<116, 13, 10, 13>>)
  <2>0. First(10, <<>>, <<10>>)
    BY HeaderTexts
  <2>1. IsCrlfCrlf(Push(<<116, 13, 10, 13>>, 10))
    BY HeaderEnds
  <2> QED BY ONLY <1>0, <1>9, <2>0, <2>1, HeaderIsOver, sent \in Seq(Byte), Receive
<1> QED BY <1>1, <1>2, <1>3, <1>4, <1>5, <1>6, <1>7, <1>8, <1>9

\* What is compared: the third byte of the boundary is found only after two.
LEMMA Compared ==
    ASSUME NEW n \in 0..2, NEW b \in Byte
    PROVE  /\ Compare(n, b) = IF b = IF n = 2 THEN 98 ELSE 45 THEN n + 1 ELSE 0
           /\ Compare(n, b) = Len(Boundary) <=> n = 2 /\ b = 98
<1>1. Boundary[n + 1] = IF n = 2 THEN 98 ELSE 45
  BY Texts
<1> QED BY <1>1, Texts DEF Compare

\* A byte of content is stored, ends the picture, or finds the buffer full.
LEMMA ContentStep ==
    ASSUME ProxyTypeOK, StreamOK, sent \in Seq(Byte), Clean(sent), InPicture, Receive
    PROVE  InPicture' \/ Stuck' \/ Delivered'
<1> DEFINE L == Len(sent)
           n == Len(buffer)
           b == Head(wire)
           more == Append(buffer, b)
<1>1. /\ part = "content" /\ due = 1 /\ n <= L + 4 /\ buffer \o wire = Data /\ MatchedOK(n)
      /\ buffer \in Seq(Byte) /\ wire \in Seq(Byte) /\ wire # <<>> /\ n < BufferSize
      /\ matched \in 0..2 /\ image.length \in Int
  BY Texts DEF InPicture, ProxyTypeOK, Receive
<1>2. L \in Nat /\ n \in Nat /\ BufferSize \in Nat
  BY <1>1, LenProperties, ProxyAssumption
<1>3. /\ b \in Byte /\ Tail(wire) \in Seq(Byte) /\ Len(Tail(wire)) = Len(wire) - 1
      /\ b = wire[1] /\ \A i \in 1..Len(Tail(wire)) : Tail(wire)[i] = wire[i + 1]
      /\ more \in Seq(Byte) /\ Len(more) = n + 1 /\ more[n + 1] = b
      /\ \A i \in 1..n : more[i] = buffer[i]
      /\ more \o Tail(wire) = buffer \o wire
  BY <1>1, MoveOne
<1>4. /\ Data \in Seq(Byte) /\ Len(Data) = L + 7 /\ \A i \in 1..L : Data[i] = sent[i]
      /\ Data[L + 1] = 13 /\ Data[L + 2] = 10 /\ Data[L + 3] = 45 /\ Data[L + 4] = 45
      /\ Data[L + 5] = 98 /\ Data[L + 6] = 13 /\ Data[L + 7] = 10
  BY DataIs
<1>5. /\ L + 7 = n + Len(wire) /\ \A i \in 1..n : Data[i] = buffer[i]
      /\ \A i \in 1..Len(wire) : Data[n + i] = wire[i]
  BY <1>1, <1>4, Joined
<1>6. Len(wire) \in Nat /\ Len(wire) >= 3 /\ Data[n + 1] = b
  BY <1>1, <1>2, <1>3, <1>5
<1>7. /\ UNCHANGED <<stop, worker, sent, tooBig>> /\ wire' = Tail(wire)
      /\ ContentByte(b)
  BY <1>1 DEF Receive, HeaderByte
<1> HIDE DEF more, b, L, n
<1>8. CASE n >= BufferSize - 1
  <2>1. UNCHANGED <<part, last4, matched, buffer, image, due>>
    BY <1>2, <1>7, <1>8 DEF ContentByte, parser, n
  <2>2. tooBig
    <3>1. tooBig \/ L + 2 + 3 <= BufferSize - 1
      BY Texts DEF StreamOK, Needs, L
    <3> QED BY <1>1, <1>2, <1>8, <3>1
  <2>3. n = BufferSize - 1
    BY <1>1, <1>2, <1>8
  <2> QED BY <1>1, <1>7, <2>1, <2>2, <2>3 DEF Stuck, n
<1>9. CASE n < BufferSize - 1
  <2>0. StoreByte(b)
    BY <1>2, <1>7, <1>9 DEF ContentByte, n
  <2>1. CASE matched = 2 /\ b = 98
    <3>1. n = L + 4
      <4>1. n >= 2 /\ buffer[n] = 45 /\ buffer[n - 1] = 45
        BY <1>1, <1>2, <2>1 DEF MatchedOK
      <4>2. Data[n - 1] = 45 /\ Data[n] = 45 /\ Data[n + 1] = 98
        BY <1>2, <1>5, <1>6, <2>1, <4>1
      <4> QED BY <1>1, <1>2, <4>1, <4>2, BoundaryPlace DEF L
    <3>2. Deliver(more) /\ due' = due - 1 /\ ResetParser
      BY <1>1, <1>3, <2>0, <2>1, Compared DEF StoreByte, more
    <3> DEFINE cut == SubSeq(more, 1, L)
    <3>3. image' = [length |-> L, data |-> cut]
      <4>1. Len(more) - (Len(Boundary) + 2) = L
        BY <1>2, <1>3, <3>1, Texts
      <4> QED BY <3>2, <4>1 DEF Deliver
    <3>4. cut = sent
      <4>1. cut \in Seq(Byte) /\ Len(cut) = L /\ \A i \in 1..L : cut[i] = more[i]
        BY <1>2, <1>3, <3>1, SubSeqProperties
      <4>2. \A i \in 1..L : more[i] = sent[i]
        BY <1>2, <1>3, <1>4, <1>5, <3>1
      <4>3. \A i \in 1..Len(cut) : cut[i] = sent[i]
        BY <4>1, <4>2
      <4> HIDE DEF cut
      <4> QED BY <4>1, <4>3, SeqEqual DEF L
    <3>5. wire' = <<13, 10>>
      <4>0. Len(wire) = 3
        <5> DEFINE left == Len(wire)
        <5>1. L \in Nat /\ left \in Nat /\ n = L + 4 /\ L + 7 = n + left
          BY <1>2, <1>5, <1>6, <3>1
        <5> HIDE DEF left
        <5>2. left = 3
          BY ONLY <5>1
        <5> QED BY <5>2 DEF left
      <4>1. wire' \in Seq(Byte) /\ Len(wire') = 2
        BY <1>3, <1>7, <4>0
      <4>2. wire'[1] = wire[2] /\ wire'[2] = wire[3]
        <5>1. wire' = Tail(wire) /\ Len(Tail(wire)) = 2 /\ \A i \in 1..2 : Tail(wire)[i] = wire[i + 1]
          BY <1>3, <1>7, <4>1
        <5>2. Tail(wire)[1] = wire[1 + 1] /\ Tail(wire)[2] = wire[2 + 1]
          BY ONLY <5>1
        <5> QED BY <5>1, <5>2
      <4>3. wire[2] = Data[n + 2] /\ wire[3] = Data[n + 3]
        BY <1>5, <1>6
      <4>4. wire[2] = 13 /\ wire[3] = 10
        BY <1>2, <1>4, <3>1, <4>3
      <4> QED BY <4>1, <4>2, <4>4
    <3>6. image' = [length |-> Len(sent), data |-> sent]
      BY <3>3, <3>4 DEF L
    <3>7. due' = 0
      BY <1>1, <3>2
    <3> QED BY <1>7, <3>2, <3>5, <3>6, <3>7 DEF Delivered, ResetParser, NoBytes
  <2>2. CASE ~(matched = 2 /\ b = 98)
    <3>1. /\ buffer' = more /\ matched' = Compare(matched, b)
          /\ UNCHANGED <<part, last4, image, due>>
      BY <1>1, <1>3, <2>0, <2>2, Compared DEF StoreByte, more
    <3>2. matched' = IF b = IF matched = 2 THEN 98 ELSE 45 THEN matched + 1 ELSE 0
      BY <1>1, <1>3, <3>1, Compared
    <3>3. n + 1 <= L + 4
      <4>1. ASSUME n = L + 4 PROVE FALSE
        <5>1. matched = 2
          BY <1>1, <4>1 DEF MatchedOK, L
        <5>2. b = 98
          BY <1>2, <1>4, <1>6, <4>1
        <5> QED BY <2>2, <5>1, <5>2
      <4> QED BY <1>1, <1>2, <4>1
    <3>4. Len(buffer') = n + 1
      BY <1>3, <3>1
    <3>5. MatchedOK(Len(buffer))'
      <4>1. matched' \in 0..2
        BY <1>1, <2>2, <3>2
      <4>2. matched' >= 1 => n + 1 >= 1 /\ buffer'[n + 1] = 45
        BY <1>1, <1>2, <1>3, <2>2, <3>1, <3>2
      <4>3. matched' = 2 => n + 1 >= 2 /\ buffer'[(n + 1) - 1] = 45
        <5>1. matched' = 2 => matched = 1
          BY <1>1, <2>2, <3>2
        <5>2. matched = 1 => n >= 1 /\ buffer[n] = 45
          BY <1>1 DEF MatchedOK
        <5>3. n >= 1 => more[n] = buffer[n] /\ (n + 1) - 1 = n
          BY <1>2, <1>3
        <5> QED BY <1>2, <3>1, <5>1, <5>2, <5>3
      <4>4. n + 1 \in (L + 1)..(L + 2) => matched' = 0
        <5>1. n + 1 \in (L + 1)..(L + 2) => b = 13 \/ b = 10
          BY <1>2, <1>4, <1>6
        <5> QED BY <1>1, <3>2, <5>1
      <4>5. n + 1 = L + 3 => matched' = 1
        <5>1. n + 1 = L + 3 => b = 45 /\ n = L + 2
          BY <1>2, <1>4, <1>6
        <5>2. n = L + 2 => matched = 0
          BY <1>1, <1>2 DEF MatchedOK, L
        <5> QED BY <3>2, <5>1, <5>2
      <4>6. n + 1 = L + 4 => matched' = 2
        <5>1. n + 1 = L + 4 => b = 45 /\ n = L + 3
          BY <1>2, <1>4, <1>6
        <5>2. n = L + 3 => matched = 1
          BY <1>1, <1>2 DEF MatchedOK, L
        <5> QED BY <3>2, <5>1, <5>2
      <4>7. L' = L
        BY <1>7 DEF L
      <4> QED BY <3>4, <4>2, <4>3, <4>4, <4>5, <4>6, <4>7 DEF MatchedOK, L
    <3>6. buffer' \o wire' = Data'
      BY <1>1, <1>3, <1>7, <3>1 DEF Data
    <3>7. part' = "content" /\ due' = 1 /\ Len(buffer') <= Len(sent') + 4
      BY <1>1, <1>7, <3>1, <3>3, <3>4 DEF L
    <3> QED BY <3>5, <3>6, <3>7 DEF InPicture
  <2> QED BY <2>1, <2>2
<1> QED BY <1>2, <1>8, <1>9

\* The two bytes behind the boundary end the line.
LEMMA LineEndStep ==
    ASSUME Delivered, Receive
    PROVE  Delivered'
<1>1. /\ part = "header" /\ due = 0 /\ matched = 0 /\ buffer = <<>> /\ wire # <<>>
      /\ image = [length |-> Len(sent), data |-> sent]
      /\ \/ wire = <<13, 10>> /\ last4 = <<0, 0, 0, 0>>
         \/ wire = <<10>> /\ last4 = <<0, 0, 0, 13>>
  BY DEF Delivered, Receive
<1>2. /\ HeaderByte(Head(wire)) /\ wire' = Tail(wire) /\ UNCHANGED sent
  BY <1>1 DEF Receive, ContentByte
<1>3. UNCHANGED <<due, matched, buffer, image, sent>>
  BY <1>2 DEF HeaderByte
<1>4. CASE wire = <<13, 10>> /\ last4 = <<0, 0, 0, 0>>
  <2>1. Head(wire) = 13 /\ Tail(wire) = <<10>>
    BY <1>4
  <2>2. last4' = <<0, 0, 0, 13>> /\ part' = "header"
    BY <1>2, <1>4, <2>1, HeaderEnds DEF HeaderByte
  <2> QED BY <1>1, <1>2, <1>3, <2>1, <2>2 DEF Delivered
<1>5. CASE wire = <<10>> /\ last4 = <<0, 0, 0, 13>>
  <2>1. Head(wire) = 10 /\ Tail(wire) = <<>>
    BY <1>5
  <2>2. last4' = <<0, 0, 13, 10>> /\ part' = "header"
    BY <1>2, <1>5, <2>1, HeaderEnds DEF HeaderByte
  <2> QED BY <1>1, <1>2, <1>3, <2>1, <2>2 DEF Delivered
<1> QED BY <1>1, <1>4, <1>5

LEMMA StuckStep ==
    ASSUME ProxyTypeOK, Stuck, Receive
    PROVE  Stuck'
<1>1. part = "content" /\ due = 1 /\ tooBig /\ Len(buffer) = BufferSize - 1 /\ Len(buffer) \in Nat
  BY LenProperties DEF Stuck, ProxyTypeOK
<1>2. ContentByte(Head(wire)) /\ UNCHANGED tooBig
  BY <1>1 DEF Receive, HeaderByte
<1>3. BufferSize \in Nat
  BY ProxyAssumption
<1>4. UNCHANGED <<parser, due>>
  BY <1>1, <1>2, <1>3 DEF ContentByte
<1> QED BY <1>1, <1>2, <1>4 DEF Stuck, parser

\* What is sent is a sequence of bytes; the rest of the first header holds no
\* boundary.
LEMMA SentIs ==
    ASSUME NEW f \in Frames \cup {HeaderRest}
    PROVE  f \in Seq(Byte)
<1>1. HeaderRest = <<116, 13, 10>> /\ HeaderRest \in Seq(Byte)
  BY Texts DEF HeaderRest, Text, Cr, Lf
<1> QED BY <1>1, ProxyAssumption

LEMMA HeaderRestClean == Clean(HeaderRest)
<1>1. HeaderRest = <<116, 13, 10>> /\ HeaderRest \in Seq(Byte) /\ Len(HeaderRest) = 3
  BY Texts DEF HeaderRest, Text, Cr, Lf
<1>2. ASSUME NEW i \in 1..(Len(HeaderRest) - 2), SubSeq(HeaderRest, i, i + 2) = Boundary
      PROVE  FALSE
  <2>1. i = 1
    BY <1>1
  <2>2. SubSeq(HeaderRest, 1, 3)[1] = HeaderRest[1]
    BY <1>1, SubSeqProperties
  <2>3. HeaderRest[1] = 116
    BY <1>1
  <2> QED BY <1>2, <2>1, <2>2, <2>3, Texts
<1> QED BY <1>1, <1>2 DEF Clean

\* Between two sections nothing of the last is left to be read.
LEMMA SectionOver ==
    ASSUME ProxyTypeOK, StreamOK, wire = <<>>, sent \in Seq(Byte)
    PROVE  Stuck \/ Delivered
<1>1. Data \in Seq(Byte) /\ Len(Data) = Len(sent) + 7 /\ Len(sent) \in Nat
  BY DataIs, LenProperties
<1>2. ASSUME BeforePicture PROVE FALSE
  <2>1. PICK s \in Seq(Byte) : wire = s \o Data
    <3>1. <<79, 75, 13, 10>> \in Seq(Byte) /\ <<75, 13, 10>> \in Seq(Byte) /\ <<13, 10>> \in Seq(Byte)
      BY DEF Byte
    <3>2. /\ <<10>> \in Seq(Byte) /\ <<116, 13, 10, 13, 10>> \in Seq(Byte)
          /\ <<13, 10, 13, 10>> \in Seq(Byte) /\ <<10, 13, 10>> \in Seq(Byte)
      BY DEF Byte
    <3> QED BY <1>2, <3>1, <3>2, Zenon DEF BeforePicture, Unread
  <2>2. Len(s \o Data) = Len(s) + Len(Data) /\ Len(s) \in Nat
    BY <1>1, Joined, LenProperties
  <2> DEFINE all == Len(s \o Data)
             ls  == Len(s)
             ld  == Len(sent)
  <2>3. all = 0
    BY <2>1
  <2>4. all = ls + (ld + 7) /\ ls \in Nat /\ ld \in Nat
    BY <1>1, <2>2
  <2> HIDE DEF all, ls, ld
  <2> QED BY ONLY <2>3, <2>4
<1>3. ASSUME InPicture PROVE FALSE
  <2>1. buffer \in Seq(Byte) /\ buffer \o wire = Data /\ Len(buffer) <= Len(sent) + 4
    BY <1>3 DEF InPicture, ProxyTypeOK
  <2>2. Data = buffer
    BY <2>1, ConcatEmptySeq
  <2> DEFINE ls == Len(sent)
             lb == Len(buffer)
  <2>3. lb = ls + 7 /\ lb <= ls + 4 /\ ls \in Nat
    BY <1>1, <2>1, <2>2
  <2> HIDE DEF ls, lb
  <2> QED BY ONLY <2>3
<1> QED BY <1>2, <1>3 DEF StreamOK

LEMMA NoBytesTyped == NoBytes \in [1..4 -> Byte] /\ NoBytes = <<0, 0, 0, 0>>
  BY DEF NoBytes, Byte

\* The empty parser.
LEMMA EmptyParser ==
    ASSUME NEW p, NEW l, NEW m, NEW f, p = "header" /\ l = NoBytes /\ m = 0 /\ f = <<>>
    PROVE  /\ p \in {"header", "content"} /\ l \in [1..4 -> Byte] /\ m \in 0..2
           /\ m \in 0..(Len(Boundary) - 1) /\ f \in Seq(Byte) /\ Len(f) < BufferSize
<1>1. l \in [1..4 -> Byte]
  BY NoBytesTyped
<1>2. m \in 0..2 /\ m \in 0..(Len(Boundary) - 1)
  BY Texts
<1>3. f \in Seq(Byte) /\ Len(f) = 0
  OBVIOUS
<1>4. 0 < BufferSize
  BY Texts, ProxyAssumption DEF Needs
<1> QED BY <1>1, <1>2, <1>3, <1>4

LEMMA ProxyStarts ==
    ASSUME ProxyInit
    PROVE  ProxyInv
<1>1. BufferSize \in Nat /\ 0 < BufferSize
  BY Texts, ProxyAssumption DEF Needs
<1>2. ProxyTypeOK
  <2>1. <<>> \in Seq(Byte) /\ Len(<<>>) = 0 /\ 0 \in 0..(Len(Boundary) - 1)
    BY Texts
  <2>2. image = [length |-> 0, data |-> <<>>]
    BY DEF ProxyInit, NoImage
  <2>3. image.length \in Int /\ image.data \in Seq(Byte)
    BY <2>1, <2>2
  <2>4. part = "header" /\ last4 = NoBytes /\ matched = 0 /\ buffer = <<>>
    BY DEF ProxyInit
  <2>5. /\ part \in {"header", "content"} /\ last4 \in [1..4 -> Byte]
        /\ matched \in 0..(Len(Boundary) - 1) /\ buffer \in Seq(Byte) /\ Len(buffer) < BufferSize
    BY ONLY <2>4, EmptyParser
  <2>6. stop \in BOOLEAN /\ worker \in {"connect", "stream", "ended"} /\ wire \in Seq(Byte)
    BY <2>1 DEF ProxyInit
  <2>7. due \in Int
    BY DEF ProxyInit
  <2>8. sent \in Frames \cup {HeaderRest, <<>>} /\ tooBig \in BOOLEAN /\ unclean \in BOOLEAN
    BY Zenon DEF ProxyInit
  <2> QED BY <2>3, <2>5, <2>6, <2>7, <2>8, Zenon DEF ProxyTypeOK
<1> QED BY <1>2 DEF ProxyInit, ProxyInv, NoImage

\* The first n bytes, or none when n is negative.
LEMMA FirstBytes ==
    ASSUME NEW s \in Seq(Byte), NEW n \in Int, n <= Len(s)
    PROVE  SubSeq(s, 1, n) \in Seq(Byte)
<1>1. CASE n >= 0
  <2>1. 1 \in 1..(Len(s) + 1) /\ n \in (1 - 1)..Len(s)
    BY <1>1, LenProperties
  <2> QED BY <2>1, SubSeqProperties
<1>2. CASE n < 0
  BY <1>2 DEF SubSeq
<1> QED BY <1>1, <1>2

\* A byte that is received leaves the types.
LEMMA ReceiveTyped ==
    ASSUME ProxyTypeOK, Receive
    PROVE  ProxyTypeOK'
<1> DEFINE b == Head(wire)
<1>1. b \in Byte /\ Tail(wire) \in Seq(Byte) /\ wire' = Tail(wire) /\ (HeaderByte(b) \/ ContentByte(b))
  BY HeadTailProperties DEF Receive, ProxyTypeOK
<1> HIDE DEF b
<1>2. /\ matched \in 0..2 /\ buffer \in Seq(Byte) /\ Len(buffer) < BufferSize
      /\ Len(buffer) \in Nat /\ BufferSize \in Nat
      /\ image.length \in Int /\ image.data \in Seq(Byte) /\ last4 \in [1..4 -> Byte]
      /\ due \in Int
  BY Texts, LenProperties, ProxyAssumption DEF ProxyTypeOK
<1>3. Append(buffer, b) \in Seq(Byte) /\ Len(Append(buffer, b)) = Len(buffer) + 1
  BY <1>1, <1>2, AppendProperties
<1>4. ASSUME Deliver(Append(buffer, b)) PROVE image'.length \in Int /\ image'.data \in Seq(Byte)
  <2> DEFINE n == Len(Append(buffer, b)) - (Len(Boundary) + 2)
  <2>1. n \in Int /\ n <= Len(Append(buffer, b))
    BY <1>2, <1>3, Texts
  <2>2. image' = [length |-> n, data |-> SubSeq(Append(buffer, b), 1, n)]
    BY <1>4 DEF Deliver
  <2> HIDE DEF n
  <2>3. SubSeq(Append(buffer, b), 1, n) \in Seq(Byte)
    BY <1>3, <2>1, FirstBytes
  <2>4. image'.length = n /\ image'.data = SubSeq(Append(buffer, b), 1, n)
    BY ONLY <2>2
  <2> QED BY <2>1, <2>3, <2>4
<1>5. /\ part' \in {"header", "content"} /\ last4' \in [1..4 -> Byte] /\ matched' \in 0..2
      /\ buffer' \in Seq(Byte) /\ Len(buffer') < BufferSize /\ due' \in Int
      /\ image'.length \in Int /\ image'.data \in Seq(Byte)
  <2>1. CASE HeaderByte(b)
    BY <1>1, <1>2, <2>1, PushTyped DEF HeaderByte
  <2>2. CASE UNCHANGED <<parser, image, due>>
    BY <1>2, <2>2 DEF parser, ProxyTypeOK
  <2>3. CASE Len(buffer) < BufferSize - 1 /\ StoreByte(b)
    <3>1. CASE Deliver(Append(buffer, b)) /\ due' = due - 1 /\ ResetParser
      <4>1. part' = "header" /\ last4' = NoBytes /\ matched' = 0 /\ buffer' = <<>>
        BY <3>1 DEF ResetParser
      <4>2. /\ part' \in {"header", "content"} /\ last4' \in [1..4 -> Byte]
            /\ matched' \in 0..2 /\ buffer' \in Seq(Byte) /\ Len(buffer') < BufferSize
        BY ONLY <4>1, EmptyParser
      <4> QED BY <1>2, <1>4, <3>1, <4>2
    <3>2. CASE /\ Compare(matched, b) # Len(Boundary) /\ buffer' = Append(buffer, b)
               /\ matched' = Compare(matched, b) /\ UNCHANGED <<part, last4, image, due>>
      <4>1. Compare(matched, b) \in 0..2
        BY <1>1, <1>2, <3>2, Compared
      <4> QED BY <1>2, <1>3, <2>3, <3>2, <4>1 DEF ProxyTypeOK
    <3> QED BY <2>3, <3>1, <3>2 DEF StoreByte
  <2> QED BY <1>1, <2>1, <2>2, <2>3 DEF ContentByte
<1>6. UNCHANGED <<stop, worker, sent, tooBig, unclean>>
  BY DEF Receive
<1>7. 0..2 = 0..(Len(Boundary) - 1)
  BY Texts
<1> QED BY <1>1, <1>5, <1>6, <1>7 DEF ProxyTypeOK

\* A byte is received.
LEMMA ReceiveStep ==
    ASSUME ProxyInv, Receive
    PROVE  ProxyInv'
<1>1. ProxyTypeOK /\ worker = "stream" /\ UNCHANGED <<sent, tooBig, unclean>>
  BY DEF ProxyInv, Receive
<1>2. ProxyTypeOK'
  BY <1>1, ReceiveTyped
<1>3. CASE unclean
  BY <1>1, <1>2, <1>3 DEF ProxyInv
<1>4. CASE ~unclean
  <2>1. StreamOK /\ image.length >= 0
    BY <1>1, <1>4 DEF ProxyInv
  <2>2. sent \in Frames \cup {HeaderRest} /\ sent \in Seq(Byte) /\ Clean(sent)
    BY <2>1, SentIs DEF StreamOK
  <2>3. BeforePicture' \/ InPicture' \/ Stuck' \/ Delivered'
    <3>1. CASE BeforePicture BY <2>2, <3>1, HeaderStep
    <3>2. CASE InPicture BY <1>1, <2>1, <2>2, <3>2, ContentStep
    <3>3. CASE Stuck BY <1>1, <3>3, StuckStep
    <3>4. CASE Delivered BY <3>4, LineEndStep
    <3> QED BY <2>1, <3>1, <3>2, <3>3, <3>4 DEF StreamOK
  <2>4. StreamOK'
    <3>1. tooBig' \/ Needs(Len(sent')) <= BufferSize - 1
      BY <1>1, <2>1 DEF StreamOK
    <3> QED BY <1>1, <2>2, <2>3, <3>1 DEF StreamOK
  <2> DEFINE b == Head(wire)
  <2>5. HeaderByte(b) \/ ContentByte(b)
    BY DEF Receive
  <2> HIDE DEF b
  <2>6. ASSUME ContentByte(b), Deliver(Append(buffer, b)), due' = due - 1 PROVE Delivered'
    <3>1. InPicture \/ Stuck
      BY <2>1, <2>6 DEF ContentByte, StreamOK, BeforePicture, Delivered
    <3>2. due = 1
      BY <3>1 DEF InPicture, Stuck
    <3>3. due' = 0
      BY <2>6, <3>2
    <3> QED BY <2>3, <3>3 DEF BeforePicture, InPicture, Stuck
  <2>7. image'.length >= 0
    <3>1. image' = image \/ Delivered'
      BY <2>5, <2>6 DEF HeaderByte, ContentByte, StoreByte
    <3>2. CASE Delivered'
      <4>1. sent' = sent /\ Len(sent) \in Nat /\ Len(sent) >= 0
        BY <1>1, <2>2, LenProperties
      <4>2. image' = [length |-> Len(sent), data |-> sent]
        BY <3>2, <4>1 DEF Delivered
      <4>3. image'.length = Len(sent)
        BY ONLY <4>2
      <4> QED BY <4>1, <4>3
    <3> QED BY <2>1, <3>1, <3>2
  <2> QED BY <1>2, <2>4, <2>7 DEF ProxyInv
<1> QED BY <1>3, <1>4

LEMMA ConnectStep ==
    ASSUME ProxyInv, Connect
    PROVE  ProxyInv'
<1>1. /\ worker' = "stream" /\ ResetParser /\ wire' = ResponseHeader /\ sent' = HeaderRest
      /\ due' = 1 /\ tooBig' = FALSE /\ unclean' = FALSE
      /\ image' = [length |-> 0, data |-> <<>>] /\ stop' = stop
      /\ stop \in BOOLEAN
  BY DEF Connect, NoImage, ProxyInv, ProxyTypeOK
<1>2. HeaderRest \in Seq(Byte) /\ Len(HeaderRest) = 3
  BY Texts
<1>3. /\ HeaderRest \o PartEnd \in Seq(Byte) /\ <<79, 75, 13, 10>> \in Seq(Byte)
  <2>1. PartEnd \in Seq(Byte)
    BY PartEndIs
  <2> QED BY <1>2, <2>1, Joined DEF Byte
<1>4. ResponseHeader \in Seq(Byte)
  BY <1>3, ResponseIs, Joined
<1>5. image'.length = 0 /\ image'.data = <<>>
  BY ONLY <1>1
<1>6. BufferSize \in Nat /\ Needs(Len(HeaderRest)) < BufferSize /\ Needs(Len(HeaderRest)) \in Nat
  BY <1>2, Texts, ProxyAssumption DEF Needs
<1>7. part' = "header" /\ last4' = <<0, 0, 0, 0>> /\ matched' = 0 /\ buffer' = <<>>
  BY <1>1 DEF ResetParser, NoBytes
<1>8. ProxyTypeOK'
  <2>1. part' = "header" /\ last4' = NoBytes /\ matched' = 0 /\ buffer' = <<>>
    BY <1>1 DEF ResetParser
  <2>2. /\ part' \in {"header", "content"} /\ last4' \in [1..4 -> Byte]
        /\ matched' \in 0..(Len(Boundary) - 1) /\ buffer' \in Seq(Byte) /\ Len(buffer') < BufferSize
    BY ONLY <2>1, EmptyParser
  <2>3. image'.length \in Int /\ image'.data \in Seq(Byte)
    BY <1>5
  <2>4. /\ stop' \in BOOLEAN /\ worker' \in {"connect", "stream", "ended"}
        /\ wire' \in Seq(Byte)
    BY <1>1, <1>4
  <2>5. due' \in Int
    BY <1>1
  <2>6. sent' \in Frames \cup {HeaderRest, <<>>} /\ tooBig' \in BOOLEAN /\ unclean' \in BOOLEAN
    BY <1>1, Zenon
  <2> QED BY <2>2, <2>3, <2>4, <2>5, <2>6, Zenon DEF ProxyTypeOK
<1>9. BeforePicture'
  <2>1. Unread(<<79, 75, 13, 10>>, <<0, 0, 0, 0>>)'
    BY <1>1, <1>7, ResponseIs DEF Unread, Data
  <2> QED BY <1>1, <1>7, <2>1, Zenon DEF BeforePicture
<1>10. StreamOK'
  <2>1. Needs(Len(sent')) <= BufferSize - 1
    BY <1>1, <1>6
  <2> QED BY <1>1, <1>9, <2>1, HeaderRestClean DEF StreamOK
<1> QED BY <1>5, <1>8, <1>10 DEF ProxyInv

\* The server sends a picture when the last section was read to its end.
LEMMA SendFrameStep ==
    ASSUME ProxyInv, SendFrame
    PROVE  ProxyInv'
<1>1. /\ worker = "stream" /\ wire = <<>> /\ sent' \in Frames
      /\ wire' = PartHeader \o sent' \o PartEnd /\ due' = 1
      /\ tooBig' = (tooBig \/ Needs(Len(sent')) > BufferSize - 1)
      /\ unclean' = (unclean \/ ~Clean(sent'))
      /\ image' = [length |-> 0, data |-> <<>>]
      /\ UNCHANGED <<stop, worker, part, last4, matched, buffer>>
  BY DEF SendFrame, NoImage, parser
<1>2. ProxyTypeOK /\ sent' \in Seq(Byte)
  BY <1>1, SentIs DEF ProxyInv
<1>3. /\ PartHeader \in Seq(Byte) /\ PartEnd \in Seq(Byte) /\ sent' \o PartEnd \in Seq(Byte)
      /\ PartHeader = <<116, 13, 10, 13, 10>>
  <2>1. PartHeader \in Seq(Byte) /\ PartHeader = <<116, 13, 10, 13, 10>>
    BY Texts
  <2>2. PartEnd \in Seq(Byte)
    BY PartEndIs
  <2>3. sent' \o PartEnd \in Seq(Byte)
    BY <1>2, <2>2, Joined
  <2> QED BY <2>1, <2>2, <2>3
<1>4. wire' = PartHeader \o (sent' \o PartEnd)
  <2>1. (PartHeader \o sent') \o PartEnd = PartHeader \o (sent' \o PartEnd)
    BY <1>2, <1>3, Grouped, SMTT(30)
  <2> QED BY <1>1, <2>1
<1>5. wire' \in Seq(Byte)
  BY <1>3, <1>4, Joined
<1>6. image'.length = 0 /\ image'.data = <<>> /\ <<>> \in Seq(Byte)
  BY ONLY <1>1
<1>7. ProxyTypeOK'
  <2>1. tooBig' \in BOOLEAN /\ unclean' \in BOOLEAN
    BY <1>1, Zenon
  <2> QED BY <1>1, <1>2, <1>5, <1>6, <2>1 DEF ProxyTypeOK
<1>12. CASE unclean'
  BY <1>7, <1>12 DEF ProxyInv
<1>13. CASE ~unclean'
  <2>1. StreamOK /\ sent \in Seq(Byte) /\ Clean(sent')
    <3>1. ~unclean /\ Clean(sent')
      BY <1>1, <1>13, Zenon
    <3> QED BY <1>1, <3>1, SentIs DEF ProxyInv, StreamOK
  <2>2. tooBig' \/ Needs(Len(sent')) <= BufferSize - 1
    <3>1. Len(sent') \in Nat /\ BufferSize \in Nat
      BY <1>2, LenProperties, ProxyAssumption
    <3>2. Needs(Len(sent')) \in Nat
      BY <3>1, Texts DEF Needs
    <3>3. Needs(Len(sent')) > BufferSize - 1 \/ Needs(Len(sent')) <= BufferSize - 1
      BY <3>1, <3>2
    <3> QED BY <1>1, <3>3, Zenon
  <2>3. BeforePicture' \/ Stuck'
    <3>1. CASE Stuck
      BY <1>1, <3>1 DEF Stuck
    <3>2. CASE Delivered
      <4>1. part = "header" /\ matched = 0 /\ buffer = <<>> /\ last4 = <<0, 0, 13, 10>>
        BY <1>1, <3>2 DEF Delivered
      <4>2. Unread(<<116, 13, 10, 13, 10>>, <<0, 0, 13, 10>>)'
        BY <1>1, <1>3, <1>4, <4>1 DEF Unread, Data
      <4> QED BY <1>1, <4>1, <4>2, Zenon DEF BeforePicture
    <3>3. Stuck \/ Delivered
      BY <1>1, <1>2, <2>1, SectionOver
    <3> QED BY <3>1, <3>2, <3>3
  <2>4. StreamOK'
    BY <1>1, <2>1, <2>2, <2>3 DEF StreamOK
  <2> QED BY <1>6, <1>7, <2>4 DEF ProxyInv
<1> QED BY <1>12, <1>13

LEMMA ProxyStep ==
    ASSUME ProxyInv, [ProxyNext]_proxyVars
    PROVE  ProxyInv'
<1>1. CASE Receive BY <1>1, ReceiveStep
<1>2. CASE Connect BY <1>2, ConnectStep
<1>3. CASE SendFrame BY <1>3, SendFrameStep
<1>4. CASE Disconnect
  <2>1. /\ worker' \in {"ended", "connect"} /\ wire' = <<>> /\ sent' = <<>> /\ due' = 0
        /\ UNCHANGED <<stop, tooBig, unclean, part, last4, matched, buffer, image>>
    BY <1>4 DEF Disconnect, parser
  <2>2. ProxyTypeOK'
    BY <2>1 DEF ProxyInv, ProxyTypeOK
  <2> QED BY <2>1, <2>2 DEF ProxyInv
<1>5. CASE Stop
  <2>1. stop' = TRUE /\ UNCHANGED <<worker, wire, sent, due, tooBig, unclean, part, last4, matched, buffer, image>>
    BY <1>5 DEF Stop, parser
  <2>2. ProxyTypeOK'
    BY <2>1 DEF ProxyInv, ProxyTypeOK
  <2>3. StreamOK' <=> StreamOK
    BY <2>1 DEF StreamOK, BeforePicture, Unread, Data, InPicture, MatchedOK, Stuck, Delivered
  <2> QED BY <2>1, <2>2, <2>3 DEF ProxyInv
<1>6. CASE Cancel
  <2>1. worker' = "ended" /\ UNCHANGED <<stop, wire, sent, due, tooBig, unclean, part, last4, matched, buffer, image>>
    BY <1>6 DEF Cancel, parser
  <2>2. ProxyTypeOK'
    BY <2>1 DEF ProxyInv, ProxyTypeOK
  <2> QED BY <2>1, <2>2 DEF ProxyInv
<1>7. CASE UNCHANGED proxyVars
  <2>1. UNCHANGED <<stop, worker, wire, sent, due, tooBig, unclean, part, last4, matched, buffer, image>>
    BY <1>7 DEF proxyVars, parser
  <2>2. ProxyTypeOK'
    BY <2>1 DEF ProxyInv, ProxyTypeOK
  <2>3. StreamOK' <=> StreamOK
    BY <2>1 DEF StreamOK, BeforePicture, Unread, Data, InPicture, MatchedOK, Stuck, Delivered
  <2> QED BY <2>1, <2>2, <2>3 DEF ProxyInv
<1> QED BY <1>1, <1>2, <1>3, <1>4, <1>5, <1>6, <1>7 DEF ProxyNext

LEMMA ProxyInvAlways == ProxySpec => []ProxyInv
<1>1. ProxyInit => ProxyInv
  BY ProxyStarts
<1>2. ProxyInv /\ [ProxyNext]_proxyVars => ProxyInv'
  BY ProxyStep
<1> QED BY <1>1, <1>2, PTL DEF ProxySpec

-----------------------------------------------------------------------------

\* on_image_received is never called with a negative length, however long the
\* pictures are and wherever a connection breaks, unless this connection has seen
\* a picture that holds a boundary (mjpg-proxy.c:92-106).
THEOREM LengthIsNeverNegative == ProxySpec => []LengthNeverNegative
<1>1. ProxyInv => LengthNeverNegative
  <2> SUFFICES ASSUME ProxyInv, image.length < 0 PROVE unclean
    BY DEF ProxyInv, LengthNeverNegative
  <2>1. image.length \in Int
    BY DEF ProxyInv, ProxyTypeOK
  <2> QED BY <2>1 DEF ProxyInv
<1> QED BY <1>1, ProxyInvAlways, PTL

\* What a boundary delivers is the picture the server sent, to the byte, on every
\* connection that has seen no picture with a boundary in it (mjpg-proxy.c:92-106).
THEOREM ImagesAreWhole == ProxySpec => []WholeImages
<1>1. ProxyInv => WholeImages
  <2> SUFFICES ASSUME ProxyInv, worker = "stream", ~unclean
               PROVE  due >= 0 /\ (due = 0 => image.data = sent)
    BY DEF WholeImages
  <2>1. StreamOK
    BY DEF ProxyInv
  <2>2. due \in {0, 1}
    BY <2>1 DEF StreamOK, BeforePicture, InPicture, Stuck, Delivered
  <2>3. ASSUME due = 0 PROVE image.data = sent
    <3>1. Delivered
      BY <2>1, <2>3 DEF StreamOK, BeforePicture, InPicture, Stuck
    <3>2. image = [length |-> Len(sent), data |-> sent]
      BY <3>1 DEF Delivered
    <3> QED BY ONLY <3>2
  <2> QED BY <2>2, <2>3
<1> QED BY <1>1, ProxyInvAlways, PTL

\* A picture sent to its last byte was delivered, unless the connection has seen one
\* that does not fit the buffer or that holds a boundary (mjpg-proxy.c:93-106).
THEOREM FramesArrive == ProxySpec => []EveryFrameArrives
<1>1. ProxyInv => EveryFrameArrives
  <2> SUFFICES ASSUME ProxyInv, worker = "stream", wire = <<>>, ~unclean
               PROVE  due = 0 \/ tooBig
    BY DEF EveryFrameArrives
  <2>1. ProxyTypeOK /\ StreamOK /\ sent \in Seq(Byte)
    BY SentIs DEF ProxyInv, StreamOK
  <2>2. Stuck \/ Delivered
    BY <2>1, SectionOver
  <2> QED BY <2>2 DEF Stuck, Delivered
<1> QED BY <1>1, ProxyInvAlways, PTL

====
