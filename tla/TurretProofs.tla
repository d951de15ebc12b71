---- MODULE TurretProofs ----
(***************************************************************************)
(* The turret, from the pages to the devices, for any number of pages, any *)
(* configuration and any length of the pipes. The first part is about the  *)
(* server and the pages, the second about the controller and the devices;  *)
(* they share the targets.                                                 *)
(***************************************************************************)
EXTENDS TurretServer, TurretController, SequenceTheorems, FiniteSetTheorems, TLAPS

-----------------------------------------------------------------------------
(* The server and the pages.                                               *)

OpenPages == {c \in Pages : link[c] = "open"}

PagesOK ==
    /\ link \in [Pages -> {"closed", "cut", "open"}]
    /\ greet \in [Pages -> {"config", "timer", "no"}]
    /\ ui \in [Pages -> [made : BOOLEAN, az : 0..Span, el : 0..Span, tracking : BOOLEAN, laser : Lamp]]
    /\ up \in [Pages -> Seq(Message)]
    /\ \A c \in Pages : Len(up[c]) <= MaxUp

\* clientCount counts the sockets, those of pages that are gone included.
ServerOK ==
    /\ target \in Setting
    /\ ghosts \in 0..MaxGhosts
    /\ clientCount = Cardinality(OpenPages) + ghosts
    /\ age \in 0..Timeout
    /\ {aimBy, laserBy} \subseteq Pages \cup {NoPage}

\* Messages leave a page in pairs, so that a laser state is the last.
PairsOK ==
    \A c \in Pages : up[c] # <<>> =>
        /\ up[c][Len(up[c])].kind = "laser_state"
        /\ Len(up[c]) >= 2 => up[c][Len(up[c]) - 1].kind = "angles"

\* What the last angles of page c are: those under way, or the target's.
AnglesReach(c) ==
    IF Len(up[c]) >= 2
    THEN LET m == up[c][Len(up[c]) - 1] IN m.az = ui[c].az /\ m.el = ui[c].el
    ELSE aimBy = c => /\ target.az = Aimed(ui[c].az, Azimuth)
                      /\ target.el = Aimed(ui[c].el, Elevation)

LaserReaches(c) ==
    IF up[c] # <<>>
    THEN up[c][Len(up[c])].laser = ui[c].laser
    ELSE laserBy = c => target.laser = ui[c].laser

\* Once a page has sent its first update, what it shows is on its way or there.
ReachOK == \A c \in Pages : link[c] = "open" /\ greet[c] = "no" => AnglesReach(c) /\ LaserReaches(c)

SteeringInv == PagesOK /\ ServerOK /\ PairsOK /\ ReachOK

Turret == [made : BOOLEAN, az : 0..Span, el : 0..Span, tracking : BOOLEAN, laser : Lamp]

LEMMA ClampInRange ==
    ASSUME NEW a \in Int, NEW axis \in {Azimuth, Elevation}
    PROVE  Clamp(a, axis) \in 0..Span /\ Aimed(a, axis) \in 0..Span
<1>1. axis.min \in 0..Span /\ axis.max \in 0..Span /\ axis.min <= axis.max /\ Span \in Nat
  BY ConfigAssumption DEF Axis
<1>2. Clamp(a, axis) \in 0..Span
  BY <1>1 DEF Clamp
<1> QED BY <1>1, <1>2 DEF Aimed

\* What page c has under way after it sent the update u.
PairSent(c, u) ==
    /\ up' \in [Pages -> Seq(Message)]
    /\ \A d \in Pages : Len(up'[d]) <= MaxUp
    /\ \A d \in Pages : d # c => up'[d] = up[d]
    /\ up'[c] # <<>> /\ Len(up'[c]) >= 2
    /\ up'[c][Len(up'[c])] = [kind |-> "laser_state", laser |-> u.laser]
    /\ up'[c][Len(up'[c]) - 1] = [kind |-> "angles", az |-> u.az, el |-> u.el]

\* An update of a page puts its angles and its laser state behind what is under way.
LEMMA PairIsLast ==
    ASSUME PagesOK, NEW c \in Pages, NEW u \in Turret, Sends(c, u)
    PROVE  PairSent(c, u)
<1> DEFINE a    == [kind |-> "angles", az |-> u.az, el |-> u.el]
           l    == [kind |-> "laser_state", laser |-> u.laser]
           pair == <<a, l>>
           sent == up[c] \o pair
<1>1. a \in Message /\ l \in Message
  BY DEF Turret, Message
<1>2. up' = [up EXCEPT ![c] = sent] /\ Len(up[c]) + 2 <= MaxUp
  BY DEF Sends
<1> HIDE DEF a, l
<1>3. pair \in Seq(Message) /\ Len(pair) = 2 /\ pair[1] = a /\ pair[2] = l
  BY <1>1
<1> HIDE DEF pair
<1>4. up[c] \in Seq(Message) /\ Len(up[c]) \in Nat
  BY LenProperties DEF PagesOK
<1>5. /\ sent \in Seq(Message)
      /\ Len(sent) = Len(up[c]) + Len(pair)
      /\ \A i \in 1..(Len(up[c]) + Len(pair)) :
            sent[i] = IF i <= Len(up[c]) THEN up[c][i] ELSE pair[i - Len(up[c])]
  BY <1>3, <1>4, ConcatProperties
<1> HIDE DEF sent
<1>6. Len(sent) = Len(up[c]) + 2 /\ sent[Len(sent)] = l /\ sent[Len(sent) - 1] = a
  BY <1>3, <1>4, <1>5
<1>7. up'[c] = sent /\ \A d \in Pages : d # c => up'[d] = up[d]
  BY <1>2 DEF PagesOK
<1>8. up' \in [Pages -> Seq(Message)]
  BY <1>2, <1>5 DEF PagesOK
<1>9. \A d \in Pages : Len(up'[d]) <= MaxUp
  BY <1>2, <1>6, <1>7 DEF PagesOK
<1>10. sent # <<>> /\ Len(sent) >= 2
  BY <1>4, <1>5, <1>6, EmptySeq
<1> QED BY <1>6, <1>7, <1>8, <1>9, <1>10 DEF PairSent, a, l

\* FirstUpdate, Keyboard and MouseMove: a page sends what it shows.
LEMMA UpdateSent ==
    ASSUME SteeringInv, NEW c \in Pages, NEW u \in Turret, Sends(c, u),
           ui' = [ui EXCEPT ![c] = u],
           greet' \in [Pages -> {"config", "timer", "no"}],
           \A d \in Pages : d # c => greet'[d] = greet[d],
           UNCHANGED <<serverVars, link>>
    PROVE  SteeringInv'
<1> USE DEF SteeringInv
<1>0. PairSent(c, u)
  BY PairIsLast
<1>1. PagesOK'
  <2>1. ui' \in [Pages -> Turret] /\ link' = link
    BY DEF PagesOK, Turret
  <2> QED BY <1>0, <2>1 DEF PagesOK, Turret, PairSent
<1>2. ServerOK'
  BY DEF ServerOK, serverVars, OpenPages
<1>3. PairsOK'
  <2> SUFFICES ASSUME NEW d \in Pages, up'[d] # <<>>
               PROVE  /\ up'[d][Len(up'[d])].kind = "laser_state"
                      /\ Len(up'[d]) >= 2 => up'[d][Len(up'[d]) - 1].kind = "angles"
    BY DEF PairsOK
  <2>1. CASE d = c
    BY <1>0, <2>1 DEF PairSent
  <2>2. CASE d # c
    BY <1>0, <2>2 DEF PairsOK, PairSent
  <2> QED BY <2>1, <2>2
<1>4. ReachOK'
  <2> SUFFICES ASSUME NEW d \in Pages, link'[d] = "open", greet'[d] = "no"
               PROVE  AnglesReach(d)' /\ LaserReaches(d)'
    BY DEF ReachOK
  <2>1. CASE d = c
    <3>1. ui'[c] = u
      BY DEF PagesOK
    <3> QED BY <1>0, <2>1, <3>1 DEF AnglesReach, LaserReaches, PairSent
  <2>2. CASE d # c
    <3>1. /\ up'[d] = up[d] /\ ui'[d] = ui[d] /\ link[d] = "open" /\ greet[d] = "no"
          /\ UNCHANGED <<target, aimBy, laserBy>>
      BY <1>0, <2>2 DEF PagesOK, serverVars, PairSent
    <3> QED BY <3>1 DEF ReachOK, AnglesReach, LaserReaches
  <2> QED BY <2>1, <2>2
<1> QED BY <1>1, <1>2, <1>3, <1>4

\* What page c has under way after the server has taken its first message.
FirstTaken(c, kind) ==
    /\ up' \in [Pages -> Seq(Message)]
    /\ \A d \in Pages : Len(up'[d]) <= MaxUp
    /\ \A d \in Pages : d # c => up'[d] = up[d]
    /\ Head(up[c]) = up[c][1] /\ up[c][1] \in Message /\ up[c][1].kind = kind
    /\ Len(up[c]) \in Nat \ {0} /\ Len(up'[c]) = Len(up[c]) - 1 /\ up[c] # <<>>
    /\ (up'[c] = <<>>) <=> (Len(up[c]) = 1)
    /\ \A i \in 1..(Len(up[c]) - 1) : up'[c][i] = up[c][i + 1]

LEMMA RestUnderWay ==
    ASSUME PagesOK, NEW c \in Pages, NEW kind, Receives(c, kind)
    PROVE  FirstTaken(c, kind)
<1> USE DEF PagesOK
<1>1. up[c] \in Seq(Message) /\ up[c] # <<>> /\ up' = [up EXCEPT ![c] = Tail(up[c])]
  BY DEF Receives
<1> DEFINE rest == Tail(up[c])
<1>2. /\ Head(up[c]) = up[c][1] /\ Head(up[c]) \in Message
      /\ rest \in Seq(Message) /\ Len(rest) = Len(up[c]) - 1
      /\ \A i \in 1..Len(rest) : rest[i] = up[c][i + 1]
      /\ Len(up[c]) \in Nat \ {0}
  BY <1>1, HeadTailProperties, LenProperties, EmptySeq
<1>3. up'[c] = rest /\ \A d \in Pages : d # c => up'[d] = up[d]
  BY <1>1
<1> HIDE DEF rest
<1>4. (rest = <<>>) <=> (Len(rest) = 0)
  BY <1>2, EmptySeq
<1>5. up' \in [Pages -> Seq(Message)]
  BY <1>1, <1>2 DEF rest
<1>6. \A d \in Pages : Len(up'[d]) <= MaxUp
  <2> TAKE d \in Pages
  <2>1. MaxUp \in Int /\ Len(up[d]) <= MaxUp /\ Len(up[c]) <= MaxUp
    BY ServerAssumption
  <2>2. Len(rest) <= MaxUp
    BY <1>2, <2>1
  <2> QED BY <1>3, <2>1, <2>2
<1>7. (up'[c] = <<>>) <=> (Len(up[c]) = 1)
  BY <1>2, <1>3, <1>4
<1>8. Head(up[c]).kind = kind
  BY DEF Receives
<1> QED BY <1>1, <1>2, <1>3, <1>5, <1>6, <1>7, <1>8 DEF FirstTaken

\* The last two messages stay the last two while there are more.
LEMMA LastTwoStay ==
    ASSUME NEW c \in Pages, NEW kind, FirstTaken(c, kind), Len(up[c]) > 2
    PROVE  /\ Len(up[c]) >= 2 /\ Len(up'[c]) >= 2 /\ up'[c] # <<>>
           /\ up'[c][Len(up'[c]) - 1] = up[c][Len(up[c]) - 1]
           /\ up'[c][Len(up'[c])] = up[c][Len(up[c])]
<1> DEFINE n == Len(up[c])
           m == Len(up'[c])
<1>1. n \in Nat /\ n > 2 /\ m = n - 1
  BY DEF FirstTaken
<1>2. up'[c] # <<>>
  BY <1>1 DEF FirstTaken
<1>3. \A i \in 1..(n - 1) : up'[c][i] = up[c][i + 1]
  BY DEF FirstTaken
<1> HIDE DEF n, m
<1>4. n - 2 \in 1..(n - 1) /\ n - 1 \in 1..(n - 1) /\ m - 1 = n - 2 /\ (n - 2) + 1 = n - 1 /\ (n - 1) + 1 = n
  BY ONLY <1>1
<1>5. up'[c][m - 1] = up[c][n - 1] /\ up'[c][m] = up[c][n]
  BY <1>1, <1>3, <1>4
<1> QED BY <1>1, <1>2, <1>5 DEF n, m

\* The open pages and their number, when one page opens or leaves.
LEMMA OpenPagesFinite ==
    ServerAssumption => IsFiniteSet(OpenPages) /\ Cardinality(OpenPages) \in Nat
<1> SUFFICES ASSUME ServerAssumption PROVE IsFiniteSet(OpenPages) /\ Cardinality(OpenPages) \in Nat
  OBVIOUS
<1>1. IsFiniteSet(Pages) /\ OpenPages \in SUBSET Pages
  BY DEF ServerAssumption, OpenPages
<1>2. IsFiniteSet(OpenPages)
  BY <1>1, FS_Subset
<1> QED BY <1>2, FS_CardinalityType

LEMMA OneOpens ==
    ASSUME PagesOK, NEW c \in Pages, link[c] # "open", link' = [link EXCEPT ![c] = "open"]
    PROVE  Cardinality(OpenPages') = Cardinality(OpenPages) + 1
<1>1. OpenPages' = OpenPages \cup {c} /\ c \notin OpenPages
  BY DEF PagesOK, OpenPages
<1>2. IsFiniteSet(OpenPages)
  BY OpenPagesFinite, ServerAssumption
<1> QED BY <1>1, <1>2, FS_AddElement

LEMMA OneLeaves ==
    ASSUME PagesOK, NEW c \in Pages, NEW l, l # "open", link' = [link EXCEPT ![c] = l]
    PROVE  Cardinality(OpenPages') =
              IF link[c] = "open" THEN Cardinality(OpenPages) - 1 ELSE Cardinality(OpenPages)
<1>1. OpenPages' = OpenPages \ {c} /\ (c \in OpenPages <=> link[c] = "open")
  BY DEF PagesOK, OpenPages
<1>2. IsFiniteSet(OpenPages)
  BY OpenPagesFinite, ServerAssumption
<1> QED BY <1>1, <1>2, FS_RemoveElement

\* A page whose connection or tab is gone has nothing under way.
LEMMA PageLeaves ==
    ASSUME SteeringInv, NEW c \in Pages, NEW l \in {"closed", "cut"},
           link' = [link EXCEPT ![c] = l],
           greet' \in [Pages -> {"config", "timer", "no"}],
           \A d \in Pages : d # c => greet'[d] = greet[d],
           ui' \in [Pages -> Turret],
           \A d \in Pages : d # c => ui'[d] = ui[d],
           up' = [up EXCEPT ![c] = <<>>],
           link[c] = "open" => ghosts < MaxGhosts,
           ghosts' = IF link[c] = "open" THEN ghosts + 1 ELSE ghosts,
           UNCHANGED <<target, clientCount, age, aimBy, laserBy>>
    PROVE  SteeringInv'
<1> USE DEF SteeringInv
<1>1. up' \in [Pages -> Seq(Message)] /\ up'[c] = <<>> /\ \A d \in Pages : d # c => up'[d] = up[d]
  <2>1. <<>> \in Seq(Message)
    BY EmptySeq
  <2> QED BY <2>1 DEF PagesOK
<1>2. link' \in [Pages -> {"closed", "cut", "open"}] /\ link'[c] # "open"
      /\ \A d \in Pages : d # c => link'[d] = link[d]
  BY DEF PagesOK
<1>3. PagesOK'
  <2>1. \A d \in Pages : Len(up'[d]) <= MaxUp
    <3> TAKE d \in Pages
    <3>1. CASE d = c
      <4>1. Len(up'[d]) = 0
        BY <1>1, <3>1
      <4> QED BY <4>1, ServerAssumption
    <3>2. CASE d # c
      BY <1>1, <3>2 DEF PagesOK
    <3> QED BY <3>1, <3>2
  <2> QED BY <1>1, <1>2, <2>1 DEF PagesOK, Turret
<1>4. ServerOK'
  <2>1. Cardinality(OpenPages') =
           IF link[c] = "open" THEN Cardinality(OpenPages) - 1 ELSE Cardinality(OpenPages)
    BY OneLeaves
  <2>2. Cardinality(OpenPages) \in Nat
    BY OpenPagesFinite, ServerAssumption
  <2>3. ghosts' \in 0..MaxGhosts
    BY ServerAssumption DEF ServerOK
  <2>4. clientCount' = Cardinality(OpenPages') + ghosts'
    BY <2>1, <2>2 DEF ServerOK
  <2> QED BY <2>3, <2>4 DEF ServerOK
<1>5. PairsOK'
  BY <1>1 DEF PairsOK
<1>6. ReachOK'
  <2> SUFFICES ASSUME NEW d \in Pages, link'[d] = "open", greet'[d] = "no"
               PROVE  AnglesReach(d)' /\ LaserReaches(d)'
    BY DEF ReachOK
  <2>1. /\ d # c /\ up'[d] = up[d] /\ ui'[d] = ui[d] /\ link[d] = "open" /\ greet[d] = "no"
        /\ UNCHANGED <<target, aimBy, laserBy>>
    BY <1>1, <1>2
  <2> QED BY <2>1 DEF ReachOK, AnglesReach, LaserReaches
<1> QED BY <1>3, <1>4, <1>5, <1>6

\* When the server takes a message of page c, the pages themselves are unchanged.
LEMMA TakenKeepsPages ==
    ASSUME SteeringInv, NEW c \in Pages, NEW kind, Receives(c, kind), target' \in Setting,
           {aimBy', laserBy'} \subseteq Pages \cup {NoPage},
           UNCHANGED <<link, greet, ui, clientCount, ghosts>>
    PROVE  /\ FirstTaken(c, kind)
           /\ PagesOK' /\ ServerOK' /\ PairsOK'
<1> USE DEF SteeringInv
<1>1. FirstTaken(c, kind)
  BY RestUnderWay
<1>2. PagesOK'
  BY <1>1 DEF FirstTaken, PagesOK
<1>3. ServerOK'
  <2>1. OpenPages' = OpenPages
    BY DEF OpenPages
  <2>2. age' \in 0..Timeout
    BY ServerAssumption DEF Receives
  <2> QED BY <2>1, <2>2 DEF ServerOK
<1>4. PairsOK'
  <2> SUFFICES ASSUME NEW d \in Pages, up'[d] # <<>>
               PROVE  /\ up'[d][Len(up'[d])].kind = "laser_state"
                      /\ Len(up'[d]) >= 2 => up'[d][Len(up'[d]) - 1].kind = "angles"
    BY DEF PairsOK
  <2>1. CASE d = c
    <3>1. /\ Len(up[c]) \in Nat /\ Len(up[c]) > 1 /\ Len(up'[c]) = Len(up[c]) - 1
          /\ \A i \in 1..(Len(up[c]) - 1) : up'[c][i] = up[c][i + 1]
      BY <1>1, <2>1 DEF FirstTaken
    <3>2. up'[c][Len(up'[c])] = up[c][Len(up[c])]
      BY <3>1
    <3>3. Len(up'[c]) >= 2 => up'[c][Len(up'[c]) - 1] = up[c][Len(up[c]) - 1]
      BY <3>1
    <3>4. Len(up'[c]) >= 2 => Len(up[c]) >= 2
      BY <3>1
    <3>5. up[c] # <<>>
      BY <1>1 DEF FirstTaken
    <3> QED BY <2>1, <3>2, <3>3, <3>4, <3>5 DEF PairsOK
  <2>2. CASE d # c
    BY <1>1, <2>2 DEF FirstTaken, PairsOK
  <2> QED BY <2>1, <2>2
<1> QED BY <1>1, <1>2, <1>3, <1>4

LEMMA SteeringInit == ServerInit => SteeringInv
<1> SUFFICES ASSUME ServerInit PROVE SteeringInv
  OBVIOUS
<1> USE ConfigAssumption, ServerAssumption DEF ServerInit
<1>1. Azimuth.default \in 0..Span /\ Elevation.default \in 0..Span
  BY DEF Axis
<1>2. <<>> \in Seq(Message) /\ Len(<<>>) = 0
  BY EmptySeq
<1>3. Blank \in Turret
  BY <1>1 DEF Blank, Turret, Lamp
<1>4. PagesOK
  <2>1. \A c \in Pages : Len(up[c]) = 0
    BY <1>2
  <2>2. ui \in [Pages -> Turret]
    BY <1>3
  <2> QED BY <1>2, <2>1, <2>2 DEF PagesOK, Turret
<1>5. ServerOK
  <2>1. OpenPages = {}
    BY DEF OpenPages
  <2>2. Cardinality(OpenPages) = 0
    BY <2>1, FS_EmptySet
  <2>3. target \in Setting
    BY <1>1 DEF Default, Setting
  <2> QED BY <2>2, <2>3 DEF ServerOK
<1>6. PairsOK
  BY DEF PairsOK
<1>7. ReachOK
  BY DEF ReachOK
<1> QED BY <1>4, <1>5, <1>6, <1>7 DEF SteeringInv

LEMMA SteeringStep == SteeringInv /\ [ServerNext]_steeringVars => SteeringInv'
<1> SUFFICES ASSUME SteeringInv, [ServerNext]_steeringVars PROVE SteeringInv'
  OBVIOUS
<1> USE DEF SteeringInv
<1>1. ASSUME NEW c \in Pages, Config(c) PROVE SteeringInv'
  <2>1. NewTurret \in Turret
    BY ConfigAssumption DEF NewTurret, Blank, Turret, Lamp, Axis
  <2>2. PagesOK'
    BY <1>1, <2>1 DEF Config, PagesOK, Turret
  <2>3. ServerOK'
    BY <1>1 DEF Config, ServerOK, serverVars, OpenPages
  <2>4. PairsOK'
    BY <1>1 DEF Config, PairsOK
  <2>5. ReachOK'
    <3> SUFFICES ASSUME NEW d \in Pages, link'[d] = "open", greet'[d] = "no"
                 PROVE  AnglesReach(d)' /\ LaserReaches(d)'
      BY DEF ReachOK
    <3>1. /\ d # c /\ up' = up /\ ui'[d] = ui[d] /\ link[d] = "open" /\ greet[d] = "no"
          /\ UNCHANGED <<target, aimBy, laserBy>>
      BY <1>1 DEF Config, PagesOK, serverVars
    <3> QED BY <3>1 DEF ReachOK, AnglesReach, LaserReaches
  <2> QED BY <2>2, <2>3, <2>4, <2>5
<1>2. ASSUME NEW c \in Pages, FirstUpdate(c) PROVE SteeringInv'
  <2>1. ui[c] \in Turret /\ Sends(c, ui[c]) /\ ui' = [ui EXCEPT ![c] = ui[c]]
    BY <1>2 DEF FirstUpdate, PagesOK, Turret
  <2>2. /\ greet' \in [Pages -> {"config", "timer", "no"}]
        /\ \A d \in Pages : d # c => greet'[d] = greet[d]
        /\ UNCHANGED <<serverVars, link>>
    BY <1>2 DEF FirstUpdate, PagesOK
  <2> QED BY <2>1, <2>2, UpdateSent
<1>3. ASSUME NEW c \in Pages, Keyboard(c) PROVE SteeringInv'
  <2>1. PICK keys \in SUBSET {" ", "SHIFT"} :
          /\ ui' = [ui EXCEPT
                ![c].tracking = IF " " \in keys THEN ~@ ELSE @,
                ![c].laser    = IF "SHIFT" \in keys THEN Flip(@) ELSE @]
          /\ Sends(c, ui'[c])
    BY <1>3 DEF Keyboard
  <2>2. ui'[c] \in Turret /\ ui' = [ui EXCEPT ![c] = ui'[c]]
    BY <2>1, ZenonT(30) DEF PagesOK, Turret, Flip, Lamp
  <2>3. /\ greet' \in [Pages -> {"config", "timer", "no"}]
        /\ \A d \in Pages : d # c => greet'[d] = greet[d]
        /\ UNCHANGED <<serverVars, link>>
    BY <1>3 DEF Keyboard, PagesOK
  <2> QED BY <2>1, <2>2, <2>3, UpdateSent
<1>4. ASSUME NEW c \in Pages, MouseMove(c) PROVE SteeringInv'
  <2>1. PICK p \in Pointer :
          /\ ui' = [ui EXCEPT ![c].az = Clamp(p.az, Azimuth),
                              ![c].el = Clamp(p.el, Elevation)]
          /\ Sends(c, ui'[c])
    BY <1>4 DEF MouseMove
  <2>2. Clamp(p.az, Azimuth) \in 0..Span /\ Clamp(p.el, Elevation) \in 0..Span
    BY ClampInRange, ServerAssumption
  <2>3. ui'[c] \in Turret /\ ui' = [ui EXCEPT ![c] = ui'[c]]
    BY <2>1, <2>2 DEF PagesOK, Turret
  <2>4. /\ greet' \in [Pages -> {"config", "timer", "no"}]
        /\ \A d \in Pages : d # c => greet'[d] = greet[d]
        /\ UNCHANGED <<serverVars, link>>
    BY <1>4 DEF MouseMove, PagesOK
  <2> QED BY <2>1, <2>3, <2>4, UpdateSent
<1>5. ASSUME NEW c \in Pages, Connect(c) PROVE SteeringInv'
  <2>1. PagesOK'
    BY <1>5 DEF Connect, PagesOK
  <2>2. ServerOK'
    <3>1. Cardinality(OpenPages') = Cardinality(OpenPages) + 1
      BY <1>5, OneOpens DEF Connect
    <3>2. Cardinality(OpenPages) \in Nat
      BY OpenPagesFinite, ServerAssumption
    <3> QED BY <1>5, <3>1, <3>2 DEF Connect, ServerOK
  <2>3. PairsOK'
    BY <1>5 DEF Connect, PairsOK
  <2>4. ReachOK'
    <3> SUFFICES ASSUME NEW d \in Pages, link'[d] = "open", greet'[d] = "no"
                 PROVE  AnglesReach(d)' /\ LaserReaches(d)'
      BY DEF ReachOK
    <3>1. /\ d # c /\ up' = up /\ ui'[d] = ui[d] /\ link[d] = "open" /\ greet[d] = "no"
          /\ UNCHANGED <<target, aimBy, laserBy>>
      BY <1>5 DEF Connect, PagesOK
    <3> QED BY <3>1 DEF ReachOK, AnglesReach, LaserReaches
  <2> QED BY <2>1, <2>2, <2>3, <2>4
<1>6. ASSUME NEW c \in Pages, Cut(c) PROVE SteeringInv'
  BY <1>6, PageLeaves DEF Cut, PagesOK, Turret
<1>7. ASSUME NEW c \in Pages, Close(c) PROVE SteeringInv'
  <2>1. Blank \in Turret
    BY ConfigAssumption DEF Blank, Turret, Lamp, Axis
  <2>2. ui' \in [Pages -> Turret] /\ \A d \in Pages : d # c => ui'[d] = ui[d]
    BY <1>7, <2>1 DEF Close, PagesOK, Turret
  <2>3. /\ greet' \in [Pages -> {"config", "timer", "no"}]
        /\ \A d \in Pages : d # c => greet'[d] = greet[d]
    BY <1>7 DEF Close, PagesOK
  <2> QED BY <1>7, <2>2, <2>3, PageLeaves DEF Close
<1>8. ASSUME NEW c \in Pages, Angles(c) PROVE SteeringInv'
  <2>0. Receives(c, "angles")
    BY <1>8 DEF Angles
  <2>1. Aimed(up[c][1].az, Azimuth) \in 0..Span /\ Aimed(up[c][1].el, Elevation) \in 0..Span
    <3>1. FirstTaken(c, "angles")
      BY <2>0, RestUnderWay
    <3>2. up[c][1].az \in Int /\ up[c][1].el \in Int
      BY <3>1, ConfigAssumption DEF FirstTaken, Message
    <3> QED BY <3>2, ClampInRange
  <2>2. Head(up[c]) = up[c][1]
    BY <2>0, RestUnderWay DEF FirstTaken
  <2>3. /\ target' \in Setting /\ target'.laser = target.laser
        /\ target'.az = Aimed(up[c][1].az, Azimuth) /\ target'.el = Aimed(up[c][1].el, Elevation)
    BY <1>8, <2>1, <2>2 DEF Angles, ServerOK, Setting
  <2>4. FirstTaken(c, "angles") /\ PagesOK' /\ ServerOK' /\ PairsOK'
    BY <1>8, <2>0, <2>3, TakenKeepsPages DEF Angles, ServerOK
  <2>5. ReachOK'
    <3> SUFFICES ASSUME NEW d \in Pages, link'[d] = "open", greet'[d] = "no"
                 PROVE  AnglesReach(d)' /\ LaserReaches(d)'
      BY DEF ReachOK
    <3>1. link[d] = "open" /\ greet[d] = "no" /\ ui' = ui /\ aimBy' = c /\ laserBy' = laserBy
      BY <1>8 DEF Angles
    <3>2. AnglesReach(d) /\ LaserReaches(d)
      BY <3>1 DEF ReachOK
    <3>3. CASE d # c
      BY <2>3, <2>4, <3>1, <3>2, <3>3 DEF FirstTaken, AnglesReach, LaserReaches
    <3>4. CASE d = c
      <4>1. /\ Len(up[c]) \in Nat \ {0} /\ Len(up'[c]) = Len(up[c]) - 1 /\ up[c] # <<>>
            /\ (up'[c] = <<>>) <=> (Len(up[c]) = 1)
            /\ \A i \in 1..(Len(up[c]) - 1) : up'[c][i] = up[c][i + 1]
            /\ up[c][1].kind = "angles"
        BY <2>4 DEF FirstTaken
      <4>2. Len(up[c]) >= 2
        BY <4>1 DEF PairsOK
      <4>3. up'[c] # <<>> /\ up'[c][Len(up'[c])] = up[c][Len(up[c])]
        BY <4>1, <4>2
      <4>4. LaserReaches(d)'
        BY <3>1, <3>2, <3>4, <4>1, <4>3 DEF LaserReaches
      <4>5. CASE Len(up[c]) = 2
        <5>1. ~(Len(up'[c]) >= 2) /\ Len(up[c]) - 1 = 1
          BY <4>1, <4>5
        <5>2. up[c][1].az = ui[c].az /\ up[c][1].el = ui[c].el
          BY <3>2, <3>4, <4>2, <5>1 DEF AnglesReach
        <5> QED BY <2>3, <3>1, <3>4, <4>4, <5>1, <5>2 DEF AnglesReach
      <4>6. CASE Len(up[c]) > 2
        <5>1. Len(up'[c]) >= 2 /\ up'[c][Len(up'[c]) - 1] = up[c][Len(up[c]) - 1]
          BY <2>4, <4>6, LastTwoStay
        <5> QED BY <3>1, <3>2, <3>4, <4>2, <4>4, <5>1 DEF AnglesReach
      <4>7. Len(up[c]) = 2 \/ Len(up[c]) > 2
        <5> DEFINE n == Len(up[c])
        <5>1. n \in Nat /\ n >= 2
          BY <4>1, <4>2
        <5> HIDE DEF n
        <5>2. n = 2 \/ n > 2
          BY ONLY <5>1
        <5> QED BY <5>2 DEF n
      <4> QED BY <4>5, <4>6, <4>7
    <3> QED BY <3>3, <3>4
  <2> QED BY <2>4, <2>5
<1>9. ASSUME NEW c \in Pages, LaserState(c) PROVE SteeringInv'
  <2>0. Receives(c, "laser_state")
    BY <1>9 DEF LaserState
  <2>1. FirstTaken(c, "laser_state")
    BY <2>0, RestUnderWay
  <2>2. up[c][1].laser \in Lamp /\ Head(up[c]) = up[c][1]
    BY <2>1 DEF FirstTaken, Message
  <2>3. /\ target' \in Setting /\ target'.laser = up[c][1].laser
        /\ target'.az = target.az /\ target'.el = target.el
    BY <1>9, <2>2 DEF LaserState, ServerOK, Setting
  <2>4. FirstTaken(c, "laser_state") /\ PagesOK' /\ ServerOK' /\ PairsOK'
    BY <1>9, <2>0, <2>3, TakenKeepsPages DEF LaserState, ServerOK
  <2>5. ReachOK'
    <3> SUFFICES ASSUME NEW d \in Pages, link'[d] = "open", greet'[d] = "no"
                 PROVE  AnglesReach(d)' /\ LaserReaches(d)'
      BY DEF ReachOK
    <3>1. link[d] = "open" /\ greet[d] = "no" /\ ui' = ui /\ aimBy' = aimBy /\ laserBy' = c
      BY <1>9 DEF LaserState
    <3>2. AnglesReach(d) /\ LaserReaches(d)
      BY <3>1 DEF ReachOK
    <3>3. CASE d # c
      BY <2>3, <2>4, <3>1, <3>2, <3>3 DEF FirstTaken, AnglesReach, LaserReaches
    <3>4. CASE d = c
      <4>1. /\ Len(up[c]) \in Nat \ {0} /\ Len(up'[c]) = Len(up[c]) - 1 /\ up[c] # <<>>
            /\ (up'[c] = <<>>) <=> (Len(up[c]) = 1)
            /\ \A i \in 1..(Len(up[c]) - 1) : up'[c][i] = up[c][i + 1]
            /\ up[c][1].kind = "laser_state"
        BY <2>4 DEF FirstTaken
      <4>2. Len(up[c]) # 2
        <5> SUFFICES ASSUME Len(up[c]) = 2 PROVE FALSE
          OBVIOUS
        <5>1. Len(up[c]) >= 2 /\ Len(up[c]) - 1 = 1
          OBVIOUS
        <5>2. up[c][1].kind = "angles"
          BY <4>1, <5>1 DEF PairsOK
        <5> QED BY <4>1, <5>2
      <4>3. CASE Len(up[c]) = 1
        <5>1. up'[c] = <<>> /\ ~(Len(up'[c]) >= 2) /\ ~(Len(up[c]) >= 2)
          BY <4>1, <4>3
        <5>2. up[c][1].laser = ui[c].laser
          BY <3>2, <3>4, <4>1, <4>3 DEF LaserReaches
        <5> QED BY <2>3, <3>1, <3>2, <3>4, <5>1, <5>2 DEF AnglesReach, LaserReaches
      <4>4. CASE Len(up[c]) > 2
        <5>1. /\ Len(up'[c]) >= 2 /\ Len(up[c]) >= 2 /\ up'[c] # <<>>
              /\ up'[c][Len(up'[c]) - 1] = up[c][Len(up[c]) - 1]
              /\ up'[c][Len(up'[c])] = up[c][Len(up[c])]
          BY <2>4, <4>4, LastTwoStay
        <5> QED BY <3>1, <3>2, <3>4, <4>1, <5>1 DEF AnglesReach, LaserReaches
      <4>5. Len(up[c]) = 1 \/ Len(up[c]) > 2
        <5> DEFINE n == Len(up[c])
        <5>1. n \in Nat \ {0} /\ n # 2
          BY <4>1, <4>2
        <5> HIDE DEF n
        <5>2. n = 1 \/ n > 2
          BY ONLY <5>1
        <5> QED BY <5>2 DEF n
      <4> QED BY <4>3, <4>4, <4>5
    <3> QED BY <3>3, <3>4
  <2> QED BY <2>4, <2>5
<1>10. CASE Disconnect
  <2>1. ServerOK'
    <3>1. OpenPages' = OpenPages
      BY <1>10 DEF Disconnect, pageVars, OpenPages
    <3>2. Cardinality(OpenPages) \in Nat
      BY OpenPagesFinite, ServerAssumption
    <3> QED BY <1>10, <3>1, <3>2, ServerAssumption DEF Disconnect, ServerOK
  <2> QED BY <1>10, <2>1 DEF Disconnect, pageVars, PagesOK, PairsOK, ReachOK, AnglesReach, LaserReaches
<1>11. CASE IdleHandler
  <2>1. Default \in Setting
    BY ConfigAssumption DEF Default, Setting, Axis
  <2>2. ServerOK'
    BY <1>11, <2>1 DEF IdleHandler, pageVars, ServerOK, OpenPages
  <2>3. ReachOK'
    BY <1>11, ServerAssumption DEF IdleHandler, pageVars, ReachOK, AnglesReach, LaserReaches
  <2> QED BY <1>11, <2>2, <2>3 DEF IdleHandler, pageVars, PagesOK, PairsOK
<1>12. CASE Tick
  <2>1. ServerOK'
    BY <1>12, ServerAssumption DEF Tick, pageVars, ServerOK, OpenPages
  <2> QED BY <1>12, <2>1 DEF Tick, pageVars, PagesOK, PairsOK, ReachOK, AnglesReach, LaserReaches
<1>13. CASE UNCHANGED steeringVars
  BY <1>13 DEF steeringVars, pageVars, serverVars, PagesOK, ServerOK, OpenPages, PairsOK,
               ReachOK, AnglesReach, LaserReaches
<1> QED BY <1>1, <1>2, <1>3, <1>4, <1>5, <1>6, <1>7, <1>8, <1>9, <1>10, <1>11, <1>12, <1>13
        DEF ServerNext

\* What a page shows is what the turret was told, once its messages have
\* arrived, for any number of pages and messages under way.
THEOREM ShownIsCommanded == ServerSpec => []ShowsWhatItCommanded
<1>1. SteeringInv => ShowsWhatItCommanded
  <2> SUFFICES ASSUME SteeringInv PROVE ShowsWhatItCommanded
    OBVIOUS
  <2> USE DEF SteeringInv
  <2>1. ServerTypeOK
    <3>1. Cardinality(OpenPages) \in Nat
      BY OpenPagesFinite, ServerAssumption
    <3>2. clientCount \in Nat
      BY <3>1, ServerAssumption DEF ServerOK
    <3> QED BY <3>2 DEF ServerTypeOK, PagesOK, ServerOK
  <2>2. ASSUME NEW c \in Pages, link[c] = "open", greet[c] = "no", up[c] = <<>>
        PROVE  /\ aimBy = c => /\ target.az = Aimed(ui[c].az, Azimuth)
                               /\ target.el = Aimed(ui[c].el, Elevation)
               /\ laserBy = c => target.laser = ui[c].laser
    <3>1. ~(Len(up[c]) >= 2)
      BY <2>2
    <3> QED BY <2>2, <3>1 DEF ReachOK, AnglesReach, LaserReaches
  <2> QED BY <2>1, <2>2 DEF ShowsWhatItCommanded
<1> QED BY <1>1, SteeringInit, SteeringStep, PTL DEF ServerSpec

\* The server tells the controller settings in the range of the devices, and
\* nothing else: every step of the pages and the server is, for the controller,
\* its Command or none. This is what lets the two modules be read together.
THEOREM ServerCommands == ServerSpec => [][target' \in Setting]_target
<1>1. SteeringInv /\ [ServerNext]_steeringVars => [target' \in Setting]_target
  BY SteeringStep DEF SteeringInv, ServerOK
<1> QED BY <1>1, SteeringInit, SteeringStep, PTL DEF ServerSpec

-----------------------------------------------------------------------------
(* The controller and the devices.                                         *)

Pulse == (-Span)..Span

\* What a device will do once it has read its pipe.
Ahead(d) == IF pipe[d] = <<>> THEN device[d] ELSE pipe[d][Len(pipe[d])]

NodeOK == nodeUp \in BOOLEAN

DevicesOK ==
    /\ target \in Setting
    /\ current \in Setting \cup {Unset}
    /\ pipe \in [Devices -> Seq(Pulse)]
    /\ \A d \in Devices : Len(pipe[d]) <= MaxPipe
    /\ proc \in [Devices -> {"up", "dead", "gone"}]
    /\ device \in [Devices -> (-Span)..Limp]

OrdersOK ==
    /\ \A d \in Devices : proc[d] # "up" => pipe[d] = <<>>
    /\ current # Unset => \A d \in Devices : proc[d] = "up" => Ahead(d) = Line(current, d)

TurretInv == NodeOK /\ DevicesOK /\ OrdersOK

LEMMA LineIsPulse ==
    ASSUME NEW s \in Setting, NEW d \in Devices
    PROVE  Line(s, d) \in Pulse
<1> USE ConfigAssumption
<1>1. s.az \in 0..Span /\ s.el \in 0..Span
  BY DEF Setting
<1>2. CASE d = "azimuth"
  BY <1>1, <1>2 DEF Line, Pulse
<1>3. CASE d = "elevation"
  BY <1>1, <1>3 DEF Line, Pulse
<1>4. CASE d = "laser"
  <2>1. Line(s, d) \in {0, 1}
    BY <1>4 DEF Line
  <2> QED BY <2>1 DEF Pulse
<1> QED BY <1>2, <1>3, <1>4 DEF Devices, Servos

\* Before the first update nothing is like a setting, so that it writes to all.
LEMMA UnsetDiffers == \A s \in Setting : s.az # Unset.az /\ s.laser # Unset.laser /\ s # Unset
  BY ConfigAssumption DEF Setting, Unset, Lamp

LEMMA TurretInit == ControllerInit => TurretInv
<1> SUFFICES ASSUME ControllerInit PROVE TurretInv
  OBVIOUS
<1> USE ConfigAssumption, PipeAssumption
<1>1. NodeOK
  BY DEF ControllerInit, NodeOK
<1>2. Default \in Setting
  BY DEF Default, Setting, Axis
<1>3. \A d \in Devices : pipe[d] = <<>>
  BY DEF ControllerInit
<1>4. pipe \in [Devices -> Seq(Pulse)] /\ \A d \in Devices : Len(pipe[d]) <= MaxPipe
  BY <1>3, EmptySeq DEF ControllerInit
<1>5. proc \in [Devices -> {"up", "dead", "gone"}] /\ device \in [Devices -> (-Span)..Limp]
  BY DEF ControllerInit, Limp
<1>6. current = Unset /\ target = Default
  BY DEF ControllerInit
<1> QED BY <1>1, <1>2, <1>3, <1>4, <1>5, <1>6 DEF TurretInv, DevicesOK, OrdersOK

\* A device that update does not write to has been told this setting already.
LEMMA UnchangedSameLine ==
    ASSUME TurretInv, NEW d \in Devices, ~Changed(d)
    PROVE  current # Unset /\ Line(current, d) = Line(target, d)
<1>1. target \in Setting
  BY DEF TurretInv, DevicesOK
<1>2. target.az # Unset.az /\ target.laser # Unset.laser
  BY <1>1, UnsetDiffers
<1>3. CASE d \in Servos
  <2>1. current.az = target.az /\ current.el = target.el
    BY <1>3 DEF Changed
  <2> QED BY <1>2, <1>3, <2>1 DEF Line, Servos
<1>4. CASE d \notin Servos
  <2>1. current.laser = target.laser /\ d = "laser"
    BY <1>4 DEF Changed, Devices
  <2> QED BY <1>2, <2>1 DEF Line
<1> QED BY <1>3, <1>4

LEMMA UpdateKeeps == TurretInv /\ Update => TurretInv'
<1> SUFFICES ASSUME TurretInv, Update PROVE TurretInv'
  OBVIOUS
<1> USE DEF TurretInv, DevicesOK, OrdersOK
<1>1. NodeOK'
  <2>1. nodeUp' = ~ \E d \in Devices : Changed(d) /\ proc[d] = "dead"
    BY Zenon DEF Update
  <2> QED BY <2>1, Zenon DEF NodeOK
<1>2. /\ target' = target /\ proc' = proc /\ device' = device /\ current' = target
      /\ \A d \in Devices : Changed(d) => Len(pipe[d]) < MaxPipe
  BY DEF Update
<1>3. pipe' = [d \in Devices |-> IF Changed(d) /\ proc[d] = "up"
                                 THEN Append(pipe[d], Line(target, d)) ELSE pipe[d]]
  BY DEF Update
<1>4. ASSUME NEW d \in Devices
      PROVE  /\ pipe'[d] \in Seq(Pulse) /\ Len(pipe'[d]) <= MaxPipe
             /\ proc[d] # "up" => pipe'[d] = <<>>
             /\ proc[d] = "up" => Ahead(d)' = Line(target, d)
  <2>1. Line(target, d) \in Pulse /\ pipe[d] \in Seq(Pulse)
    BY LineIsPulse
  <2>2. CASE Changed(d) /\ proc[d] = "up"
    <3>1. pipe'[d] = Append(pipe[d], Line(target, d))
      BY <1>3, <2>2
    <3>2. /\ pipe'[d] \in Seq(Pulse) /\ pipe'[d] # <<>>
          /\ Len(pipe'[d]) = Len(pipe[d]) + 1 /\ pipe'[d][Len(pipe'[d])] = Line(target, d)
      BY <2>1, <3>1, AppendProperties
    <3>3. Len(pipe[d]) < MaxPipe /\ Len(pipe[d]) \in Nat
      BY <1>2, <2>1, <2>2, LenProperties
    <3> QED BY <2>2, <3>2, <3>3, PipeAssumption DEF Ahead
  <2>3. CASE Changed(d) /\ proc[d] # "up"
    BY <1>3, <2>1, <2>3
  <2>4. CASE ~Changed(d)
    <3>1. pipe'[d] = pipe[d]
      BY <1>3, <2>4
    <3>2. proc[d] = "up" => Ahead(d) = Line(target, d)
      BY <2>4, UnchangedSameLine
    <3> QED BY <1>2, <2>1, <3>1, <3>2 DEF Ahead
  <2> QED BY <2>2, <2>3, <2>4
<1>5. pipe' \in [Devices -> Seq(Pulse)]
  BY <1>3, <1>4
<1> QED BY <1>1, <1>2, <1>4, <1>5

\* A line that is read is the next thing the device does.
LEMMA ReadKeeps ==
    ASSUME TurretInv, NEW d \in Devices, Read(d)
    PROVE  TurretInv'
<1> USE DEF TurretInv, DevicesOK, OrdersOK
<1>1. NodeOK'
  <2>1. nodeUp' = nodeUp
    BY Zenon DEF Read
  <2> QED BY <2>1, Zenon DEF NodeOK
<1>2. /\ target' = target /\ proc' = proc /\ current' = current
      /\ proc[d] = "up" /\ pipe[d] # <<>> /\ pipe' = [pipe EXCEPT ![d] = Tail(@)]
  BY DEF Read
<1>3. /\ Head(pipe[d]) \in Pulse /\ Tail(pipe[d]) \in Seq(Pulse)
      /\ Len(Tail(pipe[d])) = Len(pipe[d]) - 1
      /\ \A i \in 1..Len(Tail(pipe[d])) : Tail(pipe[d])[i] = pipe[d][i + 1]
  BY <1>2, HeadTailProperties
<1>4. device' = [device EXCEPT ![d] = Head(pipe[d])]
  BY <1>3 DEF Read, Pulse
<1>5. device' \in [Devices -> (-Span)..Limp]
  BY <1>3, <1>4, ConfigAssumption DEF Pulse, Limp
<1>6. Len(pipe[d]) \in Nat \ {0} /\ Head(pipe[d]) = pipe[d][1]
  BY <1>2, LenProperties, EmptySeq
<1>7. Ahead(d)' = Ahead(d)
  <2>1. CASE Tail(pipe[d]) = <<>>
    <3>1. Len(Tail(pipe[d])) = 0 /\ Len(pipe[d]) = 1
      <4>1. Len(Tail(pipe[d])) = 0
        <5>1. Len(<<>>) = 0
          OBVIOUS
        <5> QED BY <2>1, <5>1
      <4>2. Len(Tail(pipe[d])) = Len(pipe[d]) - 1
        BY <1>3
      <4> QED BY <1>6, <4>1, <4>2
    <3> QED BY <1>2, <1>4, <1>6, <2>1, <3>1 DEF Ahead
  <2>2. CASE Tail(pipe[d]) # <<>>
    <3>1. Len(Tail(pipe[d])) \in Nat \ {0}
      BY <1>3, <2>2, LenProperties, EmptySeq
    <3>2. Tail(pipe[d])[Len(Tail(pipe[d]))] = pipe[d][Len(pipe[d])]
      BY <1>3, <1>6, <3>1
    <3> QED BY <1>2, <2>2, <3>2 DEF Ahead
  <2> QED BY <2>1, <2>2
<1>8. \A e \in Devices : Ahead(e)' = Ahead(e)
  <2> SUFFICES ASSUME NEW e \in Devices, e # d PROVE Ahead(e)' = Ahead(e)
    BY <1>7
  <2>1. pipe'[e] = pipe[e] /\ device'[e] = device[e]
    BY <1>2, <1>4
  <2> QED BY <2>1 DEF Ahead
<1>9. /\ pipe' \in [Devices -> Seq(Pulse)]
      /\ \A e \in Devices : Len(pipe'[e]) <= MaxPipe
      /\ \A e \in Devices : proc'[e] # "up" => pipe'[e] = <<>>
  BY <1>2, <1>3, <1>6, PipeAssumption
<1> QED BY <1>1, <1>2, <1>5, <1>8, <1>9

\* Every other step leaves the orders of the devices that live alone.
LEMMA TurretStep == TurretInv /\ [ControllerNext]_controllerVars => TurretInv'
<1> SUFFICES ASSUME TurretInv, [ControllerNext]_controllerVars PROVE TurretInv'
  OBVIOUS
<1> USE ConfigAssumption, PipeAssumption
<1>1. CASE Update
  BY <1>1, UpdateKeeps
<1>2. ASSUME NEW d \in Devices, Read(d) PROVE TurretInv'
  BY <1>2, ReadKeeps
<1>3. CASE Command
  <2>1. NodeOK'
    BY <1>3, Zenon DEF Command, TurretInv, NodeOK
  <2>2. target' \in Setting /\ UNCHANGED <<current, pipe, proc, device>>
    BY <1>3 DEF Command
  <2> QED BY <2>1, <2>2 DEF TurretInv, DevicesOK, OrdersOK, Ahead
<1>4. CASE NodeExit
  <2>1. nodeUp' = FALSE /\ UNCHANGED <<target, current, pipe, proc, device>>
    BY <1>4 DEF NodeExit
  <2> QED BY <2>1 DEF TurretInv, NodeOK, DevicesOK, OrdersOK, Ahead
<1>5. ASSUME NEW d \in Devices, ProcDies(d) \/ Exited(d) \/ ProcEnds(d) PROVE TurretInv'
  <2>1. NodeOK'
    BY <1>5, Zenon DEF ProcDies, Exited, ProcEnds, TurretInv, NodeOK
  <2>2. /\ target' = target /\ current' = current
        /\ \E p \in {"dead", "gone"} : proc' = [proc EXCEPT ![d] = p]
        /\ \/ pipe' = [pipe EXCEPT ![d] = <<>>]
           \/ pipe' = pipe /\ pipe[d] = <<>>
        /\ \/ device' = [device EXCEPT ![d] = Released(d)]
           \/ device' = [device EXCEPT ![d] = device[d]]
           \/ device' = device
    BY <1>5 DEF ProcDies, Exited, ProcEnds, TurretInv, OrdersOK
  <2>3. Released(d) \in (-Span)..Limp
    BY DEF Released, Limp
  <2>4. device' \in [Devices -> (-Span)..Limp] /\ proc' \in [Devices -> {"up", "dead", "gone"}]
    BY <2>2, <2>3 DEF TurretInv, DevicesOK
  <2>5. <<>> \in Seq(Pulse) /\ Len(<<>>) <= MaxPipe
    BY EmptySeq
  <2>6. pipe' \in [Devices -> Seq(Pulse)] /\ pipe'[d] = <<>>
    BY <2>2, <2>5 DEF TurretInv, DevicesOK
  <2>7. \A e \in Devices : e # d => pipe'[e] = pipe[e] /\ device'[e] = device[e] /\ proc'[e] = proc[e]
    BY <2>2 DEF TurretInv, DevicesOK
  <2>8. proc'[d] # "up"
    BY <2>2 DEF TurretInv, DevicesOK
  <2>9. \A e \in Devices : Len(pipe'[e]) <= MaxPipe /\ (proc'[e] # "up" => pipe'[e] = <<>>)
    BY <2>5, <2>6, <2>7 DEF TurretInv, DevicesOK, OrdersOK
  <2>10. ASSUME current' # Unset, NEW e \in Devices, proc'[e] = "up"
         PROVE  Ahead(e)' = Line(current', e)
    BY <2>2, <2>7, <2>8, <2>10 DEF TurretInv, OrdersOK, Ahead
  <2> QED BY <2>1, <2>2, <2>4, <2>6, <2>9, <2>10 DEF TurretInv, DevicesOK, OrdersOK
<1>6. CASE UNCHANGED controllerVars
  <2>1. nodeUp' = nodeUp /\ UNCHANGED <<target, current, pipe, proc, device>>
    BY <1>6 DEF controllerVars
  <2>2. NodeOK'
    BY <2>1, Zenon DEF TurretInv, NodeOK
  <2> QED BY <2>1, <2>2 DEF TurretInv, DevicesOK, OrdersOK, Ahead
<1> QED BY <1>1, <1>2, <1>3, <1>4, <1>5, <1>6 DEF ControllerNext

\* The last line on the way to a device, with what it does in front.
LEMMA AheadIsLast ==
    ASSUME DevicesOK, NEW d \in Devices
    PROVE  LET lines == <<device[d]>> \o pipe[d] IN lines[Len(lines)] = Ahead(d)
<1> DEFINE one == <<device[d]>>
<1>1. one \in Seq(Int) /\ Len(one) = 1 /\ one[1] = device[d]
  <2>1. device[d] \in Int
    BY ConfigAssumption DEF DevicesOK, Limp
  <2> QED BY <2>1
<1>2. pipe[d] \in Seq(Int) /\ Len(pipe[d]) \in Nat
  <2>1. pipe[d] \in Seq(Pulse) /\ Pulse \subseteq Int
    BY ConfigAssumption DEF DevicesOK, Pulse
  <2> QED BY <2>1, SeqMonotonic, LenProperties
<1>3. /\ Len(one \o pipe[d]) = Len(one) + Len(pipe[d])
      /\ \A i \in 1..(Len(one) + Len(pipe[d])) :
           (one \o pipe[d])[i] = IF i <= Len(one) THEN one[i] ELSE pipe[d][i - Len(one)]
  BY <1>1, <1>2, ConcatProperties
<1>4. CASE pipe[d] = <<>>
  <2>1. Len(pipe[d]) = 0
    BY <1>4
  <2> QED BY <1>1, <1>3, <1>4, <2>1 DEF Ahead
<1>5. CASE pipe[d] # <<>>
  <2>1. Len(pipe[d]) > 0
    BY <1>2, <1>5, EmptySeq
  <2> QED BY <1>1, <1>2, <1>3, <1>5, <2>1 DEF Ahead
<1> QED BY <1>4, <1>5

\* The variables of TurretController have their types: no line is outside what
\* gpiozero accepts, and no pipe grows beyond its bound.
THEOREM TurretTypes == ControllerSpec => []ControllerTypeOK
<1>1. TurretInv => ControllerTypeOK
  BY DEF TurretInv, NodeOK, DevicesOK, ControllerTypeOK, Pulse
<1>2. ControllerSpec => []TurretInv
  BY TurretInit, TurretStep, PTL DEF ControllerSpec
<1> QED BY <1>1, <1>2, PTL

\* What update has written is what each live device does or will do last.
THEOREM OrdersArrive == ControllerSpec => []NothingLost
<1>1. TurretInv => NothingLost
  <2> SUFFICES ASSUME TurretInv, current # Unset, NEW d \in Devices, proc[d] = "up"
               PROVE  LET lines == <<device[d]>> \o pipe[d]
                      IN  lines[Len(lines)] = Line(current, d)
    BY DEF NothingLost
  <2>1. Ahead(d) = Line(current, d)
    BY DEF TurretInv, OrdersOK
  <2> QED BY <2>1, AheadIsLast DEF TurretInv
<1>2. ControllerSpec => []TurretInv
  BY TurretInit, TurretStep, PTL DEF ControllerSpec
<1> QED BY <1>1, <1>2, PTL
====
