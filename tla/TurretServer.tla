---- MODULE TurretServer ----
(***************************************************************************)
(* The turret server of socketIOController.js with the browser pages that  *)
(* steer it. Node runs one handler or timer at a time, so each is one      *)
(* action. What runs at the same time are the pages, the messages on their *)
(* way, and the idle handler. What the turret does with its targets is in  *)
(* TurretController.                                                       *)
(***************************************************************************)
EXTENDS TurretConfig, FiniteSets

CONSTANTS
    Pages,      \* browser tabs
    NoPage,     \* "the server itself": start or idle handler
    Pointer,    \* where the mouse points, as angles before clamping
    Timeout,    \* config.laser.timeout, in ticks
    MaxUp,      \* bound: messages of one page on their way
    MaxGhosts   \* bound: sockets whose page is gone and the server unaware

ASSUME ServerAssumption ==
    /\ NoPage \notin Pages /\ IsFiniteSet(Pages)
    /\ Pointer \subseteq [az : Int, el : Int]
    /\ Timeout \in Nat \ {0}
    /\ MaxUp \in Nat /\ MaxUp >= 2
    /\ MaxGhosts \in Nat \ {0}

VARIABLES
    link,        \* each page's socket: "closed" tab, "cut" (reconnecting), "open"
    greet,       \* each page's next duty: receive "config", its "timer", or "no"
    ui,          \* each page's Turret object: angles, tracking, laserState
    up,          \* messages from each page, sent or buffered by socket.io
    clientCount,
    ghosts,      \* sockets counted in clientCount whose page is gone
    age,         \* time since lastActivity, up to Timeout
    aimBy,       \* who set the target angles last (history)
    laserBy      \* who set the target laser state last (history)

pageVars   == <<link, greet, ui, up>>
serverVars == <<target, clientCount, ghosts, age, aimBy, laserBy>>
steeringVars == <<pageVars, serverVars>>

\* What the page shows before it has a Turret.
Blank == [made |-> FALSE, az |-> Azimuth.default, el |-> Elevation.default,
          tracking |-> FALSE, laser |-> "off"]

\* new Turret: default angles, not tracking, laser off.
NewTurret == [Blank EXCEPT !.made = TRUE]

Message == [kind : {"angles"}, az : 0..Span, el : 0..Span] \cup
           [kind : {"laser_state"}, laser : Lamp]

ServerTypeOK ==
    /\ target \in Setting
    /\ link \in [Pages -> {"closed", "cut", "open"}]
    /\ greet \in [Pages -> {"config", "timer", "no"}]
    /\ ui \in [Pages -> [made : BOOLEAN, az : 0..Span, el : 0..Span, tracking : BOOLEAN, laser : Lamp]]
    /\ \A c \in Pages : up[c] \in Seq(Message) /\ Len(up[c]) <= MaxUp
    /\ ghosts \in 0..MaxGhosts
    /\ clientCount \in Nat
    /\ age \in 0..Timeout
    /\ aimBy \in Pages \cup {NoPage}
    /\ laserBy \in Pages \cup {NoPage}

ServerInit ==
    /\ target = Default
    /\ link = [c \in Pages |-> "closed"]
    /\ greet = [c \in Pages |-> "no"]
    /\ ui = [c \in Pages |-> Blank]
    /\ up = [c \in Pages |-> <<>>]
    /\ clientCount = 0
    /\ ghosts = 0
    /\ age = 0
    /\ aimBy = NoPage
    /\ laserBy = NoPage

-----------------------------------------------------------------------------
(* The pages, public/.                                                     *)

\* mutant: only angle_max is looked at
ClampAbove(a, axis) == IF a > axis.max THEN axis.max ELSE a

Clamp(a, axis) == IF a > axis.max THEN axis.max ELSE IF a < axis.min THEN axis.min ELSE a

\* onUpdate: 'angles' and 'laser_state' are two messages; socket.io keeps them
\* while the page is cut off.
Sends(c, u) ==
    /\ Len(up[c]) + 2 <= MaxUp
    /\ up' = [up EXCEPT ![c] = @ \o
                << [kind |-> "angles", az |-> u.az, el |-> u.el],
                   [kind |-> "laser_state", laser |-> u.laser] >>]

\* mutant: 'config' leaves the page without its first onUpdate
ConfigSilent(c) ==
    /\ link[c] = "open"
    /\ greet[c] = "config"
    /\ ui' = [ui EXCEPT ![c] = NewTurret]
    /\ greet' = [greet EXCEPT ![c] = "no"]
    /\ UNCHANGED <<serverVars, link, up>>

\* The page receives 'config': a new Turret, whose first onUpdate is due.
Config(c) ==
    /\ link[c] = "open"
    /\ greet[c] = "config"
    /\ ui' = [ui EXCEPT ![c] = NewTurret]
    /\ greet' = [greet EXCEPT ![c] = "timer"]
    /\ UNCHANGED <<serverVars, link, up>>

\* setTimeout(() => this.onUpdate(), 0).
FirstUpdate(c) ==
    /\ greet[c] = "timer"
    /\ Sends(c, ui[c])
    /\ greet' = [greet EXCEPT ![c] = "no"]
    /\ UNCHANGED <<serverVars, link, ui>>

Flip(lamp) == IF lamp = "on" THEN "off" ELSE "on"

\* onKeyboardInput: SPACE toggles tracking and SHIFT the laser, at every key
\* event while they are held.
Keyboard(c) ==
    /\ ui[c].made
    /\ \E keys \in SUBSET {" ", "SHIFT"} :
          /\ keys # {}
          /\ ui' = [ui EXCEPT
                ![c].tracking = IF " " \in keys THEN ~@ ELSE @,
                ![c].laser    = IF "SHIFT" \in keys THEN Flip(@) ELSE @]
          /\ Sends(c, ui'[c])
    /\ UNCHANGED <<serverVars, link, greet>>

\* onMouseInput: the angles follow the pointer while tracking.
MouseMove(c) ==
    /\ ui[c].made
    /\ ui[c].tracking
    /\ \E p \in Pointer :
          /\ ui' = [ui EXCEPT ![c].az = Clamp(p.az, Azimuth),
                              ![c].el = Clamp(p.el, Elevation)]
          /\ ui' # ui
          /\ Sends(c, ui'[c])
    /\ UNCHANGED <<serverVars, link, greet>>

-----------------------------------------------------------------------------
(* Sockets. socket.io keeps each socket's messages in order, loses what was *)
(* on its way when the connection breaks, and tells the server of a dead    *)
(* connection only later.                                                   *)

\* io.on('connection'): a page opens or reconnects. Its buffered messages
\* follow. (A reconnection takes longer than a timer of 0 ms.)
Connect(c) ==
    /\ link[c] # "open"
    /\ greet[c] # "timer"
    /\ link' = [link EXCEPT ![c] = "open"]
    /\ greet' = [greet EXCEPT ![c] = "config"]
    /\ clientCount' = clientCount + 1
    /\ UNCHANGED <<target, ui, up, ghosts, age, aimBy, laserBy>>

\* The connection of a page breaks.
Cut(c) ==
    /\ link[c] = "open"
    /\ ghosts < MaxGhosts
    /\ link' = [link EXCEPT ![c] = "cut"]
    /\ greet' = [greet EXCEPT ![c] = IF @ = "config" THEN "no" ELSE @]
    /\ up' = [up EXCEPT ![c] = <<>>]
    /\ ghosts' = ghosts + 1
    /\ UNCHANGED <<target, ui, clientCount, age, aimBy, laserBy>>

\* The tab is closed.
Close(c) ==
    /\ link[c] # "closed"
    /\ link[c] = "open" => ghosts < MaxGhosts
    /\ link' = [link EXCEPT ![c] = "closed"]
    /\ greet' = [greet EXCEPT ![c] = "no"]
    /\ ui' = [ui EXCEPT ![c] = Blank]
    /\ up' = [up EXCEPT ![c] = <<>>]
    /\ ghosts' = IF link[c] = "open" THEN ghosts + 1 ELSE ghosts
    /\ UNCHANGED <<target, clientCount, age, aimBy, laserBy>>

\* socket.on('disconnect').
Disconnect ==
    /\ ghosts > 0
    /\ ghosts' = ghosts - 1
    /\ clientCount' = clientCount - 1
    /\ UNCHANGED <<target, pageVars, age, aimBy, laserBy>>

-----------------------------------------------------------------------------
(* The server's handlers and timers.                                       *)

\* What the server makes of an angle: clamped, then inverted if configured.
Aimed(a, axis) == LET b == Clamp(a, axis) IN IF axis.inverted THEN Span - b ELSE b

Receives(c, kind) ==
    /\ link[c] = "open"
    /\ up[c] # <<>>
    /\ Head(up[c]).kind = kind
    /\ up' = [up EXCEPT ![c] = Tail(@)]
    /\ age' = 0

\* socket.on('angles').
Angles(c) ==
    /\ Receives(c, "angles")
    /\ target' = [target EXCEPT !.az = Aimed(Head(up[c]).az, Azimuth),
                                !.el = Aimed(Head(up[c]).el, Elevation)]
    /\ aimBy' = c
    /\ UNCHANGED <<link, greet, ui, clientCount, ghosts, laserBy>>

\* socket.on('laser_state').
LaserState(c) ==
    /\ Receives(c, "laser_state")
    /\ target' = [target EXCEPT !.laser = Head(up[c]).laser]
    /\ laserBy' = c
    /\ UNCHANGED <<link, greet, ui, clientCount, ghosts, aimBy>>

\* mutant: the idle handler looks at the clock only while somebody is there
IdleOnlyDeserted ==
    /\ clientCount <= 0
    /\ target' = Default
    /\ aimBy' = NoPage
    /\ laserBy' = NoPage
    /\ UNCHANGED <<pageVars, clientCount, ghosts, age>>

\* The 100 ms timer. The default angles are not inverted.
IdleHandler ==
    /\ age >= Timeout \/ clientCount <= 0
    /\ target' = Default
    /\ aimBy' = NoPage
    /\ laserBy' = NoPage
    /\ UNCHANGED <<pageVars, clientCount, ghosts, age>>

Tick ==
    /\ age < Timeout
    /\ age' = age + 1
    /\ UNCHANGED <<target, pageVars, clientCount, ghosts, aimBy, laserBy>>

ServerNext ==
    \/ \E c \in Pages :
          \/ Config(c) \/ FirstUpdate(c) \/ Keyboard(c) \/ MouseMove(c)
          \/ Connect(c) \/ Cut(c) \/ Close(c)
          \/ Angles(c) \/ LaserState(c)
    \/ Disconnect \/ IdleHandler \/ Tick

ServerSpec == ServerInit /\ [][ServerNext]_steeringVars

\* Timers fire, messages arrive while the link holds, a dead connection is
\* noticed. Nobody is obliged to connect, steer or fail.
FairServerSpec ==
    /\ ServerSpec
    /\ WF_steeringVars(Tick)
    /\ WF_steeringVars(IdleHandler)
    /\ WF_steeringVars(Disconnect)
    /\ \A c \in Pages : WF_steeringVars(Config(c)) /\ WF_steeringVars(Angles(c) \/ LaserState(c))

-----------------------------------------------------------------------------

\* A page that commanded last, and whose messages have all arrived, shows what
\* the turret was told, though angles and laser state travel apart, pages
\* reconnect with a new Turret, and others and the idle handler interfere
\* (onUpdate in main.js against the handlers of socketIOController.js). And the
\* variables have their types.
ShowsWhatItCommanded ==
    /\ ServerTypeOK
    /\ \A c \in Pages :
         link[c] = "open" /\ greet[c] = "no" /\ up[c] = <<>> =>
             /\ aimBy = c => /\ target.az = Aimed(ui[c].az, Azimuth)
                             /\ target.el = Aimed(ui[c].el, Elevation)
             /\ laserBy = c => target.laser = ui[c].laser

\* Unless commands keep coming, the turret is told its defaults, laser included:
\* after the timeout, and after the last page has left, however it left.
SettlesWhenIdle == []<>(age = 0) \/ <>[](target = Default)
====
