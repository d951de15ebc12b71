---- MODULE CameraFeed ----
(***************************************************************************)
(* The way of a picture from mjpg_streamer to a browser page: app.js       *)
(* spawns the streamer; every 33 ms socketIOController.js fetches a        *)
(* snapshot from it, with no regard to the fetches that are outstanding,   *)
(* and emits what comes to the pages; a page draws what it has decoded.    *)
(* Node may end, alone or with everything its service started, and be      *)
(* started again, while a streamer it spawned still lives.                 *)
(***************************************************************************)
EXTENDS Integers, FiniteSets

CONSTANTS
    Fetches,    \* bound: fetches outstanding at a time
    Pages,      \* browser tabs
    Last,       \* bound: pictures beyond this one look like it
    MaxDecoding,\* bound: pictures a page decodes at a time
    MaxDeaths   \* bound: deaths of Node or the streamer

ASSUME CameraFeedAssumption ==
    /\ IsFiniteSet(Fetches) /\ Fetches # {}
    /\ Last \in Nat \ {0}
    /\ MaxDecoding \in Nat \ {0}
    /\ MaxDeaths \in Nat

VARIABLES
    node,      \* whether Node runs, with its timer
    starting,  \* streamers that were spawned and are initialising
    serving,   \* whether a streamer has the camera and port 5555
    camera,    \* whether its camera thread runs
    newest,    \* the latest picture it published
    fetch,     \* what becomes of each fetch, the picture there was when it was
               \* sent (history), and the picture it was answered with
    open,      \* pages with a socket
    decoding,  \* what each page is decoding: pictures, and asked of their fetch
    deaths     \* deaths so far (history)

feedVars == <<node, starting, serving, camera, newest, fetch, open, decoding, deaths>>

Pictures == 0..Last
Away == [at |-> "away", asked |-> 0, picture |-> 0]
Emitted == [asked : Pictures, picture : Pictures]

FeedTypeOK ==
    /\ {node, serving, camera} \subseteq BOOLEAN
    /\ starting \in 0..(MaxDeaths + 1)
    /\ newest \in Pictures
    /\ fetch \in [Fetches -> [at : {"away", "sent", "waiting", "woken", "answered", "failed"},
                              asked : Pictures, picture : Pictures]]
    /\ open \subseteq Pages
    /\ \A p \in Pages : decoding[p] \subseteq Emitted /\ Cardinality(decoding[p]) <= MaxDecoding
    /\ deaths \in 0..MaxDeaths

FeedInit ==
    /\ node = FALSE
    /\ starting = 0
    /\ serving = FALSE
    /\ camera = FALSE
    /\ newest = 0
    /\ fetch = [f \in Fetches |-> Away]
    /\ open = {}
    /\ decoding = [p \in Pages |-> {}]
    /\ deaths = 0

-----------------------------------------------------------------------------
(* The streamers.                                                          *)

\* One that finds nobody else with the device and the port serves.
StreamerServes ==
    /\ starting > 0
    /\ ~serving
    /\ starting' = starting - 1
    /\ serving' = TRUE
    /\ camera' = TRUE
    /\ UNCHANGED <<node, newest, fetch, open, decoding, deaths>>

\* Another has them: input_init or bind fails, the process exits, and Node logs
\* the exit code if it is the parent.
StreamerExits ==
    /\ starting > 0
    /\ serving
    /\ starting' = starting - 1
    /\ UNCHANGED <<node, serving, camera, newest, fetch, open, decoding, deaths>>

\* Its connections break with it; nobody starts another.
Broken == [f \in Fetches |->
    IF fetch[f].at \in {"waiting", "woken"} THEN [fetch[f] EXCEPT !.at = "failed"] ELSE fetch[f]]
StreamerDies ==
    /\ serving
    /\ deaths < MaxDeaths
    /\ deaths' = deaths + 1
    /\ serving' = FALSE
    /\ camera' = FALSE
    /\ fetch' = Broken
    /\ UNCHANGED <<node, starting, newest, open, decoding>>

\* The camera thread ends; the HTTP server goes on and nobody is woken again.
CameraLost ==
    /\ camera
    /\ deaths < MaxDeaths
    /\ deaths' = deaths + 1
    /\ camera' = FALSE
    /\ UNCHANGED <<node, starting, serving, newest, fetch, open, decoding>>

\* The camera thread publishes a picture and wakes the threads that wait.
Publish ==
    /\ camera
    /\ newest' = IF newest < Last THEN newest + 1 ELSE Last
    /\ fetch' = [f \in Fetches |->
                   IF fetch[f].at = "waiting" THEN [fetch[f] EXCEPT !.at = "woken"] ELSE fetch[f]]
    /\ UNCHANGED <<node, starting, serving, camera, open, decoding, deaths>>

\* mutant: send_snapshot does not wait for the next picture
ConnectToOld(f) ==
    /\ fetch[f].at = "sent"
    /\ fetch' = [fetch EXCEPT ![f].at = IF serving THEN "woken" ELSE "failed"]
    /\ UNCHANGED <<node, starting, serving, camera, newest, open, decoding, deaths>>

\* The request reaches send_snapshot, which waits for the next picture, or finds
\* nobody at the port.
Connect(f) ==
    /\ fetch[f].at = "sent"
    /\ fetch' = [fetch EXCEPT ![f].at = IF serving THEN "waiting" ELSE "failed"]
    /\ UNCHANGED <<node, starting, serving, camera, newest, open, decoding, deaths>>

\* A thread that was woken copies the picture there is by then, and sends it.
Answer(f) ==
    /\ fetch[f].at = "woken"
    /\ fetch' = [fetch EXCEPT ![f].at = "answered", ![f].picture = newest]
    /\ UNCHANGED <<node, starting, serving, camera, newest, open, decoding, deaths>>

-----------------------------------------------------------------------------
(* Node.                                                                   *)

\* app.js: spawn the streamer, start the server and its timer.
StartNode ==
    /\ ~node
    /\ node' = TRUE
    /\ starting' = starting + 1
    /\ UNCHANGED <<serving, camera, newest, fetch, open, decoding, deaths>>

\* setInterval: fetchCameraSnapshot.
Tick ==
    /\ node
    /\ \E f \in Fetches :
         /\ fetch[f].at = "away"
         /\ fetch' = [fetch EXCEPT ![f] = [at |-> "sent", asked |-> newest, picture |-> 0]]
    /\ UNCHANGED <<node, starting, serving, camera, newest, open, decoding, deaths>>

Room(p) == Cardinality(decoding[p]) < MaxDecoding

\* mutant: the rejection is not caught, and the fetch never ends
SettleOnlyGood(f) ==
    /\ fetch[f].at = "answered"
    /\ \A p \in open : Room(p)
    /\ fetch' = [fetch EXCEPT ![f] = Away]
    /\ decoding' = [p \in Pages |->
         IF p \in open THEN decoding[p] \cup {[asked |-> fetch[f].asked, picture |-> fetch[f].picture]}
                       ELSE decoding[p]]
    /\ UNCHANGED <<node, starting, serving, camera, newest, open, deaths>>

\* The promise settles: the picture is emitted to every page that is connected,
\* an error is logged.
Settle(f) ==
    /\ fetch[f].at \in {"answered", "failed"}
    /\ fetch[f].at = "answered" => \A p \in open : Room(p)
    /\ fetch' = [fetch EXCEPT ![f] = Away]
    /\ decoding' = [p \in Pages |->
         IF p \in open /\ fetch[f].at = "answered"
         THEN decoding[p] \cup {[asked |-> fetch[f].asked, picture |-> fetch[f].picture]}
         ELSE decoding[p]]
    /\ UNCHANGED <<node, starting, serving, camera, newest, open, deaths>>

\* Node ends, as it does when it was started by hand: its fetches and sockets end
\* with it, the streamer lives on.
NodeDies ==
    /\ node
    /\ deaths < MaxDeaths
    /\ deaths' = deaths + 1
    /\ node' = FALSE
    /\ fetch' = [f \in Fetches |-> Away]
    /\ open' = {}
    /\ UNCHANGED <<starting, serving, camera, newest, decoding>>

\* The service is stopped: systemd ends all processes it started.
ServiceStops ==
    /\ node
    /\ deaths < MaxDeaths
    /\ deaths' = deaths + 1
    /\ node' = FALSE
    /\ starting' = 0
    /\ serving' = FALSE
    /\ camera' = FALSE
    /\ fetch' = [f \in Fetches |-> Away]
    /\ open' = {}
    /\ UNCHANGED <<newest, decoding>>

-----------------------------------------------------------------------------
(* The pages.                                                              *)

\* A socket is opened, and opened again after it broke or Node was away.
OpenPage(p) ==
    /\ node
    /\ p \notin open
    /\ open' = open \cup {p}
    /\ UNCHANGED <<node, starting, serving, camera, newest, fetch, decoding, deaths>>

\* A socket breaks, or its tab is closed with what it was decoding.
ClosePage(p) ==
    /\ p \in open
    /\ open' = open \ {p}
    /\ \E left \in {decoding[p], {}} : decoding' = [decoding EXCEPT ![p] = left]
    /\ UNCHANGED <<node, starting, serving, camera, newest, fetch, deaths>>

\* img.onload: pictures that are decoded at the same time are drawn in any order.
Draw(p) ==
    /\ \E e \in decoding[p] : decoding' = [decoding EXCEPT ![p] = @ \ {e}]
    /\ UNCHANGED <<node, starting, serving, camera, newest, fetch, open, deaths>>

FeedNext ==
    \/ StreamerServes \/ StreamerExits \/ StreamerDies \/ CameraLost \/ Publish
    \/ StartNode \/ Tick \/ NodeDies \/ ServiceStops
    \/ \E f \in Fetches : Connect(f) \/ Answer(f) \/ Settle(f)
    \/ \E p \in Pages : OpenPage(p) \/ ClosePage(p) \/ Draw(p)

FeedSpec == FeedInit /\ [][FeedNext]_feedVars

\* The camera delivers, the timer fires, messages and answers arrive, a page draws
\* what it has. A streamer's start comes to an end. Nobody must start Node, whose
\* service has no Restart=, nor open a page.
FairFeedSpec ==
    /\ FeedSpec
    /\ WF_feedVars(StreamerServes \/ StreamerExits)
    /\ WF_feedVars(Publish) /\ WF_feedVars(Tick)
    /\ \A f \in Fetches : WF_feedVars(Connect(f) \/ Answer(f)) /\ SF_feedVars(Settle(f))
    /\ \A p \in Pages : WF_feedVars(Draw(p))

-----------------------------------------------------------------------------
Newer(a, b) == a > b \/ (a = Last /\ b = Last)

\* Whatever overtakes what, a page never draws a picture that was there already
\* when its fetch was sent: pictures go back in time only among fetches that were
\* outstanding together (setInterval and fetchCameraSnapshot). And the variables
\* have their types.
DrawsOnlyNewer ==
    /\ FeedTypeOK
    /\ \A f \in Fetches : fetch[f].at = "answered" => Newer(fetch[f].picture, fetch[f].asked)
    /\ \A p \in Pages : \A e \in decoding[p] : Newer(e.picture, e.asked)

\* While Node, a streamer with its camera and a page's socket are there, the page
\* keeps drawing, whatever died before: also when Node was started again beside a
\* streamer that had outlived it, whose port makes the new one exit. And a fetch
\* is left hanging only by a streamer that has lost its camera (setInterval and
\* fetchCameraSnapshot against send_snapshot, which waits with no timeout).
PicturesKeepComing ==
    /\ \A p \in Pages : <>[](node /\ camera /\ p \in open) => []<><<Draw(p)>>_feedVars
    /\ \A f \in Fetches : fetch[f].at # "away" ~> (fetch[f].at = "away" \/ (serving /\ ~camera))
====
