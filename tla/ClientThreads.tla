--------------------------- MODULE ClientThreads ----------------------------
(***************************************************************************)
(* The client's two threads.  The logic thread runs the reactor: its timer *)
(* reads the UDP socket and queues the battle's states, MATCHED2 opens the *)
(* socket, and scene messages load what the render thread draws.  The      *)
(* render thread, frame after frame, applies one queued state, closes the  *)
(* socket when that ends the battle, waits for the sign that it may draw,  *)
(* draws, and quits the app when the user asks for it.  They share the     *)
(* context with no lock but the ring buffer's: two flags keep frames and   *)
(* loads apart, and the pointer of the socket is read where it is needed.  *)
(***************************************************************************)
EXTENDS RingBuffer

CONSTANTS
  Play, Over,  \* a state of a battle that goes on, or has ended
  KeepBelow,   \* states are dropped while there are this many (6)
  MaxLate      \* bound: states from before the end that arrive after it

ASSUME ThreadsAssumption ==
  /\ Items = {Play, Over} /\ Play # Over
  /\ KeepBelow \in Nat \ {0} /\ MaxLate \in Nat

VARIABLES
  \* Shared by the threads.
  safe,       \* safe_to_start_render
  rendering,  \* rendering
  quit,       \* quit_request
  udp,        \* is pLwc->udp a socket (or null)
  ready,      \* udp->ready
  ring,       \* udp->state2_ring_buffer
  carried,    \* udp->state_ring_buffer, which holds one state at the most
  phase,      \* puck_game_state.bf.phase
  \* Of one thread.
  logic,      \* where s_logic_worker is
  render,     \* where the render thread is
  slipped,    \* a frame had passed the gate when the present load began
  \* Outside.
  asked,      \* the user has asked to quit: QUITAPP is in the render queue
  queued,     \* the match server has this client in its queue
  ended,      \* the battle has ended on the battle server
  late,       \* late states so far
  crashed     \* the process has used a socket that is gone

gateVars == <<safe, rendering, slipped>>
socketVars == <<udp, ready, ring, carried, phase>>
quitVars == <<quit, asked>>
serverVars == <<queued, ended, late>>
vars == <<gateVars, socketVars, quitVars, serverVars, logic, render, crashed>>

TypeOK ==
  /\ safe \in BOOLEAN /\ rendering \in BOOLEAN /\ slipped \in BOOLEAN
  /\ quit \in BOOLEAN /\ asked \in BOOLEAN
  /\ udp \in BOOLEAN /\ ready \in BOOLEAN
  /\ ring \in Ring /\ carried \in {<<>>} \cup {<<x>> : x \in Items} /\ phase \in Items
  /\ logic \in {"loop", "udp", "wait", "field", "again", "load", "ended"}
  /\ render \in {"idle", "drop", "take", "apply", "gate", "passed", "frame",
                 "join", "gone"}
  /\ queued \in BOOLEAN /\ ended \in BOOLEAN /\ late \in 0 .. MaxLate
  /\ crashed \in BOOLEAN

Init ==
  /\ safe = FALSE /\ rendering = FALSE /\ slipped = FALSE
  /\ quit = FALSE /\ asked = FALSE
  /\ udp = FALSE /\ ready = FALSE /\ ring = NewRing(Play) /\ carried = <<>>
  /\ phase = Play
  /\ logic = "wait" /\ render = "idle"  \* for the first scene
  /\ queued = FALSE /\ ended = FALSE /\ late = 0 /\ crashed = FALSE

Alive == ~crashed /\ render # "gone"

-----------------------------------------------------------------------------
(* The logic thread.                                                       *)

LogicAt(pc, next) == Alive /\ logic = pc /\ logic' = next

\* The user starts an online battle; the script clears the last one's state.
Online ==
  /\ LogicAt("loop", "loop") /\ ~queued /\ (udp => ~ready)
  /\ queued' = TRUE /\ phase' = Play
  /\ UNCHANGED <<gateVars, udp, ready, ring, carried, quitVars, ended, late,
                 render, crashed>>

\* MATCHED2 opens a socket, whatever became of the last one.
Matched2 ==
  /\ LogicAt("loop", "loop") /\ queued /\ ~quit
  /\ udp' = TRUE /\ ready' = TRUE /\ ring' = NewRing(Play) /\ carried' = <<>>
  /\ queued' = FALSE /\ ended' = FALSE /\ late' = 0
  /\ UNCHANGED <<gateVars, phase, quitVars, render, crashed>>

\* RETRYQUEUELATER looks like the end of a battle.
RetryQueueLater ==
  /\ LogicAt("loop", "loop") /\ queued /\ ~quit
  /\ queued' = FALSE /\ phase' = Over
  /\ UNCHANGED <<gateVars, udp, ready, ring, carried, quitVars, ended, late,
                 render, crashed>>

\* The timer: lwc_update calls udp_update for the socket there is, ...
UdpUpdate ==
  /\ LogicAt("loop", "udp") /\ ~quit /\ udp /\ ready
  /\ UNCHANGED <<gateVars, socketVars, quitVars, serverVars, render, crashed>>

\* ... which queues each STATE2 in the socket there is then ...
UdpState(x) ==
  /\ LogicAt("udp", "udp") /\ udp
  /\ IF x = Over THEN ended /\ UNCHANGED late
     ELSE IF ended THEN late < MaxLate /\ late' = late + 1 ELSE UNCHANGED late
  /\ ring' = Put(ring, x)
  /\ UNCHANGED <<gateVars, udp, ready, carried, phase, quitVars, queued, ended,
                 render, crashed>>

\* ... and the render thread may have freed it: select, recvfrom or the queue may
\* crash on memory that is freed or on a null pointer ...
UdpGone ==
  /\ LogicAt("udp", "udp") /\ ~udp
  /\ crashed' = TRUE
  /\ UNCHANGED <<gateVars, socketVars, quitVars, serverVars, render>>

\* recvfrom fails: "Socket recovery needed".
UdpError ==
  /\ LogicAt("udp", "loop") /\ udp
  /\ ready' = FALSE
  /\ UNCHANGED <<gateVars, udp, ring, carried, phase, quitVars, serverVars,
                 render, crashed>>

\* ... or select fails on the closed socket, which ends the update as having
\* nothing more to read does.
UdpDone ==
  /\ LogicAt("udp", "loop")
  /\ UNCHANGED <<gateVars, socketVars, quitVars, serverVars, render, crashed>>

\* Fault: new frames are not stopped.
StopFramesNot == UNCHANGED safe
StopFrames == safe' = FALSE

\* A scene message: INITFIELD, INITSCENE or RESETRUNTIMECONTEXT.
SceneMessage ==
  /\ LogicAt("loop", "wait") /\ StopFrames
  /\ slipped' = (render = "passed")
  /\ UNCHANGED <<rendering, socketVars, quitVars, serverVars, render, crashed>>

\* The busy wait ends; INITFIELD loads the field now.
NoFrame ==
  /\ logic = "wait" /\ ~rendering
  /\ LogicAt("wait", "field") \/ LogicAt("wait", "again")
  /\ UNCHANGED <<gateVars, socketVars, quitVars, serverVars, render, crashed>>

FieldLoaded ==
  /\ LogicAt("field", "again")
  /\ UNCHANGED <<gateVars, socketVars, quitVars, serverVars, render, crashed>>

\* reset_runtime_context stops the frames once more, and waits.
NoFrameAgain ==
  /\ LogicAt("again", "load") /\ ~rendering /\ StopFrames
  /\ UNCHANGED <<rendering, slipped, socketVars, quitVars, serverVars, render, crashed>>

Loaded ==
  /\ LogicAt("load", "loop")
  /\ safe' = TRUE /\ slipped' = FALSE
  /\ UNCHANGED <<rendering, socketVars, quitVars, serverVars, render, crashed>>

\* Fault: the timer looks at quit_request only while no battle is on.
QuitSeenIdle == quit /\ ~udp
QuitSeen == quit

\* The timer ends the reactor.
LoopEnds ==
  /\ LogicAt("loop", "ended") /\ QuitSeen
  /\ UNCHANGED <<gateVars, socketVars, quitVars, serverVars, render, crashed>>

-----------------------------------------------------------------------------
(* The render thread.                                                      *)

RenderAt(pc, next) == Alive /\ render = pc /\ render' = next

\* lwc_prerender_mutable_context.  (It reads the socket, ready and the size of the
\* ring one after the other; whatever the logic thread does in between, the frame
\* goes on as if it had read them all before or all after.)
Prerender ==
  /\ render = "idle"
  /\ IF udp /\ ready /\ ~IsEmpty(ring)
     THEN RenderAt("idle", "drop") ELSE RenderAt("idle", "gate")
  /\ UNCHANGED <<gateVars, socketVars, quitVars, serverVars, logic, crashed>>

\* States the client is late for are dropped.
Drop ==
  /\ render = "drop"
  /\ IF Size(ring) >= KeepBelow
     THEN RenderAt("drop", "drop") /\ ring' = Take(ring)
     ELSE RenderAt("drop", "take") /\ UNCHANGED ring
  /\ UNCHANGED <<gateVars, udp, ready, carried, phase, quitVars, serverVars,
                 logic, crashed>>

\* One state goes to the other ring.  There may be none: another socket.
TakeState ==
  /\ RenderAt("take", "apply")
  /\ IF IsEmpty(ring) THEN UNCHANGED <<ring, carried>>
     ELSE ring' = Take(ring) /\ carried' = <<Oldest(ring)>>
  /\ UNCHANGED <<gateVars, udp, ready, phase, quitVars, serverVars, logic, crashed>>

\* Fault: the old state is overwritten first, and the new one compared to itself.
EndsBattleOverwritten(x) == x = Play /\ x = Over
EndsBattle(x) == phase = Play /\ x = Over

\* And is applied.  The one that ends the battle closes the socket.
Apply ==
  /\ RenderAt("apply", "gate")
  /\ IF carried = <<>> THEN UNCHANGED <<udp, ring, carried, phase>>
     ELSE /\ phase' = carried[1] /\ carried' = <<>>
          /\ IF EndsBattle(carried[1])
             THEN udp' = FALSE /\ ring' = NewRing(Play)
             ELSE UNCHANGED <<udp, ring>>
  /\ UNCHANGED <<gateVars, ready, quitVars, serverVars, logic, crashed>>

\* lwc_render: the busy wait for the sign, ...
Gate ==
  /\ RenderAt("gate", "passed") /\ safe
  /\ UNCHANGED <<gateVars, socketVars, quitVars, serverVars, logic, crashed>>

\* ... then the flag, ...
StartFrame ==
  /\ RenderAt("passed", "frame") /\ rendering' = TRUE
  /\ UNCHANGED <<safe, slipped, socketVars, quitVars, serverVars, logic, crashed>>

\* ... QUITAPP, if it has come, whose handler waits for the logic thread, ...
QuitApp ==
  /\ RenderAt("frame", "join") /\ asked /\ quit' = TRUE
  /\ UNCHANGED <<gateVars, socketVars, asked, serverVars, logic, crashed>>

Joined ==
  /\ RenderAt("join", "gone") /\ logic = "ended"
  /\ UNCHANGED <<gateVars, socketVars, quitVars, serverVars, logic, crashed>>

\* ... and the frame itself.
EndFrame ==
  /\ RenderAt("frame", "idle") /\ rendering' = FALSE /\ slipped' = FALSE
  /\ UNCHANGED <<safe, socketVars, quitVars, serverVars, logic, crashed>>

-----------------------------------------------------------------------------
(* Outside.                                                                *)

AskQuit ==
  /\ Alive /\ ~asked /\ asked' = TRUE
  /\ UNCHANGED <<gateVars, socketVars, quit, serverVars, logic, render, crashed>>

ServerEnds ==
  /\ Alive /\ udp /\ ~ended /\ ended' = TRUE
  /\ UNCHANGED <<gateVars, socketVars, quitVars, queued, late, logic, render, crashed>>

-----------------------------------------------------------------------------
Load == NoFrame \/ FieldLoaded \/ NoFrameAgain \/ Loaded
Logic ==
  \/ Online \/ Matched2 \/ RetryQueueLater \/ SceneMessage \/ LoopEnds \/ Load
  \/ UdpUpdate \/ UdpGone \/ UdpError \/ UdpDone \/ \E x \in Items : UdpState(x)
Render ==
  \/ Prerender \/ Drop \/ TakeState \/ Apply
  \/ Gate \/ StartFrame \/ QuitApp \/ Joined \/ EndFrame

Next == Logic \/ Render \/ AskQuit \/ ServerEnds

Spec == Init /\ [][Next]_vars

\* Both threads run, and neither keeps the reactor's timer, the frames or the
\* network from the other for ever: 60 states come in a second, which is slower
\* than they are dropped, and the server sends them until it hears no more of
\* the client.
FairSpec ==
  /\ Spec
  /\ WF_vars(Load) /\ SF_vars(UdpDone) /\ SF_vars(UdpUpdate) /\ SF_vars(LoopEnds)
  /\ SF_vars(UdpState(Over))
  /\ WF_vars(Render) /\ SF_vars(Gate) /\ []<>(render # "drop")

-----------------------------------------------------------------------------
Queue == INSTANCE DropQueue WITH queue <- Contents(ring)

\* The states of a battle between the two threads are a queue that drops the
\* oldest: no state overtakes another, is read twice or is left from the socket
\* of an earlier battle.
RingIsQueue == Queue!Spec

\* "Stop new frame of rendering": a frame is drawn while a scene is loaded only
\* if it had passed the gate when the load began, and then no other.
OverlapSlipped == rendering /\ logic \in {"field", "load"} => slipped

\* "Busy wait for current frame of rendering to be completed", "wait for logic
\* loop exit": either thread waits for the other, and each wait ends, unless the
\* frame that is waited for is the one that quits the app.
WaitsEnd ==
  /\ logic = "wait" ~> (logic = "loop" \/ render = "join" \/ crashed)
  /\ render = "join" ~> (render = "gone" \/ crashed \/ logic \in {"wait", "again"})

\* When a battle has ended, a client that shows it as going on comes to know
\* it, and closes its socket, however states are dropped and overtake each other
\* on the way.  (One that shows an end already, the last battle's, applied in the
\* frame in which the user asked for this one, never closes it.)
EndApplied ==
  udp /\ ready /\ ended /\ phase = Play
    ~> ~(udp /\ ready /\ ended) \/ asked \/ crashed
=============================================================================
