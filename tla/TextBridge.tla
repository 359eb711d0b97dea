------------------------------ MODULE TextBridge ------------------------------
(***************************************************************************)
(* The Mac bridge (apps/mac-bridge/src: listener.mjs,                      *)
(* bluebubbles-client.mjs): the typing bubble of one iMessage chat, and    *)
(* the socket on which the texts arrive.                                   *)
(*                                                                         *)
(* A text opens the bubble, which the answer of the app takes down, or a   *)
(* timer.  Sending waits until the bubble has been visible for 1.2 s, and  *)
(* then removes the entry it read before it waited, with its timer; a text *)
(* that arrived meanwhile has put another entry there.  All of this is in  *)
(* memory: after a restart the bridge knows neither the bubble it left on  *)
(* nor, until a text comes or is sent, the chat.                           *)
(*                                                                         *)
(* The socket is opened again after each close.  A session that BlueBubbles*)
(* ends ("41") while it leaves the socket open is not noticed.             *)
(***************************************************************************)
EXTENDS Naturals

CONSTANTS Timers,      \* bound: timers that exist at once
          Answers,     \* calls of send() that wait at once
          NoTimer

ASSUME NoTimerAssumption == NoTimer \notin Timers

VARIABLES bubble,      \* the last sendTyping of this chat was "on"
          cached,      \* threadCache has the chat
          entry,       \* the timer of the chat's entry in pendingTyping
          armed,       \* timers that will fire
          answer,      \* what each send() does, and the entry it read
          stray,       \* history: timers whose entry is, or will be, taken away
          orphaned,    \* history: a restart left the bubble on
          socket,      \* the WebSocket to BlueBubbles and its session
          retry        \* a reconnect is scheduled

typingVars == <<bubble, cached, entry, armed, answer, stray, orphaned>>
bridgeVars == <<typingVars, socket, retry>>

Resting == [st |-> "idle", pending |-> NoTimer]

BridgeInit == /\ bubble = FALSE
              /\ cached = FALSE
              /\ entry = NoTimer
              /\ armed = {}
              /\ answer = [a \in Answers |-> Resting]
              /\ stray = {} /\ orphaned = FALSE
              /\ socket = "loading"
              /\ retry = FALSE

-----------------------------------------------------------------------------
(* The bubble. *)

(* Timers that a waiting send() still knows are not taken for new ones. *)
Fresh == Timers \ (armed \union {answer[a].pending : a \in Answers})

Waiting(a) == answer[a].st = "waits"

(* Mutant: the timer of the text before goes on. *)
ClearsNothing == armed

ClearPrior == armed \ {entry}

(* handleInbound, without what it forwards: typing on, the prior timer cleared
   and a new one set.  A send() that waits will take its entry away. *)
HandleInbound(id) ==
    /\ socket = "joined" /\ id \in Fresh
    /\ bubble' = TRUE /\ cached' = TRUE
    /\ entry' = id
    /\ armed' = ClearPrior \union {id}
    /\ stray' = (stray \ {entry})
                  \union (IF \E a \in Answers : Waiting(a) THEN {id} ELSE {})
    /\ orphaned' = FALSE
    /\ UNCHANGED <<answer, socket, retry>>

(* The 45 seconds are over: the chat's entry goes, whose ever it is. *)
TimerFires(id) ==
    /\ id \in armed
    /\ bubble' = FALSE
    /\ entry' = NoTimer
    /\ armed' = armed \ {id}
    /\ stray' = (stray \union {entry}) \ {id, NoTimer}
    /\ orphaned' = FALSE
    /\ UNCHANGED <<cached, answer, socket, retry>>

(* POST /v1/send: the entry is read, is young and is waited for. *)
StartSend(a) ==
    /\ answer[a] = Resting /\ entry # NoTimer
    /\ answer' = [answer EXCEPT ![a] = [st |-> "waits", pending |-> entry]]
    /\ UNCHANGED <<bubble, cached, entry, armed, stray, orphaned, socket, retry>>

(* Typing off and the text go out; whatever entry there is goes, and the timer
   of the one that was read. *)
SendText(a) ==
    /\ Waiting(a)
    /\ bubble' = FALSE
    /\ entry' = NoTimer
    /\ armed' = armed \ {answer[a].pending}
    /\ stray' = stray \ {answer[a].pending}
    /\ orphaned' = FALSE
    /\ answer' = [answer EXCEPT ![a] = Resting]
    /\ UNCHANGED <<cached, socket, retry>>

(* The entry is old, or there is none: nothing is waited for. *)
SendAtOnce ==
    /\ cached
    /\ bubble' = FALSE
    /\ entry' = NoTimer
    /\ armed' = armed \ {entry}
    /\ stray' = stray \ {entry}
    /\ orphaned' = FALSE
    /\ UNCHANGED <<cached, answer, socket, retry>>

(* A chat that is not in the cache has no entry, and its bubble is left alone; it
   is cached when the text has gone out. *)
SendCold(a) ==
    /\ ~cached /\ answer[a] = Resting
    /\ answer' = [answer EXCEPT ![a] = [st |-> "cold", pending |-> NoTimer]]
    /\ UNCHANGED <<bubble, cached, entry, armed, stray, orphaned, socket, retry>>

ColdSendEnds(a) ==
    /\ answer[a].st = "cold"
    /\ cached' \in {cached, TRUE}
    /\ answer' = [answer EXCEPT ![a] = Resting]
    /\ UNCHANGED <<bubble, entry, armed, stray, orphaned, socket, retry>>

-----------------------------------------------------------------------------
(* The socket.  "loading": connect() awaits the import of ws. *)

(* The import fails.  The first time the failure is caught and scheduled, and
   on a reconnect it is swallowed. *)
ImportFails ==
    /\ socket \in {"loading", "reloading"}
    /\ socket' = IF socket = "loading" THEN "none" ELSE "given up"
    /\ retry' = (socket = "loading")
    /\ UNCHANGED typingVars

Dial ==
    /\ socket \in {"loading", "reloading", "redialling"}
    /\ socket' = "dialled"
    /\ UNCHANGED <<typingVars, retry>>

(* "0{...}", and 50 ms later "40". *)
Handshake ==
    /\ socket = "dialled"
    /\ socket' = "joined"
    /\ UNCHANGED <<typingVars, retry>>

Kicked ==
    /\ socket = "joined"
    /\ socket' = "kicked"
    /\ UNCHANGED <<typingVars, retry>>

(* Mutant: only a connection that was made is made again. *)
CloseOfAJoined ==
    /\ socket \in {"dialled", "joined", "kicked"}
    /\ retry' = (socket # "dialled")
    /\ socket' = "closed"
    /\ UNCHANGED typingVars

(* The close event, which every failure ends in. *)
Close ==
    /\ socket \in {"dialled", "joined", "kicked"}
    /\ retry' = TRUE
    /\ socket' = "closed"
    /\ UNCHANGED typingVars

(* A constructor that was loaded stays loaded. *)
Reconnect ==
    /\ retry
    /\ retry' = FALSE
    /\ socket' = IF socket = "none" THEN "reloading" ELSE "redialling"
    /\ UNCHANGED typingVars

(* SIGTERM, of which the listener makes no more than to close its socket, and
   launchd starts the bridge again.  Nobody takes the bubble down. *)
Restart ==
    /\ cached' = FALSE /\ entry' = NoTimer /\ armed' = {} /\ stray' = {}
    /\ answer' = [a \in Answers |-> Resting]
    /\ orphaned' = bubble
    /\ socket' = "loading" /\ retry' = FALSE
    /\ UNCHANGED bubble

-----------------------------------------------------------------------------
BridgeNext ==
    \/ \E id \in Timers : HandleInbound(id) \/ TimerFires(id)
    \/ \E a \in Answers : StartSend(a) \/ SendText(a) \/ SendCold(a) \/ ColdSendEnds(a)
    \/ SendAtOnce
    \/ ImportFails \/ Dial \/ Handshake \/ Kicked \/ Close \/ Reconnect \/ Restart

(* What is scheduled happens, BlueBubbles, dialled again and again, answers, and
   the bridge is not restarted for ever. *)
BridgeFairness ==
    /\ WF_bridgeVars(Reconnect)
    /\ WF_bridgeVars(Dial \/ ImportFails)
    /\ SF_bridgeVars(Handshake)
    /\ <>[][~Restart]_bridgeVars

BridgeSpec == BridgeInit /\ [][BridgeNext]_bridgeVars /\ BridgeFairness

-----------------------------------------------------------------------------
BridgeTypeOK ==
    /\ bubble \in BOOLEAN
    /\ entry \in Timers \union {NoTimer}
    /\ armed \subseteq Timers
    /\ cached \in BOOLEAN
    /\ answer \in [Answers -> [st : {"idle", "waits", "cold"},
                               pending : Timers \union {NoTimer}]]
    /\ stray \subseteq Timers /\ orphaned \in BOOLEAN
    /\ socket \in {"loading", "reloading", "redialling", "none", "dialled",
                   "joined", "kicked", "closed", "given up"}
    /\ retry \in BOOLEAN

(* A bubble that is taken down by a timer has had its own 45 seconds, but for a
   timer that was left without an entry: a send() that waited took the entry away,
   or a timer left behind in this way did. *)
BubbleHasItsTime ==
    [][\A id \in Timers : TimerFires(id) /\ bubble => id = entry \/ id \in stray]_bridgeVars

(* While a bubble is on the entry's timer will take it down, unless a restart left
   it on. *)
BubbleHasATimer == bubble => entry \in armed \/ orphaned

(* The bridge does not stay deaf: a connection that was lost or refused, or for
   which ws could not be loaded, is made again, unless that import failed
   twice. *)
KeepsListening ==
    socket \in {"none", "dialled", "closed"} ~> socket \in {"joined", "given up"}

=============================================================================
