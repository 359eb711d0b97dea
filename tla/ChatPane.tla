------------------------------- MODULE ChatPane -------------------------------
(***************************************************************************)
(* The chat of one browser tab (apps/parrot: app/components/ChatPane.tsx,  *)
(* app/root.tsx, workers/lib/mm-ws-proxy.ts, workers/index.ts).            *)
(*                                                                         *)
(* The list of posts of each channel is a cache entry.  It is fetched when *)
(* the channel is opened, unless the entry changed within staleTime; after *)
(* that the socket keeps it up to date while the channel is open, and      *)
(* changes no entry while another one is (it counts the badge, which is    *)
(* left out).  Sending shows a temporary row at once and swaps it for the  *)
(* post when the server answers; pinning and reacting change the list at   *)
(* once and put the old list back on an error.  The callbacks of a         *)
(* mutation act on the channel that is open when they run: react-query     *)
(* gives a pending mutation the options of the last render.                *)
(***************************************************************************)
EXTENDS Naturals, FiniteSets

CONSTANTS Rooms,     \* channels and direct messages
          Theirs,    \* posts of the others
          Mine,      \* messages this tab sends
          Nowhere

ASSUME NowhereAssumption == Nowhere \notin Rooms

VARIABLES home,      \* Mattermost: the room of each post
          shown,     \* the rows of each cache entry
          loaded,    \* rooms whose entry has data
          open,      \* activeId
          fetch,     \* GET .../posts of each room
          wire,      \* posted events on their way to this tab
          sending,   \* sendMessage: one at a time
          pinning,   \* pinPost and toggleReaction, with the list to go back to
          overtaken  \* history: a callback ran in another room than its
                     \* mutation began in, or put back an outdated list

chatVars == <<home, shown, loaded, open, fetch, wire,
              sending, pinning, overtaken>>

Texts    == Theirs \union Mine
Temp(t)  == <<"temp", t>>
Rows     == Texts \union {Temp(t) : t \in Mine}

ASSUME TextsAssumption == /\ Theirs \intersect Mine = {}
                          /\ \A t \in Mine : Temp(t) \notin Texts

InRoom(c) == {t \in Texts : home[t] = c}

NoFetch   == [st |-> "none", posts |-> {}]
Asked     == [st |-> "asked", posts |-> {}]
UnderWay(c) == fetch[c].st \in {"asked", "answered"}
NotSending == [st |-> "idle"]
NotPinning == [st |-> "idle"]

ChatInit == /\ home = [t \in Texts |-> Nowhere]
            /\ shown = [c \in Rooms |-> {}]
            /\ loaded = {}
            /\ open \in Rooms
            /\ fetch = [c \in Rooms |-> IF c = open THEN Asked ELSE NoFetch]
            /\ wire = {}
            /\ sending = NotSending
            /\ pinning = NotPinning
            /\ overtaken = FALSE

(* setQueryData, or an answer: the entry has data. *)
SetRows(c, rows) ==
    /\ shown' = [shown EXCEPT ![c] = rows]
    /\ loaded' = loaded \union {c}

-----------------------------------------------------------------------------
(* The others, the socket and the fetches. *)
Publish(t, c) ==
    /\ home' = [home EXCEPT ![t] = c]
    /\ wire' \in {wire, wire \union {t}}        \* the socket may be closed

TheyPost(t, c) ==
    /\ t \in Theirs /\ home[t] = Nowhere
    /\ Publish(t, c)
    /\ UNCHANGED <<shown, loaded, open, fetch, sending,
                   pinning, overtaken>>

(* handlePosted. *)
HandlePosted(t) ==
    /\ t \in wire
    /\ wire' = wire \ {t}
    /\ IF home[t] = open
       THEN SetRows(open, shown[open] \union {t})
       ELSE UNCHANGED <<shown, loaded>>
    /\ UNCHANGED <<home, open, fetch, sending, pinning, overtaken>>

(* onclose: what was on its way is lost, and nothing asks for it when the socket
   is open again. *)
SocketCloses ==
    /\ wire # {}
    /\ wire' = {}
    /\ UNCHANGED <<home, shown, loaded, open, fetch, sending, pinning,
                   overtaken>>

(* Opening a room fetches its posts, unless that is under way or the entry
   changed within staleTime. *)
OpenRoom(c) ==
    /\ c # open
    /\ open' = c
    /\ \/ c \in loaded /\ UNCHANGED fetch
       \/ UnderWay(c) /\ UNCHANGED fetch
       \/ ~UnderWay(c) /\ fetch' = [fetch EXCEPT ![c] = Asked]
    /\ UNCHANGED <<home, shown, loaded, wire, sending, pinning,
                   overtaken>>

(* Mattermost answers with the posts there are. *)
ServerAnswers(c) ==
    /\ fetch[c].st = "asked"
    /\ fetch' = [fetch EXCEPT ![c] = [st |-> "answered", posts |-> InRoom(c)]]
    /\ UNCHANGED <<home, shown, loaded, open, wire,
                   sending, pinning, overtaken>>

(* The answer replaces the entry, with whatever the socket added meanwhile. *)
FetchArrives(c) ==
    /\ fetch[c].st = "answered"
    /\ SetRows(c, fetch[c].posts)
    /\ fetch' = [fetch EXCEPT ![c] = NoFetch]
    /\ UNCHANGED <<home, open, wire, sending, pinning, overtaken>>

PostsFail(c) ==
    /\ UnderWay(c)
    /\ fetch' = [fetch EXCEPT ![c] = NoFetch]
    /\ UNCHANGED <<home, shown, loaded, open, wire,
                   sending, pinning, overtaken>>

-----------------------------------------------------------------------------
(* Mutations. *)

(* cancelQueries, first thing in every onMutate. *)
CancelFetch == fetch' = [fetch EXCEPT ![open] = NoFetch]

(* sendMessage, onMutate. *)
Send(t) ==
    /\ t \in Mine /\ home[t] = Nowhere
    /\ sending = NotSending
    /\ CancelFetch
    /\ SetRows(open, shown[open] \union {Temp(t)})
    /\ sending' = [st |-> "posting", text |-> t, to |-> open]
    /\ UNCHANGED <<home, open, wire, pinning, overtaken>>

ServerTakesPost ==
    /\ sending.st = "posting"
    /\ Publish(sending.text, sending.to)
    /\ sending' = [sending EXCEPT !.st = "taken"]
    /\ UNCHANGED <<shown, loaded, open, fetch, pinning,
                   overtaken>>

(* What setQueryData does to an entry without data in the callbacks below. *)
Patch(c, rows) == IF c \in loaded THEN SetRows(c, rows)
                  ELSE UNCHANGED <<shown, loaded>>

(* Mutant: the temporary row is not taken out. *)
SwapKeepsTemp(c, t) == shown[c] \union {t}

Swap(c, t) == (shown[c] \ {Temp(t)}) \union {t}

(* onSuccess, in the room that is open by now. *)
SendSucceeds ==
    /\ sending.st = "taken"
    /\ Patch(open, Swap(open, sending.text))
    /\ overtaken' = (overtaken \/ open # sending.to)
    /\ sending' = NotSending
    /\ UNCHANGED <<home, open, fetch, wire, pinning>>

(* onError: refused, or taken and the answer lost. *)
SendFails ==
    /\ sending.st \in {"posting", "taken"}
    /\ Patch(open, shown[open] \ {Temp(sending.text)})
    /\ overtaken' = (overtaken \/ open # sending.to)
    /\ sending' = NotSending
    /\ UNCHANGED <<home, open, fetch, wire, pinning>>

(* pinPost and toggleReaction, onMutate: the flag or the chip changes, and the
   whole list is kept for the way back. *)
Pin ==
    /\ pinning = NotPinning
    /\ shown[open] # {}
    /\ CancelFetch
    /\ SetRows(open, shown[open])
    /\ pinning' = [st |-> "pinning", at |-> open, previous |-> shown[open]]
    /\ UNCHANGED <<home, open, wire, sending, overtaken>>

PinSucceeds ==
    /\ pinning # NotPinning
    /\ pinning' = NotPinning
    /\ UNCHANGED <<home, shown, loaded, open, fetch, wire,
                   sending, overtaken>>

PinFails ==
    /\ pinning # NotPinning
    /\ SetRows(open, pinning.previous)
    /\ overtaken' = (overtaken \/ open # pinning.at
                               \/ shown[open] # pinning.previous)
    /\ pinning' = NotPinning
    /\ UNCHANGED <<home, open, fetch, wire, sending>>

(* editPost and deletePost, onSuccess: the entry of the open room is fetched
   again. *)
Invalidate ==
    /\ \E t \in Mine : t \in shown[open]
    /\ fetch' = [fetch EXCEPT ![open] = Asked]
    /\ UNCHANGED <<home, shown, loaded, open, wire,
                   sending, pinning, overtaken>>

-----------------------------------------------------------------------------
ChatNext ==
    \/ \E t \in Texts : \/ HandlePosted(t) \/ Send(t)
                        \/ \E c \in Rooms : TheyPost(t, c)
    \/ \E c \in Rooms : \/ OpenRoom(c) \/ ServerAnswers(c)
                        \/ FetchArrives(c) \/ PostsFail(c)
    \/ SocketCloses
    \/ ServerTakesPost \/ SendSucceeds \/ SendFails
    \/ Pin \/ PinSucceeds \/ PinFails \/ Invalidate

ChatSpec == ChatInit /\ [][ChatNext]_chatVars

-----------------------------------------------------------------------------
ChatTypeOK ==
    /\ home \in [Texts -> Rooms \union {Nowhere}]
    /\ shown \in [Rooms -> SUBSET Rows]
    /\ loaded \subseteq Rooms
    /\ open \in Rooms
    /\ fetch \in [Rooms -> [st : {"none", "asked", "answered"},
                            posts : SUBSET Texts]]
    /\ wire \subseteq Texts
    /\ \/ sending = NotSending
       \/ sending \in [st : {"posting", "taken"}, text : Mine, to : Rooms]
    /\ \/ pinning = NotPinning
       \/ pinning \in [st : {"pinning"}, at : Rooms, previous : SUBSET Rows]
    /\ overtaken \in BOOLEAN

(* Every row of a room is a post of that room, or the temporary row of the
   message being sent to it, whatever the socket, the fetches and the echo of
   the message do in between; unless a mutation was overtaken by a change of
   rooms or by a change of the list it puts back. *)
RowBelongs(r, c) ==
    IF r \in Texts THEN home[r] = c
    ELSE sending # NotSending /\ r = Temp(sending.text) /\ sending.to = c

RowsBelong == overtaken \/ \A c \in Rooms : \A r \in shown[c] : RowBelongs(r, c)

=============================================================================
