------------------------------- MODULE WatchHub -------------------------------
(***************************************************************************)
(* The settle-edge push stream (session/watch.py), the daemon's subscribe  *)
(* handler, and the play shell's WatchFeed client (watchfeed.py).  The hub *)
(* polls the screen; once it has been still for the debounce and its hash  *)
(* differs from the last one emitted, the hub renders a response and puts  *)
(* it on every subscriber's queue.                                         *)
(*                                                                         *)
(* Screens are members of a small set, so that a screen can come back; the *)
(* hash is taken to tell any two screens apart.                            *)
(***************************************************************************)
EXTENDS Naturals, FiniteSets, Sequences

CONSTANTS
  Subs,     \* subscriptions; each is made once
  Screens,  \* what the terminal can show
  Blank,    \* the screen the hub was built on
  MaxPaints \* bound: repaints of a behaviour

ASSUME HubAssumption == Blank \in Screens /\ MaxPaints \in Nat

VARIABLES
  screen,  \* the terminal
  still,   \* no byte for debounce_ms
  paints,  \* repaints so far
  hash,    \* _last_emitted_hash
  hub,     \* where the hub's thread is: "poll", "hashed", "rendered"
  taken,   \* current_hash of the running _maybe_emit
  event,   \* the rendered response
  targets, \* subs: the copy _broadcast iterates over
  sub,     \* each subscription: "none", "rendered", "added", "gone"
  queue,   \* its queue
  feed,    \* its client: "off", "reading", "stopped"
  latest,  \* the client's latest_event
  missed,  \* an emission passed the subscription between snapshot and add (history)
  recurred \* a screen the client or the hash had already seen came back (history)

watchVars == <<screen, still, paints, hash, hub, taken, event, targets, sub, queue,
               feed, latest, missed, recurred>>
screenVars == <<screen, still, paints, recurred>>
hubVars == <<hash, hub, taken, event, targets>>
subVars == <<sub, queue, feed, latest, missed>>

WatchInit ==
  /\ screen = Blank /\ still = TRUE /\ paints = 0 /\ hash = Blank
  /\ hub = "poll" /\ taken = Blank /\ event = Blank /\ targets = {}
  /\ sub = [s \in Subs |-> "none"] /\ queue = [s \in Subs |-> <<>>]
  /\ feed = [s \in Subs |-> "off"] /\ latest = [s \in Subs |-> Blank]
  /\ missed = {} /\ recurred = FALSE

\* The reader thread paints.
Paints ==
  /\ paints < MaxPaints
  /\ screen' \in Screens \ {screen}
  /\ paints' = paints + 1 /\ still' = FALSE
  /\ recurred' = (recurred \/ screen' \in {hash, taken, event} \cup {latest[s] : s \in Subs}
                                         \cup UNION {{queue[s][i] : i \in DOMAIN queue[s]} : s \in Subs})
  /\ UNCHANGED <<hubVars, subVars>>

DebounceEnds ==
  /\ ~still /\ still' = TRUE
  /\ UNCHANGED <<screen, paints, recurred, hubVars, subVars>>

\* subscribe(): the snapshot is rendered first, the queue joins the set after.
Added == {s \in Subs : sub[s] = "added"}
SubscribeRenders(s) ==
  /\ sub[s] = "none"
  /\ sub' = [sub EXCEPT ![s] = "rendered"]
  /\ queue' = [queue EXCEPT ![s] = <<screen>>]
  /\ UNCHANGED <<screenVars, hubVars, feed, latest, missed>>
SubscribeAdds(s) ==
  /\ sub[s] = "rendered"
  /\ sub' = [sub EXCEPT ![s] = "added"]
  /\ feed' = [feed EXCEPT ![s] = "reading"]
  /\ UNCHANGED <<screenVars, hubVars, queue, latest, missed>>

\* _loop and _maybe_emit: subscribers, stillness, hash, in that order.
HubHashes ==
  /\ hub = "poll" /\ Added # {} /\ still /\ screen # hash
  /\ taken' = screen /\ hub' = "hashed"
  /\ UNCHANGED <<screenVars, hash, event, targets, subVars>>
HubRenders ==
  /\ hub = "hashed"
  /\ event' = screen /\ hub' = "rendered"
  /\ UNCHANGED <<screenVars, hash, taken, targets, subVars>>

\* _broadcast copies the set under the lock, then puts on each queue; the hash
\* of what was hashed, not of what was rendered, is kept.
HubCopies ==
  /\ hub = "rendered"
  /\ targets' = Added /\ hub' = "sending"
  /\ missed' = missed \cup {s \in Subs : sub[s] = "rendered"}
  /\ UNCHANGED <<screenVars, hash, taken, event, sub, queue, feed, latest>>
HubPuts(s) ==
  /\ hub = "sending" /\ s \in targets
  /\ targets' = targets \ {s}
  /\ queue' = [queue EXCEPT ![s] = IF sub[s] = "gone" THEN @ ELSE Append(@, event)]
  /\ UNCHANGED <<screenVars, hash, hub, taken, event, sub, feed, latest, missed>>
HubKeepsScreen ==
  /\ hub = "sending" /\ targets = {}
  /\ hash' = screen /\ hub' = "poll"
  /\ UNCHANGED <<screenVars, taken, event, targets, subVars>>
HubKeeps ==
  /\ hub = "sending" /\ targets = {}
  /\ hash' = taken /\ hub' = "poll"
  /\ UNCHANGED <<screenVars, taken, event, targets, subVars>>

\* The handler writes the next event, the client's read loop takes it.
FeedReads(s) ==
  /\ feed[s] = "reading" /\ queue[s] # <<>>
  /\ latest' = [latest EXCEPT ![s] = Head(queue[s])]
  /\ queue' = [queue EXCEPT ![s] = Tail(@)]
  /\ UNCHANGED <<screenVars, hubVars, sub, feed, missed>>

\* stop(): the client closes its transport, and keeps what it had; the handler
\* finds out when it writes, and unsubscribes.
FeedStops(s) ==
  /\ feed[s] = "reading"
  /\ feed' = [feed EXCEPT ![s] = "stopped"]
  /\ UNCHANGED <<screenVars, hubVars, sub, queue, latest, missed>>
HandlerFindsItGone(s) ==
  /\ feed[s] = "stopped" /\ sub[s] = "added" /\ queue[s] # <<>>
  /\ sub' = [sub EXCEPT ![s] = "gone"] /\ queue' = [queue EXCEPT ![s] = <<>>]
  /\ UNCHANGED <<screenVars, hubVars, feed, latest, missed>>

HubStep == HubHashes \/ HubRenders \/ HubCopies \/ (\E s \in Subs : HubPuts(s)) \/ HubKeeps

WatchNext ==
  \/ Paints
  \/ DebounceEnds
  \/ HubStep
  \/ \E s \in Subs : \/ SubscribeRenders(s) \/ SubscribeAdds(s) \/ FeedReads(s)
                     \/ FeedStops(s) \/ HandlerFindsItGone(s)

WatchSpec == WatchInit /\ [][WatchNext]_watchVars

WatchFairness ==
  /\ WF_watchVars(DebounceEnds) /\ WF_watchVars(HubStep)
  /\ \A s \in Subs : WF_watchVars(FeedReads(s)) /\ WF_watchVars(SubscribeAdds(s))
                     /\ WF_watchVars(HandlerFindsItGone(s))

-------------------------------------------------------------------------------
WatchTypeOK ==
  /\ screen \in Screens /\ hash \in Screens /\ taken \in Screens /\ event \in Screens
  /\ still \in BOOLEAN /\ recurred \in BOOLEAN /\ paints \in 0..MaxPaints
  /\ hub \in {"poll", "hashed", "rendered", "sending"} /\ targets \subseteq Subs
  /\ sub \in [Subs -> {"none", "rendered", "added", "gone"}]
  /\ queue \in [Subs -> Seq(Screens)]
  /\ feed \in [Subs -> {"off", "reading", "stopped"}]
  /\ latest \in [Subs -> Screens] /\ missed \subseteq Subs

\* A client that reads on ends up with the screen the terminal rests on, though
\* the hash is older than the response and the snapshot older than the
\* subscription; unless an emission fell between the two, or a screen recurred.
ClientConverges ==
  \A s \in Subs : (sub[s] = "added") ~>
     [](feed[s] = "reading" /\ ~recurred /\ s \notin missed => <>(latest[s] = screen))
===============================================================================
