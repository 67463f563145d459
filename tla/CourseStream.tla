---------------------------- MODULE CourseStream ----------------------------
(* One worker's fan-out of course-access changes: the registry of queues,   *)
(* the single reader behind them and its subscription, which Redis feeds    *)
(* without keeping anything.  A cabinet shows the list it fetched last and  *)
(* fetches it again on any message; a list is represented by the number of  *)
(* changes it already contains.                                             *)
EXTENDS Naturals, FiniteSets

CONSTANTS
    Tabs,               \* open cabinets of one student
    QueueMax,           \* COURSE_STREAM_QUEUE_MAXSIZE
    MaxAccessChanges,         \* bound: grants and revocations
    MaxHiccups          \* bound: lost Redis connections and publishes

ASSUME CourseStreamAssumption ==
    /\ QueueMax \in Nat \ {0} /\ MaxAccessChanges \in Nat /\ MaxHiccups \in Nat
    /\ IsFiniteSet(Tabs)

VARIABLES
    granted,            \* access changes committed by teachers
    publishing,         \* changes committed and not published yet
    tab,                \* each cabinet: its stream, and the list it shows
    queues,             \* _subscribers: queue lengths of registered streams
    reader,             \* _reader and _ready: none, or how far it has come
    hiccups,
    deaf                \* history: tabs that a change went past unheard

courseStreamVars ==
    <<granted, publishing, tab, queues, reader, hiccups, deaf>>

Registered == DOMAIN queues
Unread == {t \in Registered : queues[t] > 0}

(* grant_access or revoke_access commits; the publish is a step of its own, *)
(* best effort.                                                             *)
ChangeAccess ==
    /\ granted < MaxAccessChanges
    /\ granted' = granted + 1 /\ publishing' = publishing + 1
    /\ UNCHANGED <<tab, queues, reader, hiccups, deaf>>

(* As Dispatched below, with an unbounded queue; and with a full queue      *)
(* emptied.                                                                 *)
Dispatched_Unbounded == [t \in Registered |-> queues[t] + 1]
Dispatched_Emptied ==
    [t \in Registered |-> IF queues[t] < QueueMax THEN queues[t] + 1 ELSE 0]

(* _dispatch: a full queue keeps what it has.                               *)
Dispatched ==
    [t \in Registered |-> IF queues[t] < QueueMax THEN queues[t] + 1 ELSE queues[t]]

Publish ==
    /\ publishing > 0
    /\ publishing' = publishing - 1
    /\ \/ /\ reader = "live"
          /\ queues' = Dispatched
          /\ deaf' = deaf \cup (Tabs \ Registered)
          /\ UNCHANGED hiccups
       \/ /\ reader # "live"
          /\ deaf' = Tabs
          /\ UNCHANGED <<queues, hiccups>>
       \/ /\ hiccups < MaxHiccups
          /\ hiccups' = hiccups + 1
          /\ deaf' = Tabs
          /\ UNCHANGED queues
    /\ UNCHANGED <<granted, tab, reader>>

(* _read_forever: subscribe, relay, lose the connection, back off, again.   *)
ReaderSubscribes ==
    /\ reader = "connecting"
    /\ reader' = "live"
    /\ UNCHANGED <<granted, publishing, tab, queues, hiccups, deaf>>

ReaderLosesRedis ==
    /\ reader \in {"connecting", "live"} /\ hiccups < MaxHiccups
    /\ hiccups' = hiccups + 1
    /\ reader' = "waiting"
    /\ UNCHANGED <<granted, publishing, tab, queues, deaf>>

ReaderRetries ==
    /\ reader = "waiting"
    /\ reader' = "connecting"
    /\ UNCHANGED <<granted, publishing, tab, queues, hiccups, deaf>>

(* A stream opens: registered at once, so that nothing published from here  *)
(* on is dropped; the first one starts the reader.  It yields when the      *)
(* reader is ready, or gives up waiting.                                    *)
OpenStream(t) ==
    /\ tab[t].pc = "closed"
    /\ tab' = [tab EXCEPT ![t].pc = "waiting"]
    /\ queues' = [u \in Registered \cup {t} |-> IF u = t THEN 0 ELSE queues[u]]
    /\ reader' = IF reader = "none" THEN "connecting" ELSE reader
    /\ UNCHANGED <<granted, publishing, hiccups, deaf>>

Yields(t) ==
    /\ tab[t].pc = "waiting"
    /\ tab' = [tab EXCEPT ![t].pc = "open"]
    /\ UNCHANGED <<granted, publishing, queues, reader, hiccups, deaf>>

(* The generator takes a message and sends it; the browser fetches the list.*)
Relay(t) ==
    /\ tab[t].pc = "open" /\ t \in Registered /\ queues[t] > 0
    /\ queues' = [queues EXCEPT ![t] = @ - 1]
    /\ tab' = [tab EXCEPT ![t].owed = TRUE]
    /\ UNCHANGED <<granted, publishing, reader, hiccups, deaf>>

(* Whole lists: on a message, or when the tab regains focus or loads.       *)
Fetch(t) ==
    /\ tab[t].owed \/ tab[t].shown < granted
    /\ tab' = [tab EXCEPT ![t].owed = FALSE, ![t].shown = granted]
    /\ deaf' = deaf \ {t}
    /\ UNCHANGED <<granted, publishing, queues, reader, hiccups>>

(* _unregister, synchronous: the last one out stops the reader.             *)
Unregistered(t) == [u \in Registered \ {t} |-> queues[u]]

CloseStream(t) ==
    /\ tab[t].pc \in {"waiting", "open"}
    /\ tab' = [tab EXCEPT ![t].pc = "closed"]
    /\ queues' = Unregistered(t)
    /\ reader' = IF DOMAIN queues' = {} THEN "none" ELSE reader
    /\ deaf' = deaf \cup (Unread \cap {t})
    /\ UNCHANGED <<granted, publishing, hiccups>>

(* The lifespan's end: registry and reader go, the streams close after it.  *)
Shutdown ==
    /\ hiccups < MaxHiccups /\ reader # "none"
    /\ hiccups' = hiccups + 1
    /\ queues' = [t \in {} |-> 0] /\ reader' = "none"
    /\ deaf' = deaf \cup Unread
    /\ UNCHANGED <<granted, publishing, tab>>

CourseStreamNext ==
    \/ ChangeAccess \/ Publish
    \/ ReaderSubscribes \/ ReaderLosesRedis \/ ReaderRetries \/ Shutdown
    \/ \E t \in Tabs : OpenStream(t) \/ Yields(t) \/ Relay(t) \/ Fetch(t)
                       \/ CloseStream(t)

CourseStreamInit ==
    /\ granted = 0 /\ publishing = 0
    /\ tab = [t \in Tabs |-> [pc |-> "closed", shown |-> 0, owed |-> FALSE]]
    /\ queues = [t \in {} |-> 0]
    /\ reader = "none" /\ hiccups = 0 /\ deaf = {}

CourseStreamSpec == CourseStreamInit /\ [][CourseStreamNext]_courseStreamVars

CourseStreamTypeOK ==
    /\ granted \in 0..MaxAccessChanges /\ publishing \in 0..MaxAccessChanges
    /\ tab \in [Tabs -> [pc : {"closed", "waiting", "open"},
                         shown : 0..MaxAccessChanges, owed : BOOLEAN]]
    /\ Registered \subseteq Tabs /\ queues \in [Registered -> 0..QueueMax]
    /\ reader \in {"none", "connecting", "live", "waiting"}
    /\ hiccups \in 0..MaxHiccups /\ deaf \subseteq Tabs

(* A cabinet whose list is out of date is about to hear of it - the change  *)
(* is still to be published, or a message waits in its queue or in its      *)
(* browser - unless a change went past while it had no queue or the reader  *)
(* no subscription, or a stream ended with its queue unread; and an idle    *)
(* worker holds no subscription, a registered stream always has a reader    *)
(* (services/course_stream.py:50-150).                                      *)
StaleOnlyIfDeaf ==
    /\ \A t \in Tabs : tab[t].shown < granted =>
          \/ publishing > 0 \/ tab[t].owed \/ t \in deaf
          \/ t \in Unread
    /\ (reader = "none") <=> (Registered = {})
=============================================================================
