--------------------------- MODULE ProgressStream ---------------------------
(* The lesson's progress stream beside the job it reports: the row a stream *)
(* reads before it opens, the Redis channel it subscribes to afterwards,    *)
(* the presence set it keeps, and the "lesson ready" notice that looks at   *)
(* that set.  A channel delivers to whoever is subscribed and keeps nothing.*)
EXTENDS Naturals, FiniteSets

CONSTANTS
    Conns,              \* connections; each one is a stream opened once
    MaxRuns,            \* bound: generations of the lesson
    MaxStreamFaults     \* bound: Redis commands or workers that fail

ASSUME ProgressAssumption ==
    MaxRuns \in Nat \ {0} /\ MaxStreamFaults \in Nat /\ IsFiniteSet(Conns)

VARIABLES
    row,                \* what the lesson's row says: a task id, a status
    job,                \* the generation: which one, how far, its id saved
    conn,               \* each stream's program counter
    presence,           \* the lesson's sorted set of live connections
    notices,            \* "lesson ready" notifications waiting for a worker
    noticeSent, noticeDropped,  \* runs whose notice went on to mail / was dropped
    hushed,             \* history: runs whose end was never published
    late,               \* history: streams that subscribed after the end
    streamFaults

progressVars ==
    <<row, job, conn, presence, notices, noticeSent, noticeDropped, hushed, late,
      streamFaults>>

Runs == 1..MaxRuns
Terminal == {"published", "error"}      \* "cancelled" behaves as "error"

(* The job: sent to the broker, its id saved later by the endpoint, picked  *)
(* up, ended by one commit, announced.                                      *)
SendJob ==
    /\ job.pc = "idle" /\ job.saved /\ job.run < MaxRuns
    /\ job' = [run |-> job.run + 1, pc |-> "sent", saved |-> FALSE]
    /\ UNCHANGED <<row, conn, presence, notices, noticeSent, noticeDropped, hushed,
                   late, streamFaults>>

SaveTaskId ==
    /\ ~job.saved
    /\ job' = [job EXCEPT !.saved = TRUE]
    /\ row' = [row EXCEPT !.active = TRUE]
    /\ UNCHANGED <<conn, presence, notices, noticeSent, noticeDropped, hushed, late,
                   streamFaults>>

JobStarts ==
    /\ job.pc = "sent"
    /\ job' = [job EXCEPT !.pc = "running"]
    /\ row' = [row EXCEPT !.status = "processing"]
    /\ UNCHANGED <<conn, presence, notices, noticeSent, noticeDropped, hushed, late,
                   streamFaults>>

(* _set_status: the terminal status, and the task id cleared.               *)
End(status) ==
    /\ job.pc = "running"
    /\ job' = [job EXCEPT !.pc = IF status = "published" THEN "ended"
                                                         ELSE "notified"]
    /\ row' = [active |-> FALSE, status |-> status]
    /\ UNCHANGED <<conn, presence, notices, noticeSent, noticeDropped, hushed, late,
                   streamFaults>>

(* The mail is enqueued before the event that stops the streams.            *)
EnqueueNotice ==
    /\ job.pc = "ended"
    /\ job' = [job EXCEPT !.pc = "notified"]
    /\ notices' = notices \cup {job.run}
    /\ UNCHANGED <<row, conn, presence, noticeSent, noticeDropped, hushed, late,
                   streamFaults>>

(* Every subscribed stream relays the event and stops; its presence entry   *)
(* stays, on purpose, until it ages out.                                    *)
ToldTheEnd == [c \in Conns |-> IF conn[c] = "live" THEN "told" ELSE conn[c]]

(* The same with the presence cleared as the stream stops.                  *)
PublishEnd_ClearsPresence ==
    /\ job.pc = "notified"
    /\ job' = [job EXCEPT !.pc = "idle"]
    /\ conn' = ToldTheEnd
    /\ presence' = {c \in presence : conn[c] # "live"}
    /\ UNCHANGED <<row, notices, noticeSent, noticeDropped, hushed, late, streamFaults>>

PublishEnd ==
    /\ job.pc = "notified"
    /\ job' = [job EXCEPT !.pc = "idle"]
    /\ conn' = ToldTheEnd
    /\ UNCHANGED <<row, presence, notices, noticeSent, noticeDropped, hushed, late,
                   streamFaults>>

(* The worker dies, or _publish swallows an outage.                         *)
EndUnannounced ==
    /\ job.pc \in {"ended", "notified"} /\ streamFaults < MaxStreamFaults
    /\ streamFaults' = streamFaults + 1
    /\ job' = [job EXCEPT !.pc = "idle"]
    /\ hushed' = hushed \cup {job.run}
    /\ UNCHANGED <<row, conn, presence, notices, noticeSent, noticeDropped, late>>

(* The notice's gate: dropped while anybody is present; an unreachable     *)
(* Redis reads as nobody.                                                   *)
Gate(seesPresence) ==
    \E r \in notices :
        /\ notices' = notices \ {r}
        /\ IF seesPresence /\ presence # {}
           THEN noticeDropped' = noticeDropped \cup {r} /\ UNCHANGED noticeSent
           ELSE noticeSent' = noticeSent \cup {r} /\ UNCHANGED noticeDropped
        /\ UNCHANGED <<row, job, conn, presence, hushed, late>>

CheckPresence == Gate(TRUE) /\ UNCHANGED streamFaults
CheckFailsOpen ==
    /\ streamFaults < MaxStreamFaults /\ Gate(FALSE)
    /\ streamFaults' = streamFaults + 1

(* One stream.  The row decides, once, whether there is anything to wait    *)
(* for; a set task id means there is, whatever the status says.             *)
Replays == ~row.active /\ row.status \in Terminal

ReadRow(c) ==
    /\ conn[c] = "new"
    /\ conn' = [conn EXCEPT ![c] = IF Replays THEN "replayed" ELSE "read"]
    /\ UNCHANGED <<row, job, presence, notices, noticeSent, noticeDropped, hushed, late,
                   streamFaults>>

TouchPresence(c) ==
    /\ conn[c] = "read"
    /\ conn' = [conn EXCEPT ![c] = "present"]
    /\ \/ presence' = presence \cup {c} /\ UNCHANGED streamFaults
       \/ /\ streamFaults < MaxStreamFaults
          /\ streamFaults' = streamFaults + 1
          /\ UNCHANGED presence
    /\ UNCHANGED <<row, job, notices, noticeSent, noticeDropped, hushed, late>>

Subscribe(c) ==
    /\ conn[c] = "present"
    /\ conn' = [conn EXCEPT ![c] = "live"]
    /\ late' = IF job.pc = "idle" /\ Replays THEN late \cup {c} ELSE late
    /\ UNCHANGED <<row, job, presence, notices, noticeSent, noticeDropped, hushed,
                   streamFaults>>

(* Every SSE_HEARTBEAT_SECONDS, which is well inside the entry's lifetime.  *)
Heartbeat(c) ==
    /\ conn[c] = "live" /\ c \notin presence
    /\ presence' = presence \cup {c}
    /\ UNCHANGED <<row, job, conn, notices, noticeSent, noticeDropped, hushed, late,
                   streamFaults>>

(* The client goes away and the generator's cleanup runs.                   *)
Leave(c) ==
    /\ conn[c] \in {"read", "present", "live"}
    /\ conn' = [conn EXCEPT ![c] = "left"]
    /\ presence' = presence \ {c}
    /\ UNCHANGED <<row, job, notices, noticeSent, noticeDropped, hushed, late,
                   streamFaults>>

(* It goes away without: the worker is drained, or the cleanup's awaits     *)
(* are cancelled with the stream.                                           *)
Vanish(c) ==
    /\ conn[c] \in {"present", "live"} /\ streamFaults < MaxStreamFaults
    /\ streamFaults' = streamFaults + 1
    /\ conn' = [conn EXCEPT ![c] = "lost"]
    /\ UNCHANGED <<row, job, presence, notices, noticeSent, noticeDropped, hushed, late>>

(* The score falls out of the NOTIFY_PRESENCE_TTL_SECONDS window.           *)
AgeOut(c) ==
    /\ conn[c] \in {"told", "lost"}
    /\ conn' = [conn EXCEPT ![c] = "gone"]
    /\ presence' = presence \ {c}
    /\ UNCHANGED <<row, job, notices, noticeSent, noticeDropped, hushed, late,
                   streamFaults>>

JobStep ==
    \/ SendJob \/ SaveTaskId \/ JobStarts \/ EnqueueNotice \/ PublishEnd
    \/ \E status \in Terminal : End(status)
    \/ EndUnannounced

StreamStep ==
    \E c \in Conns :
        \/ ReadRow(c) \/ TouchPresence(c) \/ Subscribe(c) \/ Heartbeat(c)
        \/ Leave(c) \/ Vanish(c) \/ AgeOut(c)

ProgressNext == JobStep \/ StreamStep \/ CheckPresence \/ CheckFailsOpen

ProgressInit ==
    /\ row = [active |-> FALSE, status |-> "draft"]
    /\ job = [run |-> 0, pc |-> "idle", saved |-> TRUE]
    /\ conn = [c \in Conns |-> "new"]
    /\ presence = {} /\ notices = {} /\ noticeSent = {} /\ noticeDropped = {}
    /\ hushed = {} /\ late = {} /\ streamFaults = 0

ProgressSpec == ProgressInit /\ [][ProgressNext]_progressVars

ProgressTypeOK ==
    /\ row \in [active : BOOLEAN, status : Terminal \cup {"draft", "processing"}]
    /\ job \in [run : 0..MaxRuns, saved : BOOLEAN,
                pc : {"idle", "sent", "running", "ended", "notified"}]
    /\ conn \in [Conns -> {"new", "read", "present", "live", "told", "replayed",
                           "left", "lost", "gone"}]
    /\ presence \subseteq Conns /\ late \subseteq Conns
    /\ notices \cup noticeSent \cup noticeDropped \cup hushed \subseteq Runs
    /\ streamFaults \in 0..MaxStreamFaults

(* An open stream hangs after the generation has ended only when it read    *)
(* the row before the end was committed and subscribed after the event was  *)
(* published, or the event never was; a notice is dropped only for a stream *)
(* that is open, was watched to the end, or vanished less than the presence *)
(* lifetime ago, and, while Redis answers, never sent past one that is open *)
(* or was watched to the end (routers/lessons.py:741-887,                   *)
(* tasks/video_pipeline.py:686-693).                                        *)
Hanging(c) == conn[c] = "live" /\ job.pc = "idle" /\ job.saved /\ Replays
Watching(c) == conn[c] \in {"present", "live", "told"}

EndSeenOrMailed ==
    [][ /\ \A c \in Conns : Hanging(c)' => c \in late' \/ job'.run \in hushed'
        /\ noticeDropped' # noticeDropped =>
             \E c \in Conns : Watching(c) \/ conn[c] = "lost"
        /\ noticeSent' # noticeSent /\ streamFaults' = 0 => ~\E c \in Conns : Watching(c)
      ]_progressVars
=============================================================================
