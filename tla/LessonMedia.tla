---------------------------- MODULE LessonMedia ----------------------------
(***************************************************************************)
(* The files of one lesson: rendered video versions, the one the player    *)
(* shows, uploaded videos, the daily collection of cold versions, and the  *)
(* materials a text lesson refers to.  Bytes in storage and rows in the    *)
(* database change in separate steps; a request or task that dies between  *)
(* them leaves one without the other.                                      *)
(***************************************************************************)
EXTENDS Naturals, FiniteSets

CONSTANTS
    Videos,             \* lesson_videos rows that may come to exist
    Publishers,         \* publish_video requests
    Materials,          \* lesson_materials rows that may come to exist
    Adders, Savers,     \* add_material and save_text_body requests
    KeepUnpublished,    \* LESSON_VIDEO_KEEP_UNPUBLISHED
    MaxMaterials,       \* LESSON_MATERIAL_MAX_FILES
    MaxDeaths           \* bound on dying requests and tasks (exploration only)

ASSUME MediaAssumption ==
    /\ KeepUnpublished \in Nat /\ MaxMaterials \in Nat /\ MaxDeaths \in Nat
    /\ Videos \cap Materials = {} /\ {"none", "upload"} \cap (Videos \cup Materials) = {}
    /\ {"idle", "checked"} \cap Materials = {}

VARIABLES
    version, published, \* lesson_videos; those with is_published
    createdAt,      \* when each version was created, 0 before
    cold,           \* versions past LESSON_VIDEO_UNPUBLISHED_TTL_DAYS
    player,         \* the file lesson.video_url names
    bytes,         \* objects in storage
    publisher, collector,       \* requests and the task in flight
    material, body,             \* lesson_materials ids, ids the text refers to
    adder, saver,               \* requests in flight
    madeVideos, madeMaterials,  \* how many versions came to be; ids used up
    mediaRaced, unbacked, swept,    \* history
    deaths

rowVars == <<version, published, createdAt, madeVideos>>
videoVars == <<rowVars, cold, player, publisher, collector, mediaRaced>>
textVars == <<material, body, adder, saver, madeMaterials, unbacked, swept>>
mediaVars == <<videoVars, textVars, bytes, deaths>>

NoPublisher == [pc |-> "idle", video |-> "none"]
NoCollector == [pc |-> "idle", published |-> 0, victims |-> {}]
NoSaver == [pc |-> "idle", refs |-> {}, orphans |-> {}]

Dies == deaths < MaxDeaths /\ deaths' = deaths + 1
Fresh(ids, used) == CHOOSE x \in ids \ used : TRUE

-----------------------------------------------------------------------------
(* The pipeline's last commit: a new version, unpublished.                 *)
VersionRendered ==
    /\ \E v \in Videos : createdAt[v] = 0
    /\ LET v == Fresh(Videos, {w \in Videos : createdAt[w] # 0})
       IN  /\ version' = version \cup {v} /\ bytes' = bytes \cup {v}
           /\ madeVideos' = madeVideos + 1
           /\ createdAt' = [createdAt EXCEPT ![v] = madeVideos']
    /\ UNCHANGED <<published, cold, player, publisher, collector, mediaRaced, textVars,
                   deaths>>

VersionAges(v) ==
    /\ v \in version \ cold
    /\ cold' = cold \cup {v}
    /\ UNCHANGED <<rowVars, player, bytes, publisher, collector, mediaRaced, textVars, deaths>>

(* upload_lesson_video: stores the file and points the player at it; no    *)
(* version is published or unpublished.                                    *)
UploadVideo ==
    /\ "upload" \notin bytes
    /\ bytes' = bytes \cup {"upload"} /\ player' = "upload"
    /\ UNCHANGED <<rowVars, cold, publisher, collector, mediaRaced, textVars, deaths>>

(* publish_video: the row is loaded, the others are unpublished by one     *)
(* UPDATE that does not see an uncommitted publication, then the commit.   *)
PublishLoads(p, v) ==
    /\ publisher[p].pc = "idle" /\ v \in version \ published
    /\ publisher' = [publisher EXCEPT ![p] = [pc |-> "loaded", video |-> v]]
    /\ mediaRaced' = (mediaRaced \/ collector.pc # "idle")
    /\ UNCHANGED <<rowVars, cold, player, bytes, collector, textVars, deaths>>

PublishUnpublishes(p) ==
    /\ publisher[p].pc = "loaded"
    /\ ~\E q \in Publishers : publisher[q].pc = "updated" /\ published # {}
    /\ publisher' = [publisher EXCEPT ![p].pc = "updated"]
    /\ UNCHANGED <<rowVars, cold, player, bytes, collector, mediaRaced, textVars, deaths>>

PublishCommits(p) ==
    LET v == publisher[p].video IN
    /\ publisher[p].pc = "updated"
    /\ publisher' = [publisher EXCEPT ![p] = NoPublisher]
    /\ IF v \in version THEN player' = v /\ published' = {v}
                         ELSE UNCHANGED <<player, published>>
    /\ UNCHANGED <<version, createdAt, madeVideos, cold, bytes, collector, mediaRaced,
                   textVars, deaths>>

(* _gc_lesson_videos_session: counts the published, lists the unpublished, *)
(* and evicts those beyond the kept ones that are past the time limit.     *)
CollectCounts ==
    /\ collector.pc = "idle" /\ version \ published # {}
    /\ collector' = [NoCollector EXCEPT !.pc = "counted",
                                        !.published = Cardinality(published)]
    /\ mediaRaced' = (mediaRaced \/ \E p \in Publishers : publisher[p].pc # "idle")
    /\ UNCHANGED <<rowVars, cold, player, bytes, publisher, textVars, deaths>>

Keep == IF collector.published = 0 /\ KeepUnpublished < 1 THEN 1 ELSE KeepUnpublished

Candidates_AllVersions == version
Candidates == version \ published
Younger(v) == {w \in Candidates : createdAt[w] > createdAt[v]}

CollectLists ==
    LET victims == {v \in Candidates : Cardinality(Younger(v)) >= Keep} \cap cold
    IN  /\ collector.pc = "counted"
        /\ collector' = IF victims = {} THEN NoCollector
                        ELSE [collector EXCEPT !.pc = "evicting", !.victims = victims]
        /\ UNCHANGED <<rowVars, cold, player, bytes, publisher, mediaRaced, textVars, deaths>>

CollectUnstores ==
    /\ collector.pc = "evicting"
    /\ bytes' = bytes \ collector.victims
    /\ collector' = [collector EXCEPT !.pc = "deleting"]
    /\ UNCHANGED <<rowVars, cold, player, publisher, mediaRaced, textVars, deaths>>

CollectDeletes ==
    /\ collector.pc = "deleting"
    /\ version' = version \ collector.victims
    /\ published' = published \ collector.victims
    /\ collector' = NoCollector
    /\ UNCHANGED <<createdAt, madeVideos, cold, player, bytes, publisher, mediaRaced,
                   textVars, deaths>>

(* A dead worker leaves rows without files.                                *)
CollectorDies ==
    /\ collector.pc # "idle" /\ Dies
    /\ mediaRaced' = (mediaRaced \/ collector.pc = "deleting")
    /\ collector' = NoCollector
    /\ UNCHANGED <<rowVars, cold, player, bytes, publisher, textVars>>

-----------------------------------------------------------------------------
(* add_material: the limits against the rows it listed, the bytes, the row. *)
AddChecks(a) ==
    /\ adder[a] = "idle" /\ Cardinality(material) < MaxMaterials
    /\ adder' = [adder EXCEPT ![a] = "checked"]
    /\ UNCHANGED <<videoVars, bytes, material, body, saver, madeMaterials, unbacked, swept,
                   deaths>>

AddStores(a) ==
    /\ adder[a] = "checked" /\ Materials \ madeMaterials # {}
    /\ LET m == Fresh(Materials, madeMaterials)
       IN  /\ bytes' = bytes \cup {m} /\ madeMaterials' = madeMaterials \cup {m}
           /\ adder' = [adder EXCEPT ![a] = m]
    /\ UNCHANGED <<videoVars, material, body, saver, unbacked, swept, deaths>>

AddCommits(a) ==
    /\ adder[a] \in Materials
    /\ material' = material \cup {adder[a]}
    /\ swept' = IF \E s \in Savers : saver[s].pc # "idle"
                THEN swept \cup {adder[a]} ELSE swept
    /\ adder' = [adder EXCEPT ![a] = "idle"]
    /\ UNCHANGED <<videoVars, bytes, body, saver, madeMaterials, unbacked, deaths>>

AdderDies(a) ==
    /\ adder[a] # "idle" /\ Dies
    /\ adder' = [adder EXCEPT ![a] = "idle"]
    /\ UNCHANGED <<videoVars, bytes, material, body, saver, madeMaterials, unbacked, swept>>

(* save_text_body: a body refers to materials its editor has seen; inline  *)
(* materials no longer referred to lose their bytes, then their rows with  *)
(* the new body.  Bodies saved at the same time sweep each other's.        *)
Orphans_ByOldBody(refs) == material \ body
Orphans(refs) == material \ refs

SaveLists(s, refs) ==
    /\ saver[s].pc = "idle" /\ refs \subseteq material
    /\ saver' = [saver EXCEPT ![s] = [pc |-> "listed", refs |-> refs,
                                      orphans |-> Orphans(refs)]]
    /\ swept' = IF \E t \in Savers : saver[t].pc # "idle" THEN swept \cup material ELSE swept
    /\ UNCHANGED <<videoVars, bytes, material, body, adder, madeMaterials, unbacked, deaths>>

SaveUnstores(s) ==
    /\ saver[s].pc = "listed"
    /\ bytes' = bytes \ saver[s].orphans
    /\ saver' = [saver EXCEPT ![s].pc = "unstored"]
    /\ UNCHANGED <<videoVars, material, body, adder, madeMaterials, unbacked, swept, deaths>>

SaveCommits(s) ==
    /\ saver[s].pc = "unstored"
    /\ body' = saver[s].refs
    /\ material' = material \ saver[s].orphans
    /\ saver' = [saver EXCEPT ![s] = NoSaver]
    /\ UNCHANGED <<videoVars, bytes, adder, madeMaterials, unbacked, swept, deaths>>

SaverDies(s) ==
    /\ saver[s].pc # "idle" /\ Dies
    /\ unbacked' = IF saver[s].pc = "unstored" THEN unbacked \cup saver[s].orphans
                   ELSE unbacked
    /\ saver' = [saver EXCEPT ![s] = NoSaver]
    /\ UNCHANGED <<videoVars, bytes, material, body, adder, madeMaterials, swept>>

-----------------------------------------------------------------------------
MediaInit ==
    /\ version = {} /\ published = {} /\ createdAt = [v \in Videos |-> 0]
    /\ cold = {} /\ player = "none" /\ bytes = {}
    /\ publisher = [p \in Publishers |-> NoPublisher] /\ collector = NoCollector
    /\ material = {} /\ body = {}
    /\ adder = [a \in Adders |-> "idle"] /\ saver = [s \in Savers |-> NoSaver]
    /\ madeVideos = 0 /\ madeMaterials = {}
    /\ mediaRaced = FALSE /\ unbacked = {} /\ swept = {} /\ deaths = 0

VideoNext ==
    \/ VersionRendered \/ UploadVideo
    \/ \E v \in Videos : VersionAges(v) \/ \E p \in Publishers : PublishLoads(p, v)
    \/ \E p \in Publishers : PublishUnpublishes(p) \/ PublishCommits(p)
    \/ CollectCounts \/ CollectLists \/ CollectUnstores \/ CollectDeletes \/ CollectorDies

TextNext ==
    \/ \E a \in Adders : AddChecks(a) \/ AddStores(a) \/ AddCommits(a) \/ AdderDies(a)
    \/ \E s \in Savers : \/ \E refs \in SUBSET Materials : SaveLists(s, refs)
                         \/ SaveUnstores(s) \/ SaveCommits(s) \/ SaverDies(s)

MediaSpec == MediaInit /\ [][VideoNext \/ TextNext]_mediaVars

MediaTypeOK ==
    /\ version \cup cold \subseteq Videos /\ published \subseteq version
    /\ createdAt \in [Videos -> 0..madeVideos] /\ madeVideos <= Cardinality(Videos)
    /\ player \in Videos \cup {"none", "upload"}
    /\ bytes \subseteq Videos \cup Materials \cup {"upload"}
    /\ publisher \in [Publishers -> [pc : {"idle", "loaded", "updated"},
                                     video : Videos \cup {"none"}]]
    /\ collector.pc \in {"idle", "counted", "evicting", "deleting"}
    /\ material \cup body \cup madeMaterials \cup swept \cup unbacked \subseteq Materials
    /\ adder \in [Adders -> {"idle", "checked"} \cup Materials]
    /\ saver \in [Savers -> [pc : {"idle", "listed", "unstored"}, refs : SUBSET Materials,
                             orphans : SUBSET Materials]]
    /\ mediaRaced \in BOOLEAN /\ deaths \in 0..MaxDeaths

(* PROPERTY: what the lesson shows is there: the player's version keeps    *)
(* its row and its bytes, every material the text refers to exists, and a  *)
(* material's row has its bytes, unless a publication overlapped the       *)
(* collection of cold versions, two saves (or a save and an upload)        *)
(* overlapped, or someone died between the bytes and the row; a save takes *)
(* the bytes it sweeps a moment before the text stops referring to them.   *)
(* The collection never takes a lesson's last version.                     *)
MediaIntact ==
    /\ player \in Videos => player \in version \cap bytes \/ mediaRaced
    /\ player = "upload" => "upload" \in bytes
    /\ body \subseteq (material \cap bytes) \cup swept \cup unbacked
                     \cup UNION {saver[s].orphans : s \in Savers}
    /\ \A m \in material \ bytes :
         m \in unbacked \/ \E s \in Savers : m \in saver[s].orphans
    /\ madeVideos # 0 => version # {}

=============================================================================
