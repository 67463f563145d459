----------------------------- MODULE Media_proofs -----------------------------
(***************************************************************************)
(* Proofs about what a lesson shows and says, for every number of videos,  *)
(* files, pages, texts and threads:                                        *)
(*   - LessonMedia: what the lesson shows and its texts need is there      *)
(*     (MediaStaysIntact);                                                 *)
(*   - Rendering: a finished video shows and says what the lesson does, or *)
(*     a named leftover spoiled it (VideosShowTheLesson);                  *)
(*   - Speech: what was said and what is left to say is the text, in       *)
(*     requests the provider takes (SpeechIsTheText).                      *)
(* Each component has an inductive invariant of named parts, one lemma per *)
(* action or group of actions that disturb the same parts, and the         *)
(* temporal theorem from those.                                            *)
(***************************************************************************)
EXTENDS LessonMedia, Rendering, Speech, FiniteSetTheorems, SequenceTheorems,
        WellFoundedInduction, TLAPS

(* Every non-empty set of numbers has a least one.                          *)
LEMMA LeastNumber ==
    ASSUME NEW B, B \subseteq Nat, B # {}
    PROVE  \E n \in B : \A m \in B : n <= m
<1>1. PICK n \in B : \A m \in B : ~(<<m, n>> \in OpToRel(<, Nat))
  BY NatLessThanWellFounded, WFMin
<1>2. ASSUME NEW m \in B PROVE n <= m
  <2>1. ~(m < n)
    BY <1>1, <1>2 DEF OpToRel
  <2>2. n \in Nat /\ m \in Nat
    OBVIOUS
  <2> QED BY <2>1, <2>2
<1> QED BY <1>2

-----------------------------------------------------------------------------
(* Lesson media: what the lesson shows is there.                            *)

Collecting == collector.pc \in {"evicting", "deleting"}

VideosTyped ==
    /\ version \subseteq Videos /\ published \subseteq version
    /\ createdAt \in [Videos -> Nat] /\ madeVideos \in Nat
    /\ \A v \in Videos : createdAt[v] <= madeVideos
    /\ \A v \in version : createdAt[v] # 0
    /\ publisher \in [Publishers -> [pc : {"idle", "loaded", "updated"},
                                     video : Videos \cup {"none"}]]
    /\ collector.pc \in {"idle", "counted", "evicting", "deleting"}
    /\ collector.victims \subseteq Videos

(* The lesson keeps a version: whoever is being collected leaves another.   *)
OneIsLeft ==
    /\ madeVideos # 0 => version # {}
    /\ collector.pc # "idle" => version # {}
    /\ collector.pc = "counted" => published # {} \/ collector.published = 0
    /\ Collecting => version \ collector.victims # {}

(* Without a race, nobody publishes while versions are being collected, and *)
(* what is collected is not published.                                      *)
Unraced ==
    /\ collector.pc # "idle" => \A p \in Publishers : publisher[p].pc = "idle"
    /\ Collecting => collector.victims \cap published = {}
    /\ version \subseteq bytes \cup (IF collector.pc = "deleting" THEN collector.victims ELSE {})
    /\ player \in Videos => player \in published
VideosSafe == ~mediaRaced => Unraced

UploadKept == player = "upload" => "upload" \in bytes

(* Bytes that are gone while their rows are not.                            *)
Unstored == UNION {saver[s].orphans : s \in {t \in Savers : saver[t].pc = "unstored"}}
Backed(ids) == ids \subseteq (material \cap bytes) \cup swept \cup unbacked \cup Unstored

TextsTyped ==
    /\ material \subseteq madeMaterials /\ madeMaterials \subseteq Materials
    /\ adder \in [Adders -> {"idle", "checked"} \cup Materials]
    /\ saver \in [Savers -> [pc : {"idle", "listed", "unstored"}, refs : SUBSET Materials,
                             orphans : SUBSET Materials]]
    /\ \A s \in Savers : /\ saver[s].orphans \subseteq madeMaterials
                         /\ saver[s].refs \cap saver[s].orphans = {}
                         /\ saver[s].pc = "idle" => saver[s].refs = {} /\ saver[s].orphans = {}

(* A material on its way is stored, and nobody else's yet.                  *)
AddersOwn ==
    /\ \A a \in Adders : adder[a] \in Materials =>
         /\ adder[a] \in (madeMaterials \cap bytes) \ material
         /\ \A s \in Savers : adder[a] \notin saver[s].orphans
    /\ \A a, b \in Adders : adder[a] \in Materials /\ adder[a] = adder[b] => a = b

(* Rows are backed; so is what a save refers to, and what another save      *)
(* would take from it is known to be swept.                                 *)
RowsBacked == material \subseteq bytes \cup unbacked \cup Unstored
TextsBacked ==
    /\ Backed(body) /\ \A s \in Savers : Backed(saver[s].refs)
    /\ \A s, t \in Savers : s # t => saver[s].refs \cap saver[t].orphans \subseteq swept

MediaInv ==
    /\ VideosTyped /\ OneIsLeft /\ VideosSafe /\ UploadKept
    /\ TextsTyped /\ AddersOwn /\ RowsBacked /\ TextsBacked

(* The invariant is what the lesson needs.                                  *)
LEMMA MediaInvSuffices == MediaInv => MediaIntact
<1> SUFFICES ASSUME MediaInv
             PROVE  MediaIntact
  OBVIOUS
<1>1. player \in Videos => player \in version \cap bytes \/ mediaRaced
  <2> SUFFICES ASSUME player \in Videos, ~mediaRaced
               PROVE  player \in version \cap bytes
    OBVIOUS
  <2>1. Unraced /\ player \in published /\ player \in version
    BY DEF MediaInv, VideosSafe, Unraced, VideosTyped
  <2> QED BY <2>1 DEF Unraced, Collecting
<1>2. Unstored \subseteq UNION {saver[s].orphans : s \in Savers}
  BY DEF Unstored
<1>3. body \subseteq (material \cap bytes) \cup swept \cup unbacked
                        \cup UNION {saver[s].orphans : s \in Savers}
  BY <1>2 DEF MediaInv, TextsBacked, Backed
<1>4. \A m \in material \ bytes :
         m \in unbacked \/ \E s \in Savers : m \in saver[s].orphans
  BY <1>2 DEF MediaInv, RowsBacked
<1> QED BY <1>1, <1>3, <1>4 DEF MediaIntact, MediaInv, UploadKept, OneIsLeft

-----------------------------------------------------------------------------
(* A version's making, ageing and publication; an upload.                   *)
LEMMA VersionsKeep ==
    ASSUME MediaInv,
           \/ VersionRendered \/ UploadVideo
           \/ \E v \in Videos : VersionAges(v) \/ \E p \in Publishers : PublishLoads(p, v)
           \/ \E p \in Publishers : PublishUnpublishes(p) \/ PublishCommits(p)
    PROVE  VideosTyped' /\ OneIsLeft' /\ VideosSafe' /\ UploadKept'
<1>0. VideosTyped /\ OneIsLeft /\ VideosSafe /\ UploadKept
  BY DEF MediaInv
<1>1. CASE VersionRendered
  <2> DEFINE v == Fresh(Videos, {w \in Videos : createdAt[w] # 0})
  <2>1. /\ v \in Videos /\ createdAt[v] = 0
        /\ version' = version \cup {v} /\ bytes' = bytes \cup {v}
        /\ madeVideos' = madeVideos + 1
        /\ createdAt' = [createdAt EXCEPT ![v] = madeVideos + 1]
        /\ UNCHANGED <<published, player, publisher, collector, mediaRaced>>
    BY <1>1 DEF VersionRendered, Fresh
  <2> HIDE DEF v
  <2>2. v \notin version
    BY <1>0, <2>1 DEF VideosTyped
  <2>3. VideosTyped'
    BY <1>0, <2>1 DEF VideosTyped
  <2>4. OneIsLeft'
    BY <1>0, <2>1, <2>2 DEF OneIsLeft, Collecting
  <2>5. VideosSafe' /\ UploadKept'
    BY <1>0, <2>1 DEF VideosSafe, Unraced, Collecting, UploadKept
  <2> QED BY <2>3, <2>4, <2>5
<1>2. CASE UploadVideo
  BY <1>0, <1>2, MediaAssumption
  DEF UploadVideo, rowVars, VideosTyped, OneIsLeft, VideosSafe, Unraced, Collecting, UploadKept
<1>3. ASSUME NEW v \in Videos, VersionAges(v)
      PROVE  VideosTyped' /\ OneIsLeft' /\ VideosSafe' /\ UploadKept'
  BY <1>0, <1>3
  DEF VersionAges, rowVars, VideosTyped, OneIsLeft, VideosSafe, Unraced, Collecting, UploadKept
<1>4. ASSUME NEW v \in Videos, NEW p \in Publishers, PublishLoads(p, v)
      PROVE  VideosTyped' /\ OneIsLeft' /\ VideosSafe' /\ UploadKept'
  BY <1>0, <1>4
  DEF PublishLoads, rowVars, VideosTyped, OneIsLeft, VideosSafe, Unraced, Collecting, UploadKept
<1>5. ASSUME NEW p \in Publishers, PublishUnpublishes(p)
      PROVE  VideosTyped' /\ OneIsLeft' /\ VideosSafe' /\ UploadKept'
  <2>1. publisher' \in [Publishers -> [pc : {"idle", "loaded", "updated"},
                                       video : Videos \cup {"none"}]]
    BY <1>0, <1>5 DEF PublishUnpublishes, VideosTyped
  <2>2. \A q \in Publishers : publisher'[q].pc = "idle" <=> publisher[q].pc = "idle"
    BY <1>0, <1>5 DEF PublishUnpublishes, VideosTyped
  <2> QED
    BY <1>0, <1>5, <2>1, <2>2
    DEF PublishUnpublishes, rowVars, VideosTyped, OneIsLeft, VideosSafe, Unraced, Collecting,
        UploadKept
<1>6. ASSUME NEW p \in Publishers, PublishCommits(p)
      PROVE  VideosTyped' /\ OneIsLeft' /\ VideosSafe' /\ UploadKept'
  <2> DEFINE v == publisher[p].video
  <2>1. /\ publisher[p].pc = "updated"
        /\ publisher' = [publisher EXCEPT ![p] = NoPublisher]
        /\ IF v \in version THEN player' = v /\ published' = {v}
                            ELSE UNCHANGED <<player, published>>
        /\ UNCHANGED <<version, createdAt, madeVideos, bytes, collector, mediaRaced>>
    BY <1>6 DEF PublishCommits
  <2> HIDE DEF v
  <2>2. VideosTyped'
    BY <1>0, <2>1 DEF VideosTyped, NoPublisher
  <2>3. OneIsLeft'
    BY <1>0, <2>1 DEF OneIsLeft, Collecting
  <2>4. VideosSafe'
    BY <1>0, <2>1 DEF VideosSafe, Unraced, Collecting
  <2>5. UploadKept'
    BY <1>0, <2>1, MediaAssumption DEF UploadKept, VideosTyped
  <2> QED BY <2>2, <2>3, <2>4, <2>5
<1> QED BY <1>1, <1>2, <1>3, <1>4, <1>5, <1>6

(* The youngest of the unpublished versions is no victim.                   *)
LEMMA YoungestIsLeft ==
    ASSUME VideosTyped, Candidates # {}
    PROVE  \E v \in Candidates : Younger(v) = {}
<1> DEFINE B == {n \in Nat : \A v \in Candidates : createdAt[v] <= n}
<1>1. madeVideos \in B
  BY DEF VideosTyped, Candidates
<1>2. PICK n \in B : \A m \in B : n <= m
  BY <1>1, LeastNumber
<1>3. PICK v \in Candidates : createdAt[v] = n
  <2> SUFFICES ASSUME \A v \in Candidates : createdAt[v] # n
               PROVE  FALSE
    OBVIOUS
  <2>1. n \in Nat /\ \A v \in Candidates : createdAt[v] \in Nat /\ createdAt[v] <= n
    BY DEF VideosTyped, Candidates
  <2>2. n # 0
    BY <2>1
  <2>3. n - 1 \in B
    BY <2>1, <2>2
  <2> QED BY <1>2, <2>1, <2>3
<1>4. \A w \in Candidates : createdAt[w] <= createdAt[v] /\ createdAt[w] \in Nat
  BY <1>3 DEF VideosTyped, Candidates
<1>5. Younger(v) = {}
  BY <1>4 DEF Younger
<1> QED BY <1>5

(* The collection: counting, listing, the bytes, the rows.                  *)
LEMMA CollectionKeeps ==
    ASSUME MediaInv,
           CollectCounts \/ CollectLists \/ CollectUnstores \/ CollectDeletes \/ CollectorDies
    PROVE  VideosTyped' /\ OneIsLeft' /\ VideosSafe' /\ UploadKept'
<1>0. VideosTyped /\ OneIsLeft /\ VideosSafe /\ UploadKept
  BY DEF MediaInv
<1>1. CASE CollectCounts
  <2> DEFINE k == [NoCollector EXCEPT !.pc = "counted", !.published = Cardinality(published)]
  <2>1. /\ k.pc = "counted" /\ k.victims = {} /\ k.published = Cardinality(published)
    BY DEF NoCollector
  <2>2. /\ collector' = k /\ version \ published # {}
        /\ mediaRaced' = (mediaRaced \/ \E p \in Publishers : publisher[p].pc # "idle")
        /\ collector.pc = "idle"
        /\ UNCHANGED <<rowVars, player, bytes, publisher>>
    BY <1>1 DEF CollectCounts
  <2> HIDE DEF k
  <2>3. published = {} => k.published = 0
    BY <2>1, FS_EmptySet
  <2> QED
    BY <1>0, <2>1, <2>2, <2>3
    DEF rowVars, VideosTyped, OneIsLeft, VideosSafe, Unraced, Collecting, UploadKept
<1>2. CASE CollectLists
  <2> DEFINE victims == {v \in Candidates : Cardinality(Younger(v)) >= Keep} \cap cold
             k == [collector EXCEPT !.pc = "evicting", !.victims = victims]
  <2>1. /\ collector.pc = "counted"
        /\ collector' = IF victims = {} THEN NoCollector ELSE k
        /\ UNCHANGED <<rowVars, player, bytes, publisher, mediaRaced>>
    BY <1>2 DEF CollectLists
  <2>2. victims \subseteq version \ published /\ victims \subseteq Videos
    BY <1>0 DEF Candidates, VideosTyped
  <2>3. version \ victims # {}
    <3>1. CASE published # {}
      BY <1>0, <2>2, <3>1 DEF VideosTyped
    <3>2. CASE published = {}
      <4>1. collector.published = 0 /\ version # {} /\ Candidates = version
        BY <1>0, <2>1, <3>2 DEF OneIsLeft, Candidates
      <4>2. PICK v \in Candidates : Younger(v) = {}
        BY <1>0, <4>1, YoungestIsLeft
      <4>3. Cardinality(Younger(v)) = 0 /\ Keep \in Nat /\ Keep >= 1
        BY <4>1, <4>2, FS_EmptySet, MediaAssumption DEF Keep
      <4>4. v \notin victims
        BY <4>3
      <4> QED BY <4>1, <4>4
    <3> QED BY <3>1, <3>2
  <2> HIDE DEF victims
  <2>4. CASE victims = {}
    <3>1. collector'.pc = "idle" /\ collector'.victims = {}
      BY <2>1, <2>4 DEF NoCollector
    <3> QED
      BY <1>0, <2>1, <3>1
      DEF rowVars, VideosTyped, OneIsLeft, VideosSafe, Unraced, Collecting, UploadKept
  <2>5. CASE victims # {}
    <3>1. collector'.pc = "evicting" /\ collector'.victims = victims
      BY <1>2, <2>1, <2>5 DEF NoCollector
    <3> QED
      BY <1>0, <2>1, <2>2, <2>3, <3>1
      DEF rowVars, VideosTyped, OneIsLeft, VideosSafe, Unraced, Collecting, UploadKept
  <2> QED BY <2>4, <2>5
<1>3. CASE CollectUnstores
  <2>1. collector'.pc = "deleting" /\ collector'.victims = collector.victims
    BY <1>3 DEF CollectUnstores
  <2> QED
    BY <1>0, <1>3, <2>1, MediaAssumption
    DEF CollectUnstores, rowVars, VideosTyped, OneIsLeft, VideosSafe, Unraced, Collecting,
        UploadKept
<1>4. CASE CollectDeletes
  <2>1. collector'.pc = "idle" /\ collector'.victims = {}
    BY <1>4 DEF CollectDeletes, NoCollector
  <2>2. collector.pc = "deleting" /\ version' = version \ collector.victims
        /\ published' = published \ collector.victims
        /\ UNCHANGED <<createdAt, madeVideos, player, bytes, publisher, mediaRaced>>
    BY <1>4 DEF CollectDeletes
  <2> QED
    BY <1>0, <2>1, <2>2
    DEF VideosTyped, OneIsLeft, VideosSafe, Unraced, Collecting, UploadKept
<1>5. CASE CollectorDies
  <2>1. collector'.pc = "idle" /\ collector'.victims = {}
    BY <1>5 DEF CollectorDies, NoCollector
  <2> QED
    BY <1>0, <1>5, <2>1
    DEF CollectorDies, rowVars, VideosTyped, OneIsLeft, VideosSafe, Unraced, Collecting,
        UploadKept
<1> QED BY <1>1, <1>2, <1>3, <1>4, <1>5

(* What the videos' steps do to the texts: no material is touched.          *)
LEMMA VideosLeaveTexts ==
    ASSUME MediaInv, VideoNext
    PROVE  TextsTyped' /\ AddersOwn' /\ RowsBacked' /\ TextsBacked'
<1>1. UNCHANGED textVars
  BY DEF VideoNext, VersionRendered, UploadVideo, VersionAges, PublishLoads, PublishUnpublishes,
         PublishCommits, CollectCounts, CollectLists, CollectUnstores, CollectDeletes,
         CollectorDies
<1>2. bytes \cap Materials \subseteq bytes'
  <2>1. VideosTyped
    BY DEF MediaInv
  <2>2. CASE CollectUnstores
    BY <2>1, <2>2, MediaAssumption DEF CollectUnstores, VideosTyped
  <2>3. CASE ~CollectUnstores
    BY <2>3 DEF VideoNext, VersionRendered, UploadVideo, VersionAges, PublishLoads,
                PublishUnpublishes, PublishCommits, CollectCounts, CollectLists, CollectDeletes,
                CollectorDies
  <2> QED BY <2>2, <2>3
<1>3. Unstored' = Unstored
  BY <1>1 DEF textVars, Unstored
<1> QED
  BY <1>1, <1>2, <1>3
  DEF MediaInv, textVars, TextsTyped, AddersOwn, RowsBacked, TextsBacked, Backed

(* And the texts' steps to the videos.                                      *)
LEMMA TextsLeaveVideos ==
    ASSUME MediaInv, TextNext
    PROVE  VideosTyped' /\ OneIsLeft' /\ VideosSafe' /\ UploadKept'
<1>1. UNCHANGED videoVars
  BY DEF TextNext, AddChecks, AddStores, AddCommits, AdderDies, SaveLists, SaveUnstores,
         SaveCommits, SaverDies
<1>2. bytes \cap (Videos \cup {"upload"}) \subseteq bytes'
  <2>1. CASE \E s \in Savers : SaveUnstores(s)
    BY <2>1, MediaAssumption DEF SaveUnstores, MediaInv, TextsTyped
  <2>2. CASE ~\E s \in Savers : SaveUnstores(s)
    BY <2>2 DEF TextNext, AddChecks, AddStores, AddCommits, AdderDies, SaveLists, SaveCommits,
                SaverDies
  <2> QED BY <2>1, <2>2
<1> QED
  BY <1>1, <1>2
  DEF MediaInv, videoVars, rowVars, VideosTyped, OneIsLeft, VideosSafe, Unraced, Collecting,
      UploadKept

-----------------------------------------------------------------------------
(* An upload to the text: checked, stored, committed.                       *)
LEMMA AddsKeep ==
    ASSUME MediaInv, NEW a \in Adders,
           AddChecks(a) \/ AddStores(a) \/ AddCommits(a) \/ AdderDies(a)
    PROVE  TextsTyped' /\ AddersOwn' /\ RowsBacked' /\ TextsBacked'
<1>0. TextsTyped /\ AddersOwn /\ RowsBacked /\ TextsBacked
  BY DEF MediaInv
<1>1. saver' = saver /\ body' = body /\ unbacked' = unbacked /\ Unstored' = Unstored
  BY DEF AddChecks, AddStores, AddCommits, AdderDies, Unstored
<1>2. CASE AddChecks(a) \/ AdderDies(a)
  <2>1. /\ adder' \in [Adders -> {"idle", "checked"} \cup Materials]
        /\ \A b \in Adders : adder'[b] \in Materials => adder'[b] = adder[b]
    BY <1>0, <1>2, MediaAssumption DEF AddChecks, AdderDies, TextsTyped
  <2>2. UNCHANGED <<bytes, material, madeMaterials, swept>>
    BY <1>2 DEF AddChecks, AdderDies
  <2> QED
    BY <1>0, <1>1, <2>1, <2>2 DEF TextsTyped, AddersOwn, RowsBacked, TextsBacked, Backed
<1>3. CASE AddStores(a)
  <2> DEFINE m == Fresh(Materials, madeMaterials)
  <2>1. /\ m \in Materials \ madeMaterials
        /\ bytes' = bytes \cup {m} /\ madeMaterials' = madeMaterials \cup {m}
        /\ adder' = [adder EXCEPT ![a] = m]
        /\ UNCHANGED <<material, swept>>
    BY <1>3 DEF AddStores, Fresh
  <2> HIDE DEF m
  <2>2. TextsTyped'
    BY <1>0, <1>1, <2>1 DEF TextsTyped
  <2>3. AddersOwn'
    BY <1>0, <1>1, <2>1 DEF TextsTyped, AddersOwn
  <2>4. RowsBacked' /\ TextsBacked'
    BY <1>0, <1>1, <2>1 DEF RowsBacked, TextsBacked, Backed
  <2> QED BY <2>2, <2>3, <2>4
<1>4. CASE AddCommits(a)
  <2>1. /\ adder[a] \in Materials /\ material' = material \cup {adder[a]}
        /\ adder' = [adder EXCEPT ![a] = "idle"]
        /\ swept \subseteq swept' /\ UNCHANGED <<bytes, madeMaterials>>
    BY <1>4 DEF AddCommits
  <2>2. TextsTyped'
    BY <1>0, <1>1, <2>1 DEF TextsTyped, AddersOwn
  <2>3. AddersOwn'
    BY <1>0, <1>1, <2>1, MediaAssumption DEF TextsTyped, AddersOwn
  <2>4. RowsBacked' /\ TextsBacked'
    BY <1>0, <1>1, <2>1 DEF AddersOwn, RowsBacked, TextsBacked, Backed
  <2> QED BY <2>2, <2>3, <2>4
<1> QED BY <1>2, <1>3, <1>4

(* A save: it lists, takes the bytes, commits, or dies.                     *)
LEMMA ListingKeeps ==
    ASSUME MediaInv, NEW s \in Savers, NEW refs \in SUBSET Materials, SaveLists(s, refs)
    PROVE  TextsTyped' /\ AddersOwn' /\ RowsBacked' /\ TextsBacked'
<1> DEFINE k == [pc |-> "listed", refs |-> refs, orphans |-> Orphans(refs)]
<1>0. TextsTyped /\ AddersOwn /\ RowsBacked /\ TextsBacked
  BY DEF MediaInv
<1>1. /\ saver[s].pc = "idle" /\ refs \subseteq material
      /\ saver' = [saver EXCEPT ![s] = k]
      /\ swept' = IF \E t \in Savers : saver[t].pc # "idle" THEN swept \cup material
                  ELSE swept
      /\ UNCHANGED <<bytes, material, body, adder, madeMaterials, unbacked>>
  BY DEF SaveLists
<1>2. /\ k.pc = "listed" /\ k.refs = refs /\ k.orphans = material \ refs
      /\ k \in [pc : {"idle", "listed", "unstored"}, refs : SUBSET Materials,
                 orphans : SUBSET Materials]
  BY <1>0 DEF Orphans, TextsTyped
<1> HIDE DEF k
<1>3. saver'[s] = k /\ \A t \in Savers \ {s} : saver'[t] = saver[t]
  BY <1>0, <1>1 DEF TextsTyped
<1>4. Unstored' = Unstored
  BY <1>1, <1>2, <1>3 DEF Unstored
<1>5. TextsTyped'
  BY <1>0, <1>1, <1>2, <1>3 DEF TextsTyped
<1>6. AddersOwn' /\ RowsBacked'
  BY <1>0, <1>1, <1>2, <1>3, <1>4 DEF AddersOwn, RowsBacked
<1>7. TextsBacked'
  <2>1. swept \subseteq swept'
    BY <1>1
  <2>2. Backed(body)' /\ \A t \in Savers : Backed(saver[t].refs)'
    BY <1>0, <1>1, <1>2, <1>3, <1>4, <2>1 DEF TextsBacked, Backed, RowsBacked
  <2>3. ASSUME NEW t \in Savers, NEW u \in Savers, t # u
        PROVE  saver'[t].refs \cap saver'[u].orphans \subseteq swept'
    <3>1. CASE t # s /\ u # s
      BY <1>0, <1>3, <2>1, <2>3, <3>1 DEF TextsBacked
    <3>2. CASE t = s
      <4>1. CASE saver[u].pc = "idle"
        BY <1>0, <1>3, <2>3, <3>2, <4>1 DEF TextsTyped
      <4>2. CASE saver[u].pc # "idle"
        BY <1>1, <1>2, <1>3, <3>2, <4>2
      <4> QED BY <4>1, <4>2
    <3>3. CASE u = s
      <4>1. CASE saver[t].pc = "idle"
        BY <1>0, <1>3, <2>3, <3>3, <4>1 DEF TextsTyped
      <4>2. CASE saver[t].pc # "idle"
        BY <1>1, <1>2, <1>3, <3>3, <4>2
      <4> QED BY <4>1, <4>2
    <3> QED BY <3>1, <3>2, <3>3
  <2> QED BY <2>2, <2>3 DEF TextsBacked
<1> QED BY <1>5, <1>6, <1>7

(* The bytes first, then the rows and the text, in one commit.              *)
LEMMA SavesKeep ==
    ASSUME MediaInv, NEW s \in Savers, SaveUnstores(s) \/ SaveCommits(s) \/ SaverDies(s)
    PROVE  TextsTyped' /\ AddersOwn' /\ RowsBacked' /\ TextsBacked'
<1> DEFINE old == saver[s]
<1>0. TextsTyped /\ AddersOwn /\ RowsBacked /\ TextsBacked
  BY DEF MediaInv
<1>1. CASE SaveUnstores(s)
  <2> DEFINE k == [old EXCEPT !.pc = "unstored"]
  <2>1. /\ k.pc = "unstored" /\ k.refs = old.refs /\ k.orphans = old.orphans
        /\ k \in [pc : {"idle", "listed", "unstored"}, refs : SUBSET Materials,
                   orphans : SUBSET Materials]
    BY <1>0 DEF TextsTyped
  <2>2. /\ saver' = [saver EXCEPT ![s] = k] /\ bytes' = bytes \ old.orphans
        /\ UNCHANGED <<material, body, adder, madeMaterials, unbacked, swept>>
    BY <1>1 DEF SaveUnstores
  <2> HIDE DEF k
  <2>3. saver'[s] = k /\ \A t \in Savers \ {s} : saver'[t] = saver[t]
    BY <1>0, <2>2 DEF TextsTyped
  <2>4. TextsTyped'
    BY <1>0, <2>1, <2>2, <2>3 DEF TextsTyped
  <2>5. AddersOwn'
    BY <1>0, <2>1, <2>2, <2>3 DEF AddersOwn
  <2>6. Unstored \cup old.orphans \subseteq Unstored'
    BY <2>1, <2>3 DEF Unstored
  <2>7. RowsBacked'
    BY <1>0, <2>2, <2>6 DEF RowsBacked
  <2>8. TextsBacked'
    BY <1>0, <2>1, <2>2, <2>3, <2>6 DEF TextsBacked, Backed
  <2> QED BY <2>4, <2>5, <2>7, <2>8
<1>2. CASE SaveCommits(s)
  <2>1. /\ old.pc = "unstored" /\ body' = old.refs /\ material' = material \ old.orphans
        /\ saver' = [saver EXCEPT ![s] = NoSaver]
        /\ UNCHANGED <<bytes, adder, madeMaterials, unbacked, swept>>
    BY <1>2 DEF SaveCommits
  <2>2. saver'[s] = NoSaver /\ \A t \in Savers \ {s} : saver'[t] = saver[t]
    BY <1>0, <2>1 DEF TextsTyped
  <2>3. /\ NoSaver.pc = "idle" /\ NoSaver.refs = {} /\ NoSaver.orphans = {}
        /\ NoSaver \in [pc : {"idle", "listed", "unstored"}, refs : SUBSET Materials,
                         orphans : SUBSET Materials]
    BY DEF NoSaver
  <2>4. TextsTyped'
    BY <1>0, <2>1, <2>2, <2>3 DEF TextsTyped
  <2>5. AddersOwn'
    BY <1>0, <2>1, <2>2, <2>3 DEF AddersOwn
  <2>6. Unstored \subseteq Unstored' \cup old.orphans
    BY <2>2 DEF Unstored
  <2>7. RowsBacked'
    BY <1>0, <2>1, <2>6 DEF RowsBacked
  <2>8. Backed(body)'
    BY <1>0, <2>1, <2>6 DEF TextsTyped, TextsBacked, Backed
  <2>9. ASSUME NEW t \in Savers
        PROVE  Backed(saver[t].refs)'
    <3>1. CASE t = s
      BY <2>2, <2>3, <3>1 DEF Backed
    <3>2. CASE t # s
      <4>1. saver[t].refs \cap old.orphans \subseteq swept
        BY <1>0, <3>2 DEF TextsBacked
      <4> QED BY <1>0, <2>1, <2>2, <2>6, <3>2, <4>1 DEF TextsBacked, Backed
    <3> QED BY <3>1, <3>2
  <2>10. \A t, u \in Savers : t # u => saver'[t].refs \cap saver'[u].orphans \subseteq swept'
    BY <1>0, <2>1, <2>2, <2>3 DEF TextsBacked
  <2> QED BY <2>4, <2>5, <2>7, <2>8, <2>9, <2>10 DEF TextsBacked
<1>3. CASE SaverDies(s)
  <2>1. /\ unbacked' = IF old.pc = "unstored" THEN unbacked \cup old.orphans ELSE unbacked
        /\ saver' = [saver EXCEPT ![s] = NoSaver]
        /\ UNCHANGED <<bytes, material, body, adder, madeMaterials, swept>>
    BY <1>3 DEF SaverDies
  <2>2. saver'[s] = NoSaver /\ \A t \in Savers \ {s} : saver'[t] = saver[t]
    BY <1>0, <2>1 DEF TextsTyped
  <2>3. /\ NoSaver.pc = "idle" /\ NoSaver.refs = {} /\ NoSaver.orphans = {}
        /\ NoSaver \in [pc : {"idle", "listed", "unstored"}, refs : SUBSET Materials,
                         orphans : SUBSET Materials]
    BY DEF NoSaver
  <2>4. TextsTyped' /\ AddersOwn'
    BY <1>0, <2>1, <2>2, <2>3 DEF TextsTyped, AddersOwn
  <2>5. Unstored \cup unbacked \subseteq Unstored' \cup unbacked'
    BY <2>1, <2>2 DEF Unstored
  <2>6. RowsBacked'
    BY <1>0, <2>1, <2>5 DEF RowsBacked
  <2>7. TextsBacked'
    BY <1>0, <2>1, <2>2, <2>3, <2>5 DEF TextsBacked, Backed
  <2> QED BY <2>4, <2>6, <2>7
<1> QED BY <1>1, <1>2, <1>3

(* A new lesson has neither versions nor materials.                         *)
LEMMA MediaStart == MediaInit => MediaInv
  BY MediaAssumption
  DEF MediaInit, MediaInv, VideosTyped, OneIsLeft, VideosSafe, Unraced, Collecting, UploadKept,
      TextsTyped, AddersOwn, RowsBacked, TextsBacked, Backed, Unstored, NoPublisher,
      NoCollector, NoSaver

(* Every step keeps what the lesson shows.                                  *)
LEMMA MediaStep == MediaInv /\ [VideoNext \/ TextNext]_mediaVars => MediaInv'
<1>1. MediaInv /\ VideoNext => MediaInv'
  BY VersionsKeep, CollectionKeeps, VideosLeaveTexts DEF VideoNext, MediaInv
<1>2. MediaInv /\ TextNext => MediaInv'
  BY TextsLeaveVideos, AddsKeep, ListingKeeps, SavesKeep DEF TextNext, MediaInv
<1>3. MediaInv /\ UNCHANGED mediaVars => MediaInv'
  BY DEF MediaInv, mediaVars, videoVars, rowVars, textVars, VideosTyped, OneIsLeft,
         VideosSafe, Unraced, Collecting, UploadKept, TextsTyped, AddersOwn, RowsBacked,
         TextsBacked, Backed, Unstored
<1> QED BY <1>1, <1>2, <1>3

(* The invariant holds from the start, whatever publishers, collectors,      *)
(* uploads and purges do.                                                   *)
LEMMA MediaInvariant == MediaSpec => []MediaInv
  BY MediaStart, MediaStep, PTL DEF MediaSpec

(* What a lesson shows is there, its player's version and its text's        *)
(* materials, but for the overlaps and deaths the statement names; and the  *)
(* collection of cold versions never takes a lesson's last one              *)
(* (routers/lessons.py:1014-1060, tasks/purge_pipeline.py:756-809).         *)
THEOREM MediaStaysIntact == MediaSpec => []MediaIntact
  BY MediaInvariant, MediaInvSuffices, PTL

(* What the type invariant adds: versions are counted, and every name is one*)
(* of those there are.                                                      *)
Rendered == {v \in Videos : createdAt[v] # 0}

MediaBounded ==
    /\ IsFiniteSet(Videos) => madeVideos = Cardinality(Rendered)
    /\ cold \subseteq Videos /\ player \in Videos \cup {"none", "upload"}
    /\ bytes \subseteq Videos \cup Materials \cup {"upload"}
    /\ body \cup swept \cup unbacked \subseteq Materials
    /\ mediaRaced \in BOOLEAN /\ deaths \in 0..MaxDeaths

MediaAll == MediaInv /\ MediaBounded

(* At first nothing is rendered.                                            *)
LEMMA MediaAllStart == MediaInit => MediaAll
<1> SUFFICES ASSUME MediaInit PROVE MediaBounded
  BY MediaStart DEF MediaAll
<1>1. Rendered = {}
  BY DEF MediaInit, Rendered
<1>2. madeVideos = Cardinality(Rendered)
  BY <1>1, FS_EmptySet DEF MediaInit
<1>3. mediaRaced \in BOOLEAN
  BY DEF MediaInit
<1>4. deaths \in 0..MaxDeaths
  BY MediaAssumption DEF MediaInit
<1> QED BY <1>2, <1>3, <1>4 DEF MediaInit, MediaBounded

(* One more version is one more to count.                                   *)
LEMMA VersionsCounted ==
    ASSUME VideosTyped, IsFiniteSet(Videos), madeVideos = Cardinality(Rendered), VersionRendered
    PROVE  madeVideos' = Cardinality(Rendered')
<1> DEFINE v == Fresh(Videos, {w \in Videos : createdAt[w] # 0})
<1>1. v \in Videos /\ createdAt[v] = 0
  BY DEF VersionRendered, Fresh
<1>2. madeVideos' = madeVideos + 1 /\ createdAt' = [createdAt EXCEPT ![v] = madeVideos']
  BY DEF VersionRendered
<1> HIDE DEF v
<1>3. /\ createdAt' \in [Videos -> Nat] /\ createdAt'[v] # 0
      /\ \A w \in Videos \ {v} : createdAt'[w] = createdAt[w]
  BY <1>1, <1>2 DEF VideosTyped
<1>4. Rendered' = Rendered \cup {v} /\ v \notin Rendered
  BY <1>1, <1>3 DEF Rendered
<1>5. IsFiniteSet(Rendered)
  BY FS_Subset DEF Rendered
<1> QED BY <1>2, <1>4, <1>5, FS_AddElement

(* A step renders one version more, or none.                                *)
LEMMA MediaAllStep == MediaAll /\ [VideoNext \/ TextNext]_mediaVars => MediaAll'
<1> SUFFICES ASSUME MediaAll, [VideoNext \/ TextNext]_mediaVars PROVE MediaAll'
  OBVIOUS
<1>0. /\ MediaInv /\ MediaBounded /\ VideosTyped /\ TextsTyped /\ MaxDeaths \in Nat
  BY MediaAssumption DEF MediaAll, MediaInv
<1>1. MediaInv'
  BY <1>0, MediaStep
<1>2. VideosTyped' /\ TextsTyped'
  BY <1>1 DEF MediaInv
<1>3. MediaBounded'
  <2>1. CASE VersionRendered
    <3>1. version' \subseteq Videos /\ bytes' \subseteq bytes \cup version'
      BY <1>2, <2>1 DEF VersionRendered, VideosTyped
    <3>2. IsFiniteSet(Videos) => madeVideos' = Cardinality(Rendered')
      BY <1>0, <2>1, VersionsCounted DEF MediaBounded
    <3> QED BY <1>0, <2>1, <3>1, <3>2 DEF VersionRendered, MediaBounded, textVars
  <2>2. CASE UNCHANGED <<createdAt, madeVideos>>
    <3>1. IsFiniteSet(Videos) => madeVideos' = Cardinality(Rendered')
      BY <1>0, <2>2 DEF MediaBounded, Rendered
    <3> USE <1>0, <1>2 DEF VideoNext, TextNext, mediaVars, videoVars, rowVars, textVars, VersionRendered,
           UploadVideo, VersionAges, PublishLoads, PublishUnpublishes, PublishCommits,
           CollectCounts, CollectLists, CollectUnstores, CollectDeletes, CollectorDies, Dies,
           AddChecks, AddStores, AddCommits, AdderDies, SaveLists, SaveUnstores, SaveCommits,
           SaverDies
    <3>2. mediaRaced' \in BOOLEAN
      BY DEF MediaBounded, VideosTyped, TextsTyped
    <3>3. deaths' \in 0..MaxDeaths
      BY DEF MediaBounded, VideosTyped, TextsTyped
    <3>4. cold' \subseteq Videos
      BY DEF MediaBounded, VideosTyped, TextsTyped
    <3>5. player' \in Videos \cup {"none", "upload"}
      BY DEF MediaBounded, VideosTyped, TextsTyped
    <3>6. bytes' \subseteq Videos \cup Materials \cup {"upload"}
      BY DEF MediaBounded, VideosTyped, TextsTyped
    <3>7. body' \cup swept' \cup unbacked' \subseteq Materials
      BY DEF MediaBounded, VideosTyped, TextsTyped
    <3> QED BY <3>1, <3>2, <3>3, <3>4, <3>5, <3>6, <3>7 DEF MediaBounded
  <2>3. VersionRendered \/ UNCHANGED <<createdAt, madeVideos>>
    BY DEF VideoNext, TextNext, mediaVars, videoVars, rowVars, UploadVideo, VersionAges,
           PublishLoads, PublishUnpublishes, PublishCommits, CollectCounts, CollectLists,
           CollectUnstores, CollectDeletes, CollectorDies, AddChecks, AddStores, AddCommits,
           AdderDies, SaveLists, SaveUnstores, SaveCommits, SaverDies
  <2> QED BY <2>1, <2>2, <2>3
<1> QED BY <1>1, <1>3 DEF MediaAll

(* There are never more versions than names for them.                       *)
LEMMA MediaAllTyped == ASSUME MediaAll, IsFiniteSet(Videos) PROVE MediaTypeOK
<1>1. VideosTyped /\ TextsTyped /\ MediaBounded
  BY DEF MediaAll, MediaInv
<1>2. madeVideos <= Cardinality(Videos)
  BY <1>1, FS_Subset DEF MediaBounded, Rendered
<1>3. createdAt \in [Videos -> 0..madeVideos]
  BY <1>1 DEF VideosTyped
<1> QED BY <1>1, <1>2, <1>3 DEF VideosTyped, TextsTyped, MediaBounded, MediaTypeOK


-----------------------------------------------------------------------------
(* Rendering: only what the model names as left over, cut short or stale    *)
(* can make a finished video differ from its lesson.                        *)

(* A run between its pickup and its end.                                    *)
UnderWay == {"looking", "converting", "filling", "scripting", "voicing",
             "cleaning", "removing"}

Counted(f) == \E n \in Nat : DOMAIN f = 1..n

(* What the prover has to know of the shapes of records and functions.     *)
RunShape ==
    /\ run = [pc |-> run.pc, voice |-> run.voice, proc |-> run.proc,
              images |-> run.images, said |-> run.said, slide |-> run.slide,
              stale |-> run.stale]
    /\ run.pc \in {"idle", "queued"} \cup UnderWay
    /\ run.pc \in UnderWay => run.proc \in Procs
    /\ run.pc \in {"filling", "scripting", "voicing"} => Counted(run.images)

CacheShape ==
    /\ DOMAIN slidesCache = Decks /\ DOMAIN memory = Procs
    /\ \A p \in Procs : DOMAIN memory[p] = Decks
    /\ \A d \in Decks : IsFiniteSet(DOMAIN slidesCache[d])
    /\ \A p \in Procs, d \in Decks : Counted(memory[p][d])

RestShape ==
    /\ lesson = [deck |-> lesson.deck, text |-> lesson.text, auto |-> lesson.auto]
    /\ lesson.deck \in Decks
    /\ peer = [deck |-> peer.deck, next |-> peer.next]
    /\ checkpoint = [voice |-> checkpoint.voice, said |-> checkpoint.said,
                     segments |-> checkpoint.segments]
    /\ Counted(workSlides)

Shaped == RunShape /\ CacheShape /\ RestShape

(* A finished segment is never found again, so no narration is older than   *)
(* the run.                                                                 *)
NothingResumed == \A f \in DOMAIN segFiles : f[1] = "_seg"

(* What an unfinished run left is about something it was started with; a    *)
(* run that is not stale found only its own.                                *)
PicturesLeft ==
    \A n \in DOMAIN workSlides :
       \E m \in leftover : m[1] \in Decks /\ workSlides[n] = m[1] /\ n <= DeckSize[m[1]]

NarrationLeft ==
    /\ checkpoint.said # <<>> /\ ~lesson.auto =>
          \E m \in leftover : \E n \in Nat : checkpoint.said = Told(m[2], n)
    /\ run.pc = "removing" => checkpoint.said = <<>>

LeftoverKnown ==
    run.pc \in UnderWay => /\ Material \in leftover
                           /\ run.stale \/ leftover = {Material}

LeftBehind == PicturesLeft /\ NarrationLeft /\ LeftoverKnown

(* The other lesson's task has drawn the pictures before the next.          *)
PeerOrderly ==
    \/ peer = NoPeer
    \/ /\ peer.deck \in Decks /\ peer.next \in 1..DeckSize[peer.deck]
       /\ \A n \in 1..(peer.next - 1) : n \in DOMAIN slidesCache[peer.deck]

(* The cache and what the processes remember of it, for an untainted deck.  *)
InCache(d) == [n \in 1..DeckSize[d] |-> <<"cache", d, n>>]
OnDisk(d) == [n \in 1..DeckSize[d] |-> <<"work", n>>]

PicturesPure(d) ==
    \A n \in DOMAIN slidesCache[d] : n \in 1..DeckSize[d] /\ slidesCache[d][n] = d

FullOrFilling(d) ==
    \/ DOMAIN slidesCache[d] \in {{}, 1..DeckSize[d]}
    \/ peer # NoPeer /\ peer.deck = d
    \/ run.pc = "filling" /\ lesson.deck = d

MemoryPure(d) == \A p \in Procs : memory[p][d] \in {<<>>, InCache(d)}

Pure(d) == d \notin tainted => PicturesPure(d) /\ FullOrFilling(d) /\ MemoryPure(d)

(* An audio file is whole, or known to be cut, or being copied.             *)
Copying(key) ==
    /\ run.pc = "voicing"
    /\ \E k \in DOMAIN run.slide : run.slide[k] = "copying" /\ AudioKey(k) = key

VoicesKept ==
    \A key \in DOMAIN voiceCache :
        /\ \E whole \in BOOLEAN : voiceCache[key] = [voice |-> key[2], whole |-> whole]
        /\ voiceCache[key].whole \/ key \in tainted \/ Copying(key)

(* The run, unless it has an excuse: the pictures are the deck's, the       *)
(* narration the lesson's, and the segments made of them.                   *)
Unspoiled == ~run.stale /\ lesson.deck \notin tainted

Pictured ==
    \/ run.images = InCache(lesson.deck)
    \/ /\ run.images = OnDisk(lesson.deck)
       /\ 1..DeckSize[lesson.deck] \subseteq DOMAIN workSlides

Sounds(key) == key \in DOMAIN voiceCache /\ (voiceCache[key].whole \/ key \in tainted)

Segment(k) ==
    /\ SegName(k) \in DOMAIN segFiles
    /\ \E whole \in BOOLEAN :
          /\ segFiles[SegName(k)] =
                [deck |-> lesson.deck, number |-> k, said |-> <<lesson.text, k>>,
                 audio |-> [voice |-> run.voice, whole |-> whole]]
          /\ whole \/ <<<<lesson.text, k>>, run.voice>> \in tainted

Telling ==
    /\ run.said = Told(lesson.text, DeckSize[lesson.deck])
    /\ DOMAIN run.slide = 1..DeckSize[lesson.deck]
    /\ \A k \in DOMAIN run.slide :
          /\ run.slide[k] = "copying" => AudioKey(k) \in DOMAIN voiceCache
          /\ run.slide[k] = "voiced" => Sounds(AudioKey(k))
          /\ run.slide[k] = "encoded" => Segment(k)

OnTrack ==
    /\ run.pc = "filling" => 1..DeckSize[lesson.deck] \subseteq DOMAIN workSlides
    /\ run.pc \in {"filling", "scripting", "voicing"} /\ Unspoiled => Pictured
    /\ run.pc = "voicing" /\ Unspoiled => Telling

RenderInv ==
    /\ Shaped /\ NothingResumed /\ LeftBehind /\ PeerOrderly
    /\ \A d \in Decks : Pure(d)
    /\ VoicesKept /\ OnTrack

-----------------------------------------------------------------------------
(* The length of a sequence known by its domain.                            *)
LEMMA LenOfCounted ==
    ASSUME NEW f, NEW n \in Nat, DOMAIN f = 1..n
    PROVE  Len(f) = n
OBVIOUS

(* Narrations of the same length differ only in the text.                   *)
LEMMA ToldLength ==
    ASSUME NEW t, NEW n \in Nat
    PROVE  Len(Told(t, n)) = n /\ \A k \in 1..n : Told(t, n)[k] = <<t, k>>
BY DEF Told

(* A full cache, listed in order, is the deck's pictures in order.          *)
LEMMA FullCacheListed ==
    ASSUME NEW d, DeckSize[d] \in Nat, DOMAIN slidesCache[d] = 1..DeckSize[d]
    PROVE  CachePaths(d) = InCache(d)
<1> DEFINE size == DeckSize[d]
           before(n) == {m \in 1..size : m < n}
<1>1. \A n \in 1..size : Cardinality(before(n)) = n - 1
  <2> TAKE n \in 1..size
  <2>1. before(n) = 1..(n - 1)
    OBVIOUS
  <2>2. 1 \in Int /\ n - 1 \in Int
    OBVIOUS
  <2>3. Cardinality(1..(n - 1)) = IF 1 > n - 1 THEN 0 ELSE (n - 1) - 1 + 1
    BY <2>2, FS_Interval
  <2> HIDE DEF before
  <2> QED BY <2>1, <2>2, <2>3
<1>2. Cardinality(1..size) = size
  <2>1. 1 \in Int /\ size \in Int
    OBVIOUS
  <2>2. Cardinality(1..size) = IF 1 > size THEN 0 ELSE size - 1 + 1
    BY <2>1, FS_Interval
  <2>3. size \in Nat
    OBVIOUS
  <2> HIDE DEF size
  <2> QED BY <2>2, <2>3
<1>3. \A i \in 1..size : (CHOOSE n \in 1..size : Cardinality(before(n)) = i - 1) = i
  <2> TAKE i \in 1..size
  <2> HIDE DEF before
  <2>1. \A n \in 1..size : Cardinality(before(n)) = i - 1 <=> n = i
    BY <1>1
  <2> QED BY <2>1
<1>4. CachePaths(d) =
         [i \in 1..size |->
            <<"cache", d, CHOOSE n \in 1..size : Cardinality(before(n)) = i - 1>>]
  BY <1>2 DEF CachePaths
<1> HIDE DEF before
<1>5. CachePaths(d) = [i \in 1..size |-> <<"cache", d, i>>]
  BY <1>3, <1>4
<1> QED BY <1>5 DEF InCache

(* Nothing kept, nothing listed.                                            *)
LEMMA EmptyCacheListed ==
    ASSUME NEW d, DOMAIN slidesCache[d] = {}
    PROVE  CachePaths(d) = <<>>
<1>1. Cardinality({}) = 0
  BY FS_EmptySet
<1>2. DOMAIN CachePaths(d) = 1..0
  BY <1>1 DEF CachePaths
<1>3. CachePaths(d) = [i \in 1..0 |-> CachePaths(d)[i]]
  BY <1>1 DEF CachePaths
<1>4. [i \in 1..0 |-> CachePaths(d)[i]] \in Seq({1})
  OBVIOUS
<1>5. Len(CachePaths(d)) = 0
  BY <1>2, LenOfCounted
<1> QED BY <1>3, <1>4, <1>5, EmptySeq

(* Whatever is listed is counted.                                           *)
LEMMA ListIsCounted ==
    ASSUME NEW d, IsFiniteSet(DOMAIN slidesCache[d])
    PROVE  Counted(CachePaths(d))
BY FS_CardinalityType DEF CachePaths, Counted

(* What the directory holds after a conversion.                             *)
LEMMA DrawnIsCounted ==
    ASSUME Shaped
    PROVE  /\ Counted(Drawn)
           /\ 1..DeckSize[lesson.deck] \subseteq DOMAIN Drawn
           /\ \A n \in DOMAIN Drawn :
                 \/ n <= DeckSize[lesson.deck] /\ Drawn[n] = lesson.deck
                 \/ n \in DOMAIN workSlides /\ Drawn[n] = workSlides[n]
<1>1. DeckSize[lesson.deck] \in Nat
  BY RenderingAssumption DEF Shaped, RestShape
<1>2. PICK n \in Nat : DOMAIN workSlides = 1..n
  BY DEF Shaped, RestShape, Counted
<1>3. DOMAIN Drawn = 1..n \cup 1..DeckSize[lesson.deck]
  BY <1>2 DEF Drawn
<1>4. CASE n <= DeckSize[lesson.deck]
  <2>1. DOMAIN Drawn = 1..DeckSize[lesson.deck]
    BY <1>1, <1>3, <1>4
  <2> QED BY <1>1, <2>1 DEF Drawn, Counted
<1>5. CASE n > DeckSize[lesson.deck]
  <2>1. DOMAIN Drawn = 1..n
    BY <1>1, <1>3, <1>5
  <2> QED BY <1>1, <1>2, <2>1, <1>5 DEF Drawn, Counted
<1> QED BY <1>1, <1>4, <1>5

(* What each step makes of the run.                                         *)
RunBecomes(pc, images, said, slide) ==
    run' = [pc |-> pc, voice |-> run.voice, proc |-> run.proc, images |-> images,
            said |-> said, slide |-> slide, stale |-> run.stale]

(* The run after each step, field by field.                                 *)
LEMMA RunSteps ==
    ASSUME RunShape
    PROVE  /\ \A p : PickUp(p) => run' = [pc |-> "looking", voice |-> run.voice, proc |-> p,
                                      images |-> <<>>, said |-> <<>>, slide |-> <<>>,
                                      stale |-> \E m \in leftover : m # Material]
           /\ \A v : Launch(v) => run'.pc = "queued"
           /\ RunStops => run'.pc = "idle"
           /\ LookUp => \E pc \in {"scripting", "converting"} :
                           RunBecomes(pc, run'.images, run.said, run.slide)
           /\ FillCache => \/ run' = run
                           \/ RunBecomes("scripting", run.images, run.said, run.slide)
           /\ CleanUp => \/ run' = Idle
                         \/ RunBecomes("removing", run.images, run.said, run.slide)
           /\ Convert => RunBecomes("filling", run'.images, run.said, run.slide)
           /\ WriteScript => RunBecomes("voicing", run.images, Narration, run'.slide)
           /\ Finish => RunBecomes("cleaning", run.images, run.said, run.slide)
           /\ Kill => RunBecomes("queued", run.images, run.said, run.slide)
           /\ \A k : Voice(k) \/ CopyAudio(k) \/ Encode(k) =>
                 /\ RunBecomes("voicing", run.images, run.said, run'.slide)
                 /\ \E s : run'.slide = [run.slide EXCEPT ![k] = s]
<1>1. ASSUME NEW p, PickUp(p)
      PROVE  run' = [pc |-> "looking", voice |-> run.voice, proc |-> p,
                     images |-> <<>>, said |-> <<>>, slide |-> <<>>,
                     stale |-> \E m \in leftover : m # Material]
  BY <1>1 DEF PickUp, RunShape
<1>2. Convert => RunBecomes("filling", run'.images, run.said, run.slide)
  BY DEF Convert, RunShape, RunBecomes
<1>3. WriteScript => RunBecomes("voicing", run.images, Narration, run'.slide)
  BY DEF WriteScript, RunShape, RunBecomes
<1>4. Finish => RunBecomes("cleaning", run.images, run.said, run.slide)
  BY DEF Finish, RunShape, RunBecomes
<1>5. Kill => RunBecomes("queued", run.images, run.said, run.slide)
  BY DEF Kill, RunShape, RunBecomes
<1>6. ASSUME NEW k, Voice(k) \/ CopyAudio(k) \/ Encode(k)
      PROVE  /\ RunBecomes("voicing", run.images, run.said, run'.slide)
             /\ \E s : run'.slide = [run.slide EXCEPT ![k] = s]
  <2>1. \E s : run' = [run EXCEPT !.slide[k] = s]
    BY <1>6 DEF Voice, CopyAudio, Encode
  <2>2. run.pc = "voicing"
    BY <1>6 DEF Voice, CopyAudio, Encode
  <2> QED BY <2>1, <2>2 DEF RunShape, RunBecomes
<1>7. LookUp => \E pc \in {"scripting", "converting"} :
                  RunBecomes(pc, run'.images, run.said, run.slide)
  BY DEF LookUp, RunShape, RunBecomes
<1>8. FillCache => \/ run' = run
                  \/ RunBecomes("scripting", run.images, run.said, run.slide)
  BY DEF FillCache, RunShape, RunBecomes
<1>9. CleanUp => \/ run' = Idle
                \/ RunBecomes("removing", run.images, run.said, run.slide)
  BY DEF CleanUp, RunShape, RunBecomes
<1>10. ASSUME NEW v, Launch(v) PROVE run'.pc = "queued"
  BY <1>10 DEF Launch, Idle
<1>11. RunStops => run'.pc = "idle"
  BY DEF RunStops, Idle
<1> QED BY <1>1, <1>2, <1>3, <1>4, <1>5, <1>6, <1>7, <1>8, <1>9, <1>10, <1>11

(* The run keeps its shape.                                                 *)
LEMMA RunShapeKept ==
    ASSUME Shaped, RenderNext
    PROVE  RunShape'
<1> USE DEF RunShape, UnderWay
<1>0. RunShape /\ CacheShape /\ RestShape
  BY DEF Shaped
<1>1. CASE UNCHANGED run
  BY <1>0, <1>1
<1>2. CASE \E v : \E pc \in {"idle", "queued"} :
              run' = [pc |-> pc, voice |-> v, proc |-> "none", images |-> <<>>,
                      said |-> <<>>, slide |-> <<>>, stale |-> FALSE]
  BY <1>2
<1>3. CASE \E p \in Procs : PickUp(p)
  BY <1>0, <1>3, RunSteps
<1>4. CASE LookUp
  <2>1. Counted(run'.images) \/ run'.pc = "converting"
    <3>1. CASE memory[run.proc][lesson.deck] # <<>>
      <4>1. Counted(memory[run.proc][lesson.deck])
        BY <1>0, <1>4 DEF LookUp, CacheShape, RestShape
      <4> QED BY <1>0, <1>4, <3>1, <4>1 DEF LookUp
    <3>2. CASE memory[run.proc][lesson.deck] = <<>>
      <4>1. Counted(CachePaths(lesson.deck))
        BY <1>0, ListIsCounted DEF CacheShape, RestShape
      <4> QED BY <1>0, <1>4, <3>2, <4>1 DEF LookUp
    <3> QED BY <3>1, <3>2
  <2>2. PICK pc \in {"scripting", "converting"} :
           RunBecomes(pc, run'.images, run.said, run.slide)
    BY <1>0, <1>4, RunSteps
  <2> QED BY <1>0, <1>4, <2>1, <2>2 DEF LookUp, RunBecomes
<1>5. CASE Convert
  <2>1. DOMAIN run'.images = DOMAIN Drawn
    BY <1>0, <1>5 DEF Convert
  <2>2. Counted(run'.images)
    BY <2>1, DrawnIsCounted DEF Counted
  <2> QED BY <1>0, <1>5, <2>2, RunSteps DEF Convert, RunBecomes
<1>6. CASE FillCache \/ CleanUp
  BY <1>0, <1>1, <1>2, <1>6, RunSteps DEF FillCache, CleanUp, RunBecomes, Idle
<1>7. CASE WriteScript \/ Finish \/ Kill
  BY <1>0, <1>7, RunSteps DEF WriteScript, Finish, Kill, Working, RunBecomes
<1>8. CASE \E k \in DOMAIN run.slide : Voice(k) \/ CopyAudio(k) \/ Encode(k)
  BY <1>0, <1>8, RunSteps DEF Voice, CopyAudio, Encode, RunBecomes
<1>9. CASE \/ EditLesson \/ PeerFills \/ RunStops
           \/ \E v \in Voices : Launch(v)
           \/ \E d \in Decks : Evict(d)
  BY <1>1, <1>2, <1>9 DEF EditLesson, PeerFills, RunStops, Launch, Evict, Idle
<1> QED BY <1>3, <1>4, <1>5, <1>6, <1>7, <1>8, <1>9 DEF RenderNext, RenderStep

(* The caches keep theirs.                                                  *)
LEMMA CacheShapeKept ==
    ASSUME Shaped, PeerOrderly, RenderNext
    PROVE  CacheShape'
<1>0. RunShape /\ CacheShape /\ RestShape
  BY DEF Shaped
<1>1. CASE UNCHANGED <<slidesCache, memory>>
  BY <1>0, <1>1 DEF CacheShape
<1>2. ASSUME UNCHANGED slidesCache, NEW p, NEW d \in Decks, NEW paths, Counted(paths),
             memory' = [memory EXCEPT ![p][d] = paths]
      PROVE  CacheShape'
  BY <1>0, <1>2 DEF CacheShape
<1>3. ASSUME UNCHANGED memory, NEW d \in Decks, NEW n, NEW x,
             slidesCache' = [slidesCache EXCEPT ![d] = With(@, n, x)]
      PROVE  CacheShape'
  BY <1>0, <1>3, FS_AddElement DEF CacheShape, With
<1>d. /\ lesson.deck \in Decks
      /\ run.pc \in {"looking", "filling"} => run.proc \in Procs
  BY <1>0 DEF RestShape, RunShape, UnderWay
<1>4. CASE LookUp
  <2>1. Counted(memory[run.proc][lesson.deck]) /\ Counted(CachePaths(lesson.deck))
    BY <1>0, <1>d, <1>4, ListIsCounted DEF LookUp, CacheShape
  <2>2. \/ UNCHANGED <<slidesCache, memory>>
        \/ /\ UNCHANGED slidesCache
           /\ \E paths : /\ Counted(paths)
                        /\ memory' = [memory EXCEPT ![run.proc][lesson.deck] = paths]
    BY <1>4, <2>1 DEF LookUp
  <2> QED BY <1>d, <1>1, <1>2, <2>2
<1>5. CASE FillCache
  <2>1. Counted([n \in DOMAIN workSlides |-> <<"cache", lesson.deck, n>>])
    BY <1>0 DEF RestShape, Counted
  <2>2. \/ /\ UNCHANGED memory
           /\ \E n, x : slidesCache' = [slidesCache EXCEPT ![lesson.deck] = With(@, n, x)]
        \/ /\ UNCHANGED slidesCache
           /\ \E paths : /\ Counted(paths)
                        /\ memory' = [memory EXCEPT ![run.proc][lesson.deck] = paths]
    BY <1>5, <2>1 DEF FillCache
  <2> QED BY <1>d, <1>2, <1>3, <2>2
<1>6. CASE PeerFills
  <2>1. \/ UNCHANGED <<slidesCache, memory>>
        \/ /\ UNCHANGED memory /\ peer.deck \in Decks
           /\ \E n, x : slidesCache' = [slidesCache EXCEPT ![peer.deck] = With(@, n, x)]
    BY <1>6 DEF PeerFills, PeerOrderly
  <2> QED BY <1>1, <1>3, <2>1
<1>7. CASE Kill
  <2>1. DOMAIN <<>> = 1..0
    OBVIOUS
  <2>2. Counted(<<>>)
    BY <2>1 DEF Counted
  <2>3. /\ UNCHANGED slidesCache
        /\ memory' = [memory EXCEPT ![run.proc] = [d \in Decks |-> <<>>]]
    BY <1>7 DEF Kill
  <2>4. DOMAIN memory' = Procs
    BY <1>0, <2>3 DEF CacheShape
  <2>5. \A p \in Procs : memory'[p] = memory[p] \/ memory'[p] = [d \in Decks |-> <<>>]
    BY <1>0, <2>3 DEF CacheShape
  <2>6. \A p \in Procs : /\ DOMAIN memory'[p] = Decks
                         /\ \A d \in Decks : Counted(memory'[p][d])
    BY <1>0, <2>2, <2>5 DEF CacheShape
  <2> QED BY <1>0, <2>3, <2>4, <2>6 DEF CacheShape
<1>8. CASE \E d \in Decks : Evict(d)
  BY <1>0, <1>8, FS_EmptySet DEF Evict, CacheShape, NoFn
<1>9. CASE \/ EditLesson \/ Convert \/ WriteScript \/ RunStops \/ Finish \/ CleanUp
           \/ \E v \in Voices : Launch(v)
           \/ \E p \in Procs : PickUp(p)
           \/ \E k \in DOMAIN run.slide : Voice(k) \/ CopyAudio(k) \/ Encode(k)
  BY <1>1, <1>9 DEF EditLesson, Convert, WriteScript, RunStops, Finish, CleanUp, Launch, PickUp,
                    Voice, CopyAudio, Encode
<1> QED BY <1>4, <1>5, <1>6, <1>7, <1>8, <1>9 DEF RenderNext, RenderStep

(* So do the lesson, the other task, the checkpoint and the directory.      *)
LEMMA RestShapeKept ==
    ASSUME Shaped, RenderNext
    PROVE  RestShape'
<1>0. RestShape /\ Counted(Drawn)
  BY DrawnIsCounted DEF Shaped
<1>1. CASE EditLesson
  BY <1>0, <1>1 DEF EditLesson, RestShape
<1>2. CASE Convert
  BY <1>0, <1>2 DEF Convert, RestShape
<1>3. CASE WriteScript
  <2>1. checkpoint' = [voice |-> checkpoint'.voice, said |-> checkpoint'.said,
                       segments |-> checkpoint'.segments]
    BY <1>3 DEF WriteScript, Checkpointed
  <2> QED BY <1>0, <1>3, <2>1 DEF WriteScript, RestShape
<1>4. ASSUME NEW k, Encode(k) PROVE RestShape'
  BY <1>0, <1>4 DEF Encode, RestShape
<1>5. CASE CleanUp
  <2>1. Counted(NoFn)
    BY DEF NoFn, Counted
  <2>2. \/ checkpoint' = checkpoint
        \/ checkpoint' = [voice |-> "none", said |-> <<>>, segments |-> {}]
    BY <1>5 DEF CleanUp, NoCheckpoint
  <2>3. checkpoint' = [voice |-> checkpoint'.voice, said |-> checkpoint'.said,
                       segments |-> checkpoint'.segments]
    BY <1>0, <2>2 DEF RestShape
  <2> QED BY <1>0, <1>5, <2>1, <2>3 DEF CleanUp, RestShape
<1>6. CASE PeerFills
  <2>1. peer' = [deck |-> peer'.deck, next |-> peer'.next]
    BY <1>0, <1>6 DEF PeerFills, RestShape, NoPeer
  <2> QED BY <1>0, <1>6, <2>1 DEF PeerFills, RestShape
<1>7. ASSUME UNCHANGED <<lesson, peer, checkpoint, workSlides>> PROVE RestShape'
  BY <1>0, <1>7 DEF RestShape
<1> QED
  BY <1>1, <1>2, <1>3, <1>4, <1>5, <1>6, <1>7
     DEF RenderNext, RenderStep, LookUp, FillCache, RunStops, Finish, Launch, PickUp,
         Voice, CopyAudio, Kill, Evict

(* Segments are only ever written under their own name.                     *)
LEMMA NothingResumedKept ==
    ASSUME NothingResumed, RenderNext
    PROVE  NothingResumed'
<1>1. ASSUME NEW k, Encode(k) PROVE NothingResumed'
  BY <1>1 DEF Encode, NothingResumed, With, SegName
<1>2. CASE Finish \/ CleanUp
  BY <1>2 DEF Finish, CleanUp, NothingResumed, NoFn
<1>3. ASSUME UNCHANGED segFiles PROVE NothingResumed'
  BY <1>3 DEF NothingResumed
<1> QED
  BY <1>1, <1>2, <1>3
     DEF RenderNext, RenderStep, LookUp, Convert, FillCache, WriteScript, RunStops, Launch,
         PickUp, Voice, CopyAudio, Kill, Evict, PeerFills, EditLesson

(* The other lesson's task draws in order, and nothing is taken from it.    *)
LEMMA PeerOrderlyKept ==
    ASSUME Shaped, PeerOrderly, RenderNext
    PROVE  PeerOrderly'
<1>0. CacheShape /\ RestShape
  BY DEF Shaped
<1>1. ASSUME UNCHANGED peer, NEW d \in Decks, NEW n, NEW x,
             slidesCache' = [slidesCache EXCEPT ![d] = With(@, n, x)]
      PROVE  PeerOrderly'
  BY <1>0, <1>1 DEF PeerOrderly, With, CacheShape
<1>2. CASE FillCache
  <2>1. /\ UNCHANGED peer
        /\ \/ UNCHANGED slidesCache
           \/ \E n, x : slidesCache' = [slidesCache EXCEPT ![lesson.deck] = With(@, n, x)]
    BY <1>2 DEF FillCache
  <2>2. CASE UNCHANGED slidesCache
    BY <2>1, <2>2 DEF PeerOrderly
  <2> QED BY <1>0, <1>1, <2>1, <2>2 DEF RestShape
<1>3. CASE PeerFills
  <2>1. CASE peer = NoPeer
    BY <1>3, <2>1, RenderingAssumption DEF PeerFills, PeerOrderly, NoPeer
  <2>2. CASE peer # NoPeer /\ peer.next = DeckSize[peer.deck]
    BY <1>3, <2>2 DEF PeerFills, PeerOrderly
  <2>3. CASE peer # NoPeer /\ peer.next # DeckSize[peer.deck]
    <3>1. /\ peer.deck \in Decks /\ peer.next \in 1..DeckSize[peer.deck]
          /\ DeckSize[peer.deck] \in Nat
          /\ \A n \in 1..(peer.next - 1) : n \in DOMAIN slidesCache[peer.deck]
      BY <2>3, RenderingAssumption DEF PeerOrderly
    <3>2. peer' = [deck |-> peer.deck, next |-> peer.next + 1]
      BY <1>0, <1>3, <2>3 DEF PeerFills, RestShape
    <3>3. DOMAIN slidesCache'[peer.deck] = DOMAIN slidesCache[peer.deck] \cup {peer.next}
      BY <1>0, <1>3, <2>3, <3>1 DEF PeerFills, CacheShape, With
    <3> QED BY <3>1, <3>2, <3>3, <2>3 DEF PeerOrderly
  <2> QED BY <2>1, <2>2, <2>3
<1>4. ASSUME NEW d \in Decks, Evict(d) PROVE PeerOrderly'
  BY <1>0, <1>4 DEF Evict, PeerOrderly, CacheShape
<1>5. ASSUME UNCHANGED <<peer, slidesCache>> PROVE PeerOrderly'
  BY <1>5 DEF PeerOrderly
<1> QED
  BY <1>2, <1>3, <1>4, <1>5
     DEF RenderNext, RenderStep, LookUp, Convert, WriteScript, RunStops, Finish, CleanUp, Launch,
         PickUp, Voice, CopyAudio, Encode, Kill, EditLesson

(* What is left is only added to until it is removed, pictures and all.     *)
LEMMA LeftoverSteps ==
    ASSUME RenderNext
    PROVE  \/ leftover \subseteq leftover' /\ (~Convert => workSlides' = workSlides)
           \/ workSlides' = NoFn /\ run.pc = "removing" /\ CleanUp
BY DEF RenderNext, RenderStep, LookUp, Convert, FillCache, WriteScript, RunStops, Finish, CleanUp,
       Launch, PickUp, Voice, CopyAudio, Encode, Kill, Evict, PeerFills, EditLesson

(* The pictures lying about are those of decks a run was started with.      *)
LEMMA PicturesLeftKept ==
    ASSUME Shaped, LeftBehind, RenderNext
    PROVE  PicturesLeft'
<1>0. PicturesLeft /\ LeftoverKnown /\ RestShape
  BY DEF LeftBehind, Shaped
<1>1. CASE Convert
  <2>1. Material \in leftover /\ UNCHANGED <<leftover, lesson>> /\ workSlides' = Drawn
    BY <1>0, <1>1 DEF Convert, LeftoverKnown, UnderWay
  <2>2. ASSUME NEW n \in DOMAIN Drawn
        PROVE  \E m \in leftover : m[1] \in Decks /\ Drawn[n] = m[1] /\ n <= DeckSize[m[1]]
    <3>1. CASE n <= DeckSize[lesson.deck] /\ Drawn[n] = lesson.deck
      BY <1>0, <2>1, <3>1 DEF Material, RestShape
    <3>2. CASE n \in DOMAIN workSlides /\ Drawn[n] = workSlides[n]
      BY <1>0, <3>2 DEF PicturesLeft
    <3> QED BY <2>2, <3>1, <3>2, DrawnIsCounted
  <2> QED BY <2>1, <2>2 DEF PicturesLeft
<1>2. CASE workSlides' = NoFn
  BY <1>2 DEF PicturesLeft, NoFn
<1>3. CASE leftover \subseteq leftover' /\ workSlides' = workSlides
  BY <1>0, <1>3 DEF PicturesLeft
<1> QED BY <1>1, <1>2, <1>3, LeftoverSteps

(* No lesson changes between being told by its texts and by a script.       *)
LEMMA LessonSteps ==
    ASSUME Shaped, RenderNext
    PROVE  lesson'.auto = lesson.auto /\ (lesson' = lesson \/ (run.pc = "idle" /\ run' = run))
<1>1. CASE EditLesson
  BY <1>1 DEF EditLesson, Shaped, RestShape
<1>2. CASE ~EditLesson
  BY <1>2 DEF RenderNext, RenderStep, LookUp, Convert, FillCache, WriteScript, RunStops, Finish,
              CleanUp, Launch, PickUp, Voice, CopyAudio, Encode, Kill, Evict, PeerFills
<1> QED BY <1>1, <1>2

(* The run knows what it found.                                             *)
LEMMA LeftoverKnownKept ==
    ASSUME Shaped, LeftBehind, RenderNext
    PROVE  LeftoverKnown'
<1>0. LeftoverKnown /\ RunShape
  BY DEF LeftBehind, Shaped
<1>1. CASE run'.pc \notin UnderWay
  BY <1>1 DEF LeftoverKnown
<1>2. CASE \E p \in Procs : PickUp(p)
  <2>1. /\ run'.stale = (\E m \in leftover : m # Material)
        /\ leftover' = leftover \cup {Material} /\ UNCHANGED lesson
    BY <1>0, <1>2, RunSteps DEF PickUp
  <2> QED BY <2>1 DEF LeftoverKnown, Material
<1>3. CASE run' = run /\ UNCHANGED leftover /\ run'.pc \in UnderWay
  <2>1. lesson' = lesson
    BY <1>3, LessonSteps DEF UnderWay
  <2> QED BY <1>0, <1>3, <2>1 DEF LeftoverKnown, Material
<1>4. ASSUME run.pc \in UnderWay, UNCHANGED <<leftover, lesson>>, NEW pc, NEW images, NEW said,
             NEW slide, RunBecomes(pc, images, said, slide)
      PROVE  LeftoverKnown'
  BY <1>0, <1>4 DEF LeftoverKnown, Material, RunBecomes
<1>5. CASE LookUp
  BY <1>0, <1>4, <1>5, RunSteps DEF LookUp, UnderWay
<1>6. CASE Convert \/ WriteScript \/ Finish
  BY <1>0, <1>4, <1>6, RunSteps DEF Convert, WriteScript, Finish, UnderWay
<1>7. CASE FillCache
  BY <1>0, <1>1, <1>3, <1>4, <1>7, RunSteps DEF FillCache, UnderWay
<1>8. CASE CleanUp
  BY <1>0, <1>1, <1>4, <1>8, RunSteps DEF CleanUp, UnderWay, Idle
<1>9. ASSUME NEW k, Voice(k) \/ CopyAudio(k) \/ Encode(k)
      PROVE  LeftoverKnown'
  BY <1>0, <1>4, <1>9, RunSteps DEF Voice, CopyAudio, Encode, UnderWay
<1>10. CASE Kill \/ RunStops \/ (\E v \in Voices : Launch(v))
  <2>1. run'.pc \in {"idle", "queued"}
    BY <1>0, <1>10, RunSteps DEF RunBecomes
  <2> QED BY <1>1, <2>1 DEF UnderWay
<1>11. CASE EditLesson \/ PeerFills \/ (\E d \in Decks : Evict(d))
  BY <1>1, <1>3, <1>11 DEF EditLesson, PeerFills, Evict
<1> QED
  BY <1>2, <1>5, <1>6, <1>7, <1>8, <1>9, <1>10, <1>11 DEF RenderNext, RenderStep

(* The narration lying about is that of texts a run was started with.       *)
LEMMA NarrationLeftKept ==
    ASSUME Shaped, LeftBehind, RenderNext
    PROVE  NarrationLeft'
<1>0. NarrationLeft /\ LeftoverKnown /\ RunShape /\ RestShape
  BY DEF LeftBehind, Shaped
<1>1. CASE WriteScript
  <2>1. /\ checkpoint'.said = Narration /\ run'.pc # "removing"
        /\ UNCHANGED <<leftover, lesson>> /\ Material \in leftover
    BY <1>0, <1>1, RunSteps DEF WriteScript, Checkpointed, RunBecomes, LeftoverKnown, UnderWay
  <2>2. Len(run.images) \in Nat
    BY <1>0, <1>1, LenOfCounted DEF WriteScript, RunShape, Counted
  <2>3. ~lesson.auto => \/ Narration = checkpoint.said /\ checkpoint.said # <<>>
                        \/ Narration = Told(lesson.text, Len(run.images))
    BY DEF Narration
  <2>4. ~lesson.auto => \E m \in leftover : \E n \in Nat : Narration = Told(m[2], n)
    BY <1>0, <2>1, <2>2, <2>3 DEF NarrationLeft, Material
  <2> QED BY <2>1, <2>4 DEF NarrationLeft
<1>2. CASE CleanUp
  <2>1. CASE run.pc = "cleaning"
    BY <1>2, <2>1 DEF CleanUp, NoCheckpoint, NarrationLeft
  <2>2. CASE run.pc = "removing"
    BY <1>0, <1>2, <2>2 DEF CleanUp, NarrationLeft
  <2> QED BY <1>2, <2>1, <2>2 DEF CleanUp
<1>3. /\ checkpoint'.said = checkpoint.said \/ WriteScript \/ CleanUp
      /\ run'.pc # "removing" \/ CleanUp \/ run' = run
  <2>1. ASSUME NEW k, Voice(k) \/ CopyAudio(k) \/ Encode(k)
        PROVE  checkpoint'.said = checkpoint.said /\ run'.pc # "removing"
    <3>1. run'.pc = "voicing"
      BY <1>0, <2>1, RunSteps DEF RunBecomes
    <3> QED BY <1>0, <2>1, <3>1 DEF Voice, CopyAudio, Encode, RestShape
  <2>2. ASSUME LookUp \/ Convert \/ Finish \/ Kill \/ (\E p \in Procs : PickUp(p))
        PROVE  UNCHANGED checkpoint /\ run'.pc # "removing"
    BY <1>0, <2>2, RunSteps DEF LookUp, Convert, Finish, Kill, PickUp, RunBecomes
  <2>3. ASSUME FillCache PROVE UNCHANGED checkpoint /\ (run'.pc # "removing" \/ run' = run)
    BY <1>0, <2>3, RunSteps DEF FillCache, RunBecomes
  <2>4. ASSUME \/ RunStops \/ EditLesson \/ PeerFills
               \/ \E v \in Voices : Launch(v)
               \/ \E d \in Decks : Evict(d)
        PROVE  UNCHANGED checkpoint /\ (run'.pc # "removing" \/ run' = run)
    <3>1. run' = run \/ run'.pc \in {"idle", "queued"}
      BY <1>0, <2>4, RunSteps DEF Evict, PeerFills, EditLesson
    <3>2. UNCHANGED checkpoint
      BY <2>4 DEF RunStops, Launch, Evict, PeerFills, EditLesson
    <3> QED BY <3>1, <3>2
  <2>5. CASE WriteScript
    BY <1>0, <2>5, RunSteps DEF RunBecomes
  <2> QED BY <2>1, <2>2, <2>3, <2>4, <2>5 DEF RenderNext, RenderStep
<1>4. CASE ~WriteScript /\ ~CleanUp
  BY <1>0, <1>3, <1>4, LeftoverSteps, LessonSteps DEF NarrationLeft
<1> QED BY <1>1, <1>2, <1>4

(* A taint stays; a filling that is cut short taints its deck.              *)
LEMMA TaintSteps ==
    ASSUME RenderNext
    PROVE  /\ tainted \subseteq tainted'
           /\ (Kill \/ RunStops) /\ run.pc = "filling" => lesson.deck \in tainted'
BY DEF RenderNext, RenderStep, LookUp, Convert, FillCache, WriteScript, RunStops, Finish, CleanUp,
       Launch, PickUp, Voice, CopyAudio, Encode, Kill, Evict, PeerFills, EditLesson

(* A run that is not stale has nothing but its deck's pictures before it.   *)
LEMMA OwnPictures ==
    ASSUME Shaped, LeftBehind, run.pc \in UnderWay, ~run.stale
    PROVE  \A n \in DOMAIN workSlides :
              n \in 1..DeckSize[lesson.deck] /\ workSlides[n] = lesson.deck
<1>1. leftover = {Material}
  BY DEF LeftBehind, LeftoverKnown
<1>2. PICK size \in Nat : DOMAIN workSlides = 1..size
  BY DEF Shaped, RestShape, Counted
<1>3. lesson.deck \in Decks /\ DeckSize[lesson.deck] \in Nat
  BY RenderingAssumption DEF Shaped, RestShape
<1> QED BY <1>1, <1>2, <1>3 DEF LeftBehind, PicturesLeft, Material

(* What the cache holds changes in three ways.                              *)
LEMMA CacheSteps ==
    ASSUME Shaped, PeerOrderly, RenderNext, NEW d \in Decks
    PROVE  \/ slidesCache'[d] = slidesCache[d]
           \/ DOMAIN slidesCache'[d] = {} /\ Evict(d)
           \/ /\ FillCache /\ lesson.deck = d /\ run' = run /\ peer' = peer
              /\ run.stale => d \in tainted'
              /\ \E n \in DOMAIN workSlides :
                    slidesCache'[d] = With(slidesCache[d], n, workSlides[n])
           \/ /\ PeerFills /\ peer # NoPeer /\ peer.deck = d
              /\ slidesCache'[d] = With(slidesCache[d], peer.next, d)
<1>0. DOMAIN slidesCache = Decks /\ lesson.deck \in Decks
  BY DEF Shaped, CacheShape, RestShape
<1>1. CASE FillCache
  <2> DEFINE missing == DOMAIN workSlides \ DOMAIN slidesCache[lesson.deck]
  <2>1. CASE missing = {}
    BY <1>1, <2>1 DEF FillCache
  <2>2. CASE missing # {}
    <3>1. PICK size \in Nat : DOMAIN workSlides = 1..size
      BY DEF Shaped, RestShape, Counted
    <3>2. \E n \in missing : \A o \in missing : n <= o
      <4>1. missing \subseteq Nat
        BY <3>1
      <4> HIDE DEF missing
      <4> QED BY <4>1, <2>2, LeastNumber
    <3>3. PICK n \in missing :
             slidesCache' = [slidesCache EXCEPT ![lesson.deck] = With(@, n, workSlides[n])]
      BY <1>1, <2>2, <3>2 DEF FillCache
    <3>4. run' = run /\ peer' = peer /\ (run.stale => lesson.deck \in tainted')
      BY <1>1, <2>2 DEF FillCache
    <3> QED BY <1>0, <1>1, <3>3, <3>4
  <2> QED BY <2>1, <2>2
<1>2. CASE PeerFills
  BY <1>0, <1>2 DEF PeerFills
<1>3. ASSUME NEW e \in Decks, Evict(e)
      PROVE  slidesCache'[d] = slidesCache[d] \/ (DOMAIN slidesCache'[d] = {} /\ Evict(d))
  BY <1>0, <1>3 DEF Evict, NoFn
<1>4. CASE UNCHANGED slidesCache
  BY <1>4
<1> QED
  BY <1>1, <1>2, <1>3, <1>4
     DEF RenderNext, RenderStep, LookUp, Convert, WriteScript, RunStops, Finish, CleanUp, Launch,
         PickUp, Voice, CopyAudio, Encode, Kill, EditLesson

(* The pictures of an untainted deck are its own.                           *)
LEMMA PicturesPureKept ==
    ASSUME Shaped, LeftBehind, PeerOrderly, RenderNext,
           NEW d \in Decks, PicturesPure(d), d \notin tainted'
    PROVE  PicturesPure(d)'
<1>1. CASE slidesCache'[d] = slidesCache[d]
  BY <1>1 DEF PicturesPure
<1>2. CASE DOMAIN slidesCache'[d] = {}
  BY <1>2 DEF PicturesPure
<1>3. ASSUME NEW n \in 1..DeckSize[d], slidesCache'[d] = With(slidesCache[d], n, d)
      PROVE  PicturesPure(d)'
  BY <1>3 DEF PicturesPure, With
<1>4. CASE /\ FillCache /\ lesson.deck = d /\ ~run.stale
           /\ \E n \in DOMAIN workSlides :
                 slidesCache'[d] = With(slidesCache[d], n, workSlides[n])
  <2>1. run.pc \in UnderWay
    BY <1>4 DEF FillCache, UnderWay
  <2>2. \A n \in DOMAIN workSlides : n \in 1..DeckSize[d] /\ workSlides[n] = d
    BY <1>4, <2>1, OwnPictures
  <2>3. CASE \E n \in DOMAIN workSlides : slidesCache'[d] = With(slidesCache[d], n, workSlides[n])
    BY <1>3, <2>2, <2>3
  <2> QED BY <1>4, <2>3
<1>5. CASE /\ PeerFills /\ peer # NoPeer /\ peer.deck = d
           /\ slidesCache'[d] = With(slidesCache[d], peer.next, d)
  BY <1>3, <1>5 DEF PeerOrderly
<1>6. \/ slidesCache'[d] = slidesCache[d]
      \/ DOMAIN slidesCache'[d] = {}
      \/ /\ FillCache /\ lesson.deck = d /\ (run.stale => d \in tainted')
         /\ \E n \in DOMAIN workSlides :
               slidesCache'[d] = With(slidesCache[d], n, workSlides[n])
      \/ /\ PeerFills /\ peer # NoPeer /\ peer.deck = d
         /\ slidesCache'[d] = With(slidesCache[d], peer.next, d)
  BY CacheSteps
<1> QED BY <1>1, <1>2, <1>4, <1>5, <1>6

(* An untainted deck's cache is empty, complete or being filled.            *)
LEMMA FullOrFillingKept ==
    ASSUME Shaped, OnTrack, PeerOrderly, RenderNext,
           NEW d \in Decks, PicturesPure(d), PicturesPure(d)', FullOrFilling(d), d \notin tainted'
    PROVE  FullOrFilling(d)'
<1>0. RunShape /\ CacheShape /\ RestShape /\ DeckSize[d] \in Nat
  BY RenderingAssumption DEF Shaped
<1>1. CASE PeerFills
  <2>1. run' = run /\ lesson' = lesson
    BY <1>1 DEF PeerFills
  <2>2. CASE peer = NoPeer
    BY <1>1, <2>1, <2>2 DEF PeerFills, FullOrFilling, NoFn
  <2>3. CASE peer # NoPeer /\ peer.deck # d
    BY <1>0, <1>1, <2>1, <2>3 DEF PeerFills, FullOrFilling, CacheShape
  <2>4. CASE peer # NoPeer /\ peer.deck = d /\ peer.next # DeckSize[d]
    <3>1. peer' = [deck |-> d, next |-> peer.next + 1] /\ peer.next \in Nat /\ peer.next > 0
      BY <1>0, <1>1, <2>4 DEF PeerFills, PeerOrderly, RestShape
    <3> QED BY <3>1 DEF FullOrFilling, NoPeer
  <2>5. CASE peer # NoPeer /\ peer.deck = d /\ peer.next = DeckSize[d]
    <3>1. DOMAIN slidesCache'[d] = DOMAIN slidesCache[d] \cup {DeckSize[d]}
      BY <1>0, <1>1, <2>5 DEF PeerFills, CacheShape, With
    <3>2. \A n \in 1..(DeckSize[d] - 1) : n \in DOMAIN slidesCache[d]
      BY <2>5 DEF PeerOrderly
    <3>3. DOMAIN slidesCache'[d] = 1..DeckSize[d]
      BY <1>0, <3>1, <3>2 DEF PicturesPure
    <3> QED BY <3>3 DEF FullOrFilling
  <2> QED BY <2>2, <2>3, <2>4, <2>5
<1>2. CASE FillCache
  <2>1. CASE run' = run
    <3>1. peer' = peer /\ lesson' = lesson /\ run.pc = "filling"
          /\ (lesson.deck = d \/ slidesCache'[d] = slidesCache[d])
      BY <1>0, <1>2 DEF FillCache, CacheShape
    <3> QED BY <2>1, <3>1 DEF FullOrFilling
  <2>2. CASE run' # run
    <3>1. /\ peer' = peer /\ lesson' = lesson /\ slidesCache' = slidesCache
          /\ DOMAIN workSlides \subseteq DOMAIN slidesCache[lesson.deck]
          /\ run.pc = "filling"
      BY <1>2, <2>2 DEF FillCache
    <3>2. CASE lesson.deck = d
      <4>1. DOMAIN slidesCache[d] = 1..DeckSize[d]
        BY <3>1, <3>2 DEF OnTrack, PicturesPure
      <4> QED BY <3>1, <4>1 DEF FullOrFilling
    <3>3. CASE lesson.deck # d
      BY <3>1, <3>3 DEF FullOrFilling
    <3> QED BY <3>2, <3>3
  <2> QED BY <2>1, <2>2
<1>3. ASSUME NEW e \in Decks, Evict(e) PROVE FullOrFilling(d)'
  BY <1>0, <1>3 DEF Evict, FullOrFilling, CacheShape, NoFn
<1>4. CASE Kill \/ RunStops
  <2>1. ~(run.pc = "filling" /\ lesson.deck = d)
    BY <1>4, TaintSteps
  <2>2. UNCHANGED <<slidesCache, peer>>
    BY <1>4 DEF Kill, RunStops
  <2> QED BY <2>1, <2>2 DEF FullOrFilling
<1>5. CASE EditLesson
  BY <1>5 DEF EditLesson, FullOrFilling
<1>6. CASE /\ UNCHANGED <<slidesCache, peer>>
           /\ run.pc # "filling"
  BY <1>6 DEF FullOrFilling
<1>7. ASSUME NEW k, Voice(k) \/ CopyAudio(k) \/ Encode(k) PROVE FullOrFilling(d)'
  BY <1>6, <1>7 DEF Voice, CopyAudio, Encode
<1>8. CASE LookUp \/ Convert \/ WriteScript \/ Finish \/ CleanUp
  BY <1>6, <1>8 DEF LookUp, Convert, WriteScript, Finish, CleanUp
<1>9. CASE (\E v \in Voices : Launch(v)) \/ (\E p \in Procs : PickUp(p))
  BY <1>6, <1>9 DEF Launch, PickUp
<1> QED
  BY <1>1, <1>2, <1>3, <1>4, <1>5, <1>7, <1>8, <1>9 DEF RenderNext, RenderStep

(* A process remembers nothing of an untainted deck, or all of it.          *)
LEMMA MemoryPureKept ==
    ASSUME Shaped, OnTrack, RenderNext,
           NEW d \in Decks, PicturesPure(d), FullOrFilling(d), MemoryPure(d), d \notin tainted'
    PROVE  MemoryPure(d)'
<1>0. RunShape /\ CacheShape /\ RestShape /\ DeckSize[d] \in Nat
  BY RenderingAssumption DEF Shaped
<1>1. ASSUME NEW paths, paths \in {<<>>, InCache(d)} \/ lesson.deck # d,
             memory' = [memory EXCEPT ![run.proc][lesson.deck] = paths]
      PROVE  MemoryPure(d)'
  BY <1>0, <1>1 DEF MemoryPure, CacheShape, InCache
<1>2. CASE LookUp
  <2>1. CASE memory[run.proc][lesson.deck] # <<>>
    <3>1. memory' = [memory EXCEPT ![run.proc][lesson.deck] = memory[run.proc][lesson.deck]]
      BY <1>2, <2>1 DEF LookUp
    <3>2. run.proc \in Procs
      BY <1>0, <1>2 DEF LookUp, RunShape, UnderWay
    <3> QED BY <1>1, <3>1, <3>2 DEF MemoryPure
  <2>2. CASE memory[run.proc][lesson.deck] = <<>>
    <3>1. \/ memory' = [memory EXCEPT ![run.proc][lesson.deck] = CachePaths(lesson.deck)]
          \/ UNCHANGED memory
      BY <1>2, <2>2 DEF LookUp
    <3>2. CachePaths(lesson.deck) = <<>> \/ peer.deck # lesson.deck \/ lesson.deck \in tainted'
      BY <1>2, <2>2 DEF LookUp
    <3>3. CASE lesson.deck = d
      <4>1. DOMAIN slidesCache[d] \in {{}, 1..DeckSize[d]} \/ CachePaths(d) = <<>>
        BY <1>2, <3>2, <3>3 DEF FullOrFilling, LookUp
      <4>2. CachePaths(d) \in {<<>>, InCache(d)}
        BY <1>0, <4>1, EmptyCacheListed, FullCacheListed
      <4>3. CASE UNCHANGED memory
        BY <4>3 DEF MemoryPure, InCache
      <4> QED BY <1>1, <3>1, <3>3, <4>2, <4>3
    <3>4. CASE lesson.deck # d
      <4>1. CASE UNCHANGED memory
        BY <4>1 DEF MemoryPure, InCache
      <4> QED BY <1>1, <3>1, <3>4, <4>1
    <3> QED BY <3>3, <3>4
  <2> QED BY <2>1, <2>2
<1>3. CASE FillCache
  <2> DEFINE paths == [n \in DOMAIN workSlides |-> <<"cache", lesson.deck, n>>]
  <2>1. CASE UNCHANGED memory
    BY <2>1 DEF MemoryPure, InCache
  <2>2. CASE memory' = [memory EXCEPT ![run.proc][lesson.deck] = paths]
             /\ DOMAIN workSlides \subseteq DOMAIN slidesCache[lesson.deck]
    <3>1. CASE lesson.deck = d
      <4>1. DOMAIN workSlides = 1..DeckSize[d]
        BY <1>3, <2>2, <3>1 DEF FillCache, OnTrack, PicturesPure
      <4>2. paths = InCache(d)
        BY <3>1, <4>1 DEF InCache
      <4> HIDE DEF paths
      <4> QED BY <1>1, <2>2, <4>2
    <3> HIDE DEF paths
    <3> QED BY <1>1, <2>2, <3>1
  <2> QED BY <1>3, <2>1, <2>2 DEF FillCache
<1>4. CASE Kill
  <2>1. memory' = [memory EXCEPT ![run.proc] = [e \in Decks |-> <<>>]]
    BY <1>4 DEF Kill
  <2>2. \A p \in Procs : memory'[p] = memory[p] \/ memory'[p] = [e \in Decks |-> <<>>]
    BY <1>0, <2>1 DEF CacheShape
  <2> QED BY <2>2 DEF MemoryPure, InCache
<1>5. CASE UNCHANGED memory
  BY <1>5 DEF MemoryPure, InCache
<1> QED
  BY <1>2, <1>3, <1>4, <1>5
     DEF RenderNext, RenderStep, Convert, WriteScript, RunStops, Finish, CleanUp, Launch,
         PickUp, Voice, CopyAudio, Encode, Evict, PeerFills, EditLesson

(* A finished copy.                                                         *)
LEMMA MadeWhole ==
    ASSUME NEW v, NEW w, NEW t, NEW file, file = [voice |-> v, whole |-> w]
    PROVE  [file EXCEPT !.whole = t] = [voice |-> v, whole |-> t]
OBVIOUS

(* An audio file cut short is known, or its task still copies it.           *)
LEMMA VoicesStay ==
    ASSUME Shaped, VoicesKept, RenderNext
    PROVE  VoicesKept'
<1>0. RunShape /\ tainted \subseteq tainted'
  BY TaintSteps DEF Shaped
<1>1. CASE run.pc # "voicing" /\ UNCHANGED voiceCache
  BY <1>0, <1>1 DEF VoicesKept, Copying
<1>2. ASSUME UNCHANGED <<run, voiceCache>> PROVE VoicesKept'
  BY <1>0, <1>2 DEF VoicesKept, Copying, AudioKey
<1>3. ASSUME NEW k \in DOMAIN run.slide, Voice(k) PROVE VoicesKept'
  <2>1. /\ run'.pc = "voicing" /\ run'.said = run.said /\ run'.voice = run.voice
        /\ run.slide[k] = "waiting" /\ run.pc = "voicing"
    BY <1>0, <1>3, RunSteps DEF Voice, RunBecomes
  <2>2. \A key : Copying(key) => Copying(key)'
    <3> SUFFICES ASSUME NEW key, Copying(key) PROVE Copying(key)'
      OBVIOUS
    <3>1. PICK j \in DOMAIN run.slide : run.slide[j] = "copying" /\ AudioKey(j) = key
      BY DEF Copying
    <3>2. j \in DOMAIN run'.slide /\ run'.slide[j] = "copying"
      BY <1>0, <1>3, <2>1, <3>1, RunSteps
    <3> QED BY <2>1, <3>1, <3>2 DEF Copying, AudioKey
  <2>3. CASE UNCHANGED voiceCache
    BY <1>0, <2>2, <2>3 DEF VoicesKept
  <2>4. CASE /\ voiceCache' = With(voiceCache, AudioKey(k), [voice |-> run.voice, whole |-> FALSE])
             /\ run' = [run EXCEPT !.slide[k] = "copying"]
    <3>1. k \in DOMAIN run'.slide /\ run'.slide[k] = "copying"
      BY <1>0, <2>4 DEF RunShape
    <3>2. Copying(AudioKey(k))'
      BY <2>1, <3>1 DEF Copying, AudioKey
    <3>3. AudioKey(k)[2] = run.voice /\ AudioKey(k)' = AudioKey(k)
      BY <2>1 DEF AudioKey
    <3> HIDE DEF AudioKey
    <3> QED BY <1>0, <2>2, <2>4, <3>2, <3>3 DEF VoicesKept, With
  <2> QED BY <1>3, <2>3, <2>4 DEF Voice
<1>4. ASSUME NEW k \in DOMAIN run.slide, CopyAudio(k) PROVE VoicesKept'
  <2>0. /\ RunBecomes("voicing", run.images, run.said, run'.slide)
        /\ \E s : run'.slide = [run.slide EXCEPT ![k] = s]
    BY <1>0, <1>4, RunSteps
  <2>1. /\ run'.pc = "voicing" /\ run'.said = run.said /\ run'.voice = run.voice
        /\ run.slide[k] = "copying" /\ run.pc = "voicing"
    BY <1>4, <2>0 DEF CopyAudio, RunBecomes
  <2>2. \A key : Copying(key) => Copying(key)' \/ key = AudioKey(k)
    <3> SUFFICES ASSUME NEW key, Copying(key), key # AudioKey(k) PROVE Copying(key)'
      OBVIOUS
    <3>1. PICK j \in DOMAIN run.slide : run.slide[j] = "copying" /\ AudioKey(j) = key
      BY DEF Copying
    <3>2. <<run'.said[j], run'.voice>> = key
      BY <2>1, <3>1 DEF AudioKey
    <3>3. j # k
      BY <2>1, <3>1
    <3>4. PICK s : run'.slide = [run.slide EXCEPT ![k] = s]
      BY <2>0
    <3>5. j \in DOMAIN run'.slide /\ run'.slide[j] = "copying"
      BY <3>1, <3>3, <3>4
    <3> QED BY <2>1, <3>2, <3>5 DEF Copying, AudioKey
  <2>3. /\ voiceCache' = [voiceCache EXCEPT ![AudioKey(k)].whole = TRUE]
        /\ DOMAIN voiceCache' = DOMAIN voiceCache
    BY <1>4 DEF CopyAudio
  <2>4. ASSUME NEW key \in DOMAIN voiceCache'
        PROVE  /\ \E whole \in BOOLEAN : voiceCache'[key] = [voice |-> key[2], whole |-> whole]
               /\ voiceCache'[key].whole \/ key \in tainted' \/ Copying(key)'
    <3>1. PICK whole \in BOOLEAN : voiceCache[key] = [voice |-> key[2], whole |-> whole]
      BY <2>3, <2>4 DEF VoicesKept
    <3>2. CASE key = AudioKey(k)
      <4>1. PICK t : t = TRUE
        OBVIOUS
      <4>2. PICK w : voiceCache[key] = [voice |-> key[2], whole |-> w]
        BY <3>1
      <4>3. voiceCache'[key] = [voiceCache[key] EXCEPT !.whole = t]
        BY <2>3, <2>4, <3>2, <4>1
      <4>4. voiceCache'[key] = [voice |-> key[2], whole |-> t]
        BY <4>2, <4>3, MadeWhole
      <4>5. voiceCache'[key].whole = TRUE
        BY <4>1, <4>4
      <4>6. t \in BOOLEAN
        BY <4>1
      <4> QED BY <4>4, <4>5, <4>6
    <3>3. CASE key # AudioKey(k)
      <4>1. voiceCache'[key] = voiceCache[key]
        BY <2>3, <2>4, <3>3
      <4> QED BY <1>0, <2>2, <2>3, <2>4, <3>1, <3>3, <4>1 DEF VoicesKept
    <3> QED BY <3>2, <3>3
  <2> QED BY <2>4 DEF VoicesKept
<1>5. ASSUME NEW k \in DOMAIN run.slide, Encode(k) PROVE VoicesKept'
  <2>0. /\ RunBecomes("voicing", run.images, run.said, run'.slide)
        /\ \E s : run'.slide = [run.slide EXCEPT ![k] = s]
    BY <1>0, <1>5, RunSteps
  <2>1. /\ run'.pc = "voicing" /\ run'.said = run.said /\ run'.voice = run.voice
        /\ run.slide[k] = "voiced" /\ run.pc = "voicing" /\ UNCHANGED voiceCache
    BY <1>5, <2>0 DEF Encode, RunBecomes
  <2>2. \A key : Copying(key) => Copying(key)'
    <3> SUFFICES ASSUME NEW key, Copying(key) PROVE Copying(key)'
      OBVIOUS
    <3>1. PICK j \in DOMAIN run.slide : run.slide[j] = "copying" /\ AudioKey(j) = key
      BY DEF Copying
    <3>2. <<run'.said[j], run'.voice>> = key
      BY <2>1, <3>1 DEF AudioKey
    <3>3. j # k
      BY <2>1, <3>1
    <3>4. PICK s : run'.slide = [run.slide EXCEPT ![k] = s]
      BY <2>0
    <3>5. j \in DOMAIN run'.slide /\ run'.slide[j] = "copying"
      BY <3>1, <3>3, <3>4
    <3> QED BY <2>1, <3>2, <3>5 DEF Copying, AudioKey
  <2> QED BY <1>0, <2>1, <2>2 DEF VoicesKept
<1>6. CASE RunStops \/ Finish \/ Kill
  <2>1. UNCHANGED voiceCache /\ \A key : Copying(key) => key \in tainted'
    BY <1>6 DEF RunStops, Finish, Kill, Copying
  <2> QED BY <1>0, <2>1 DEF VoicesKept
<1>7. CASE LookUp \/ Convert \/ FillCache \/ WriteScript \/ CleanUp
  BY <1>1, <1>7 DEF LookUp, Convert, FillCache, WriteScript, CleanUp
<1>8. CASE (\E v \in Voices : Launch(v)) \/ (\E p \in Procs : PickUp(p))
  BY <1>1, <1>8 DEF Launch, PickUp
<1>9. CASE EditLesson \/ PeerFills \/ (\E d \in Decks : Evict(d))
  BY <1>2, <1>9 DEF EditLesson, PeerFills, Evict
<1> QED
  BY <1>3, <1>4, <1>5, <1>6, <1>7, <1>8, <1>9 DEF RenderNext, RenderStep

(* The directory is only emptied when the run is over.                      *)
LEMMA FillingHasPictures ==
    ASSUME Shaped, OnTrack, RenderNext, run'.pc = "filling"
    PROVE  1..DeckSize[lesson'.deck] \subseteq DOMAIN workSlides'
<1>0. RunShape
  BY DEF Shaped
<1>1. CASE Convert
  <2>1. workSlides' = Drawn /\ lesson' = lesson
    BY <1>1 DEF Convert
  <2> QED BY <2>1, DrawnIsCounted
<1>2. CASE run' = run /\ ~Convert
  <2>1. workSlides' = workSlides /\ lesson' = lesson
    BY <1>2, LeftoverSteps, LessonSteps
  <2> QED BY <1>2, <2>1 DEF OnTrack
<1>3. run' = run \/ Convert \/ run'.pc # "filling"
  <2>1. ASSUME NEW k, Voice(k) \/ CopyAudio(k) \/ Encode(k) PROVE run'.pc # "filling"
    BY <1>0, <2>1, RunSteps DEF RunBecomes
  <2>2. ASSUME \/ LookUp \/ FillCache \/ WriteScript \/ RunStops \/ Finish \/ CleanUp \/ Kill
        PROVE  run' = run \/ run'.pc # "filling"
    BY <1>0, <2>2, RunSteps DEF RunBecomes, Idle
  <2>3. ASSUME (\E v \in Voices : Launch(v)) \/ (\E p \in Procs : PickUp(p))
        PROVE  run'.pc # "filling"
    BY <1>0, <2>3, RunSteps DEF RunBecomes
  <2>4. ASSUME EditLesson \/ PeerFills \/ (\E d \in Decks : Evict(d)) PROVE run' = run
    BY <2>4 DEF Evict, PeerFills, EditLesson
  <2> QED BY <2>1, <2>2, <2>3, <2>4 DEF RenderNext, RenderStep
<1> QED BY <1>1, <1>2, <1>3

(* A run that is not stale draws its deck and nothing else.                 *)
LEMMA OwnDrawing ==
    ASSUME Shaped, LeftBehind, run.pc \in UnderWay, ~run.stale
    PROVE  DOMAIN Drawn = 1..DeckSize[lesson.deck]
<1>1. DeckSize[lesson.deck] \in Nat /\ \E n \in Nat : DOMAIN Drawn = 1..n
  BY DrawnIsCounted, RenderingAssumption DEF Shaped, RestShape, Counted
<1>2. \A n \in DOMAIN Drawn : n <= DeckSize[lesson.deck]
  BY <1>1, DrawnIsCounted, OwnPictures
<1> QED BY <1>1, <1>2, DrawnIsCounted

(* Without an excuse the run's pictures are the deck's, in order.           *)
LEMMA PicturedKept ==
    ASSUME RenderInv, RenderNext, run'.pc \in {"filling", "scripting", "voicing"}, Unspoiled'
    PROVE  Pictured'
<1>0. /\ Shaped /\ RunShape /\ RestShape /\ CacheShape /\ OnTrack /\ LeftBehind
      /\ \A d \in Decks : Pure(d)
  BY DEF RenderInv, Shaped
<1>d. lesson.deck \in Decks /\ DeckSize[lesson.deck] \in Nat /\ tainted \subseteq tainted'
  BY <1>0, RenderingAssumption, TaintSteps DEF RestShape
<1>1. CASE LookUp
  <2>1. /\ lesson' = lesson /\ ~run.stale /\ run.pc = "looking" /\ lesson.deck \notin tainted'
    BY <1>0, <1>1, RunSteps DEF LookUp, RunBecomes, Unspoiled
  <2>2. run.proc \in Procs /\ PicturesPure(lesson.deck) /\ FullOrFilling(lesson.deck)
        /\ MemoryPure(lesson.deck)
    BY <1>0, <1>d, <2>1 DEF RunShape, UnderWay, Pure
  <2>3. CASE memory[run.proc][lesson.deck] # <<>>
    <3>1. run'.images = memory[run.proc][lesson.deck]
      BY <1>0, <1>1, <2>3 DEF LookUp, RunShape
    <3> QED BY <2>1, <2>2, <2>3, <3>1 DEF MemoryPure, Pictured, InCache
  <2>4. CASE memory[run.proc][lesson.deck] = <<>>
    <3>1. /\ run'.images = CachePaths(lesson.deck) /\ CachePaths(lesson.deck) # <<>>
          /\ peer.deck # lesson.deck
      <4>1. CachePaths(lesson.deck) # <<>>
        <5>1. CASE CachePaths(lesson.deck) = <<>>
          <6>1. run' = [run EXCEPT !.pc = "converting"]
            BY <1>1, <2>4, <5>1 DEF LookUp
          <6>2. run'.pc = "converting"
            BY <1>0, <6>1 DEF RunShape
          <6> QED BY <6>2
        <5> QED BY <5>1
      <4>2. run' = [run EXCEPT !.pc = "scripting", !.images = CachePaths(lesson.deck)]
        BY <1>1, <2>4, <4>1 DEF LookUp
      <4>3. run'.images = CachePaths(lesson.deck)
        BY <1>0, <4>2 DEF RunShape
      <4>4. peer.deck # lesson.deck
        BY <1>1, <2>1, <2>4, <4>1 DEF LookUp
      <4> QED BY <4>1, <4>3, <4>4
    <3>2. CachePaths(lesson.deck) = InCache(lesson.deck)
      BY <1>d, <2>1, <2>2, <3>1, EmptyCacheListed, FullCacheListed DEF FullOrFilling
    <3> QED BY <2>1, <3>1, <3>2 DEF Pictured, InCache
  <2> QED BY <2>3, <2>4
<1>2. CASE Convert
  <2>1. /\ lesson' = lesson /\ ~run.stale /\ run.pc = "converting" /\ workSlides' = Drawn
        /\ run'.images = [n \in DOMAIN Drawn |-> <<"work", n>>]
    BY <1>0, <1>2, RunSteps DEF Convert, RunBecomes, Unspoiled, RunShape
  <2>2. DOMAIN Drawn = 1..DeckSize[lesson.deck]
    BY <1>0, <2>1, OwnDrawing DEF UnderWay
  <2> QED BY <2>1, <2>2 DEF Pictured, OnDisk
<1>3. CASE /\ run.pc \in {"filling", "scripting", "voicing"} /\ UNCHANGED <<lesson, workSlides>>
           /\ run'.images = run.images /\ run'.stale = run.stale
  <2>1. Unspoiled
    BY <1>d, <1>3 DEF Unspoiled
  <2> QED BY <1>0, <1>3, <2>1 DEF OnTrack, Pictured, InCache, OnDisk
<1>4. CASE FillCache \/ WriteScript
  BY <1>0, <1>3, <1>4, RunSteps DEF FillCache, WriteScript, RunBecomes
<1>5. ASSUME NEW k, Voice(k) \/ CopyAudio(k) \/ Encode(k) PROVE Pictured'
  BY <1>0, <1>3, <1>5, RunSteps DEF Voice, CopyAudio, Encode, RunBecomes
<1>6. CASE PeerFills \/ (\E d \in Decks : Evict(d))
  BY <1>3, <1>6 DEF PeerFills, Evict
<1>7. CASE EditLesson
  BY <1>7 DEF EditLesson
<1>8. ASSUME RunStops \/ Finish \/ CleanUp \/ Kill PROVE FALSE
  BY <1>0, <1>8, RunSteps DEF RunBecomes, Idle
<1>9. ASSUME (\E v \in Voices : Launch(v)) \/ (\E p \in Procs : PickUp(p)) PROVE FALSE
  BY <1>0, <1>9, RunSteps DEF RunBecomes
<1> QED
  BY <1>1, <1>2, <1>4, <1>5, <1>6, <1>7, <1>8, <1>9 DEF RenderNext, RenderStep

(* Nothing is resumed: every slide of a new narration waits for its voice.  *)
LEMMA NoneResumed ==
    ASSUME NothingResumed
    PROVE  \A cp : Resumed(cp) = {}
BY DEF NothingResumed, Resumed, ResumeName

(* What holds of a slide holds while its file and its audio stay.           *)
LEMMA SlideStays ==
    ASSUME UNCHANGED lesson, run'.voice = run.voice, run'.said = run.said,
           tainted \subseteq tainted', NEW k
    PROVE  /\ /\ Sounds(AudioKey(k))
              /\ \/ UNCHANGED voiceCache
                 \/ /\ AudioKey(k) \in DOMAIN voiceCache'
                    /\ voiceCache'[AudioKey(k)] = voiceCache[AudioKey(k)]
              => Sounds(AudioKey(k))'
           /\ /\ Segment(k)
              /\ \/ UNCHANGED segFiles
                 \/ /\ SegName(k) \in DOMAIN segFiles'
                    /\ segFiles'[SegName(k)] = segFiles[SegName(k)]
              => Segment(k)'
<1>1. AudioKey(k)' = AudioKey(k)
  BY DEF AudioKey
<1>2. ASSUME Sounds(AudioKey(k)),
             \/ UNCHANGED voiceCache
             \/ /\ AudioKey(k) \in DOMAIN voiceCache'
                /\ voiceCache'[AudioKey(k)] = voiceCache[AudioKey(k)]
      PROVE  Sounds(AudioKey(k))'
  BY <1>1, <1>2 DEF Sounds
<1>3. ASSUME Segment(k),
             \/ UNCHANGED segFiles
             \/ /\ SegName(k) \in DOMAIN segFiles'
                /\ segFiles'[SegName(k)] = segFiles[SegName(k)]
      PROVE  Segment(k)'
  BY <1>3 DEF Segment, SegName
<1> QED BY <1>2, <1>3

(* The steps of one slide: without an excuse what is voiced sounds right    *)
(* and what is encoded shows the deck's picture and says the lesson's text. *)
LEMMA SlideTells ==
    ASSUME RenderInv, NEW k \in DOMAIN run.slide, Voice(k) \/ CopyAudio(k) \/ Encode(k),
           tainted \subseteq tainted', run.pc = "voicing", Unspoiled'
    PROVE  Telling'
<1>0. /\ Shaped /\ RunShape /\ RestShape /\ CacheShape /\ OnTrack /\ LeftBehind /\ VoicesKept
      /\ \A d \in Decks : Pure(d)
  BY DEF RenderInv, Shaped
<1>1. /\ UNCHANGED lesson /\ run'.voice = run.voice /\ run'.said = run.said
      /\ run'.images = run.images /\ run'.stale = run.stale
  BY <1>0, RunSteps DEF RunBecomes, Voice, CopyAudio, Encode
<1>2. Unspoiled /\ Telling /\ Pictured
  BY <1>0, <1>1 DEF Unspoiled, OnTrack
<1>3. /\ DOMAIN run'.slide = DOMAIN run.slide
      /\ \A j \in DOMAIN run.slide : j # k => run'.slide[j] = run.slide[j]
  BY <1>0, RunSteps
<1>4. ASSUME \A j \in DOMAIN run.slide :
                /\ run'.slide[j] = "copying" => AudioKey(j) \in DOMAIN voiceCache'
                /\ run'.slide[j] = "voiced" => Sounds(AudioKey(j))'
                /\ run'.slide[j] = "encoded" => Segment(j)'
      PROVE  Telling'
  <2>1. \A j : AudioKey(j)' = AudioKey(j)
    BY <1>1 DEF AudioKey
  <2> QED BY <1>1, <1>2, <1>3, <1>4, <2>1 DEF Telling, Told
<1>5. CASE Voice(k)
  <2>1. CASE AudioKey(k) \in DOMAIN voiceCache
    <3>1. UNCHANGED <<voiceCache, segFiles>> /\ run' = [run EXCEPT !.slide[k] = "voiced"]
          /\ run.slide[k] = "waiting"
      BY <1>5, <2>1 DEF Voice
    <3>2. run'.slide[k] = "voiced"
      BY <1>0, <3>1 DEF RunShape
    <3>3. Sounds(AudioKey(k)) \/ Copying(AudioKey(k))
      BY <1>0, <2>1 DEF VoicesKept, Sounds
    <3>4. ~Copying(AudioKey(k))
      <4>1. ASSUME NEW j \in DOMAIN run.slide, AudioKey(j) = AudioKey(k) PROVE j = k
        BY <1>2, <4>1 DEF Telling, Told, AudioKey
      <4> QED BY <3>1, <4>1 DEF Copying
    <3>5. \A j \in DOMAIN run.slide : /\ Sounds(AudioKey(j)) => Sounds(AudioKey(j))'
                                      /\ Segment(j) => Segment(j)'
      BY <1>1, <3>1, SlideStays
    <3> QED BY <1>2, <1>3, <1>4, <3>1, <3>2, <3>3, <3>4, <3>5 DEF Telling
  <2>2. CASE AudioKey(k) \notin DOMAIN voiceCache
    <3>1. /\ UNCHANGED segFiles /\ run' = [run EXCEPT !.slide[k] = "copying"]
          /\ \E file : voiceCache' = With(voiceCache, AudioKey(k), file)
      BY <1>5, <2>2 DEF Voice
    <3>2. run'.slide[k] = "copying"
      BY <1>0, <3>1 DEF RunShape
    <3>3. \A j \in DOMAIN run.slide : /\ Sounds(AudioKey(j)) => Sounds(AudioKey(j))'
                                      /\ Segment(j) => Segment(j)'
      <4> TAKE j \in DOMAIN run.slide
      <4>1. Segment(j) => Segment(j)'
        BY <1>1, <3>1, SlideStays
      <4>2. AudioKey(j) \in DOMAIN voiceCache =>
               /\ AudioKey(j) \in DOMAIN voiceCache'
               /\ voiceCache'[AudioKey(j)] = voiceCache[AudioKey(j)]
        BY <2>2, <3>1 DEF With
      <4>3. Sounds(AudioKey(j)) => AudioKey(j) \in DOMAIN voiceCache
        BY DEF Sounds
      <4> QED BY <1>1, <4>1, <4>2, <4>3, SlideStays
    <3>4. DOMAIN voiceCache' = DOMAIN voiceCache \cup {AudioKey(k)}
      BY <3>1 DEF With
    <3> QED BY <1>2, <1>3, <1>4, <3>2, <3>3, <3>4 DEF Telling
  <2> QED BY <2>1, <2>2
<1>6. CASE CopyAudio(k)
  <2>1. /\ UNCHANGED segFiles /\ run' = [run EXCEPT !.slide[k] = "voiced"]
        /\ voiceCache' = [voiceCache EXCEPT ![AudioKey(k)].whole = TRUE]
    BY <1>6 DEF CopyAudio
  <2>2. run'.slide[k] = "voiced" /\ DOMAIN voiceCache' = DOMAIN voiceCache
    BY <1>0, <2>1 DEF RunShape
  <2>3. AudioKey(k) \in DOMAIN voiceCache
    BY <1>2, <1>6 DEF CopyAudio, Telling
  <2>4. voiceCache'[AudioKey(k)].whole
    <3>1. PICK t : t = TRUE
      OBVIOUS
    <3>2. PICK v, w : voiceCache[AudioKey(k)] = [voice |-> v, whole |-> w]
      BY <1>0, <2>3 DEF VoicesKept
    <3>3. voiceCache'[AudioKey(k)] = [voiceCache[AudioKey(k)] EXCEPT !.whole = t]
      BY <2>1, <2>3, <3>1
    <3>4. voiceCache'[AudioKey(k)] = [voice |-> v, whole |-> t]
      BY <3>2, <3>3, MadeWhole
    <3> QED BY <3>1, <3>4
  <2>5. Sounds(AudioKey(k))'
    BY <1>1, <2>2, <2>3, <2>4 DEF Sounds, AudioKey
  <2>6. ASSUME NEW j \in DOMAIN run.slide, j # k
        PROVE  /\ Sounds(AudioKey(j)) => Sounds(AudioKey(j))'
               /\ Segment(j) => Segment(j)'
    <3>1. AudioKey(j) # AudioKey(k)
      BY <1>2, <2>6 DEF Telling, Told, AudioKey
    <3>2. voiceCache'[AudioKey(j)] = voiceCache[AudioKey(j)] \/ AudioKey(j) \notin DOMAIN voiceCache
      BY <2>1, <3>1
    <3>3. Sounds(AudioKey(j)) => AudioKey(j) \in DOMAIN voiceCache
      BY DEF Sounds
    <3> QED BY <1>1, <2>1, <2>2, <3>2, <3>3, SlideStays
  <2> QED BY <1>2, <1>3, <1>4, <2>2, <2>5, <2>6 DEF Telling
<1>7. CASE Encode(k)
  <2>1. /\ UNCHANGED voiceCache /\ run' = [run EXCEPT !.slide[k] = "encoded"]
        /\ run.slide[k] = "voiced"
    BY <1>7 DEF Encode
  <2>2. run'.slide[k] = "encoded"
    BY <1>0, <2>1 DEF RunShape
  <2>3. /\ lesson.deck \in Decks /\ DeckSize[lesson.deck] \in Nat /\ ~run.stale
        /\ k \in 1..DeckSize[lesson.deck] /\ run.said[k] = <<lesson.text, k>>
        /\ PicturesPure(lesson.deck)
    BY <1>0, <1>2, RenderingAssumption DEF RestShape, Unspoiled, Telling, Told, Pure
  <2>4. ASSUME NEW deck \in Picture(run.images[k])
        PROVE  deck = lesson.deck
    <3>1. CASE run.images = InCache(lesson.deck)
      <4>1. run.images[k] = <<"cache", lesson.deck, k>>
        BY <2>3, <3>1 DEF InCache
      <4> QED BY <2>3, <2>4, <4>1 DEF Picture, PicturesPure
    <3>2. CASE /\ run.images = OnDisk(lesson.deck)
               /\ 1..DeckSize[lesson.deck] \subseteq DOMAIN workSlides
      <4>1. run.images[k] = <<"work", k>> /\ k \in DOMAIN workSlides
        BY <2>3, <3>2 DEF OnDisk
      <4>2. workSlides[k] = lesson.deck
        BY <1>0, <2>3, <4>1, OwnPictures DEF UnderWay
      <4> QED BY <2>4, <4>1, <4>2 DEF Picture
    <3> QED BY <1>2, <3>1, <3>2 DEF Pictured
  <2>5. run.images[k][Len(run.images[k])] = k
    <3>1. run.images[k] \in {<<"cache", lesson.deck, k>>, <<"work", k>>}
      BY <1>2, <2>3 DEF Pictured, InCache, OnDisk
    <3>2. /\ Len(<<"cache", lesson.deck, k>>) = 3 /\ <<"cache", lesson.deck, k>>[3] = k
          /\ Len(<<"work", k>>) = 2 /\ <<"work", k>>[2] = k
      OBVIOUS
    <3>3. CASE run.images[k] = <<"cache", lesson.deck, k>>
      BY <3>2, <3>3
    <3>4. CASE run.images[k] = <<"work", k>>
      BY <3>2, <3>4
    <3> QED BY <3>1, <3>3, <3>4
  <2>6. PICK deck \in Picture(run.images[k]) :
           segFiles' = With(segFiles, SegName(k),
                            [deck |-> deck, number |-> run.images[k][Len(run.images[k])],
                             said |-> run.said[k], audio |-> voiceCache[AudioKey(k)]])
    BY <1>7 DEF Encode
  <2>7. segFiles' = With(segFiles, SegName(k),
                         [deck |-> lesson.deck, number |-> k, said |-> <<lesson.text, k>>,
                          audio |-> voiceCache[AudioKey(k)]])
    BY <2>3, <2>4, <2>5, <2>6
  <2>8. Segment(k)'
    <3>1. Sounds(AudioKey(k)) /\ AudioKey(k) = <<<<lesson.text, k>>, run.voice>>
      BY <1>2, <2>1, <2>3 DEF Telling, AudioKey
    <3>2. PICK whole \in BOOLEAN : voiceCache[AudioKey(k)] = [voice |-> run.voice, whole |-> whole]
      BY <1>0, <3>1 DEF VoicesKept, Sounds
    <3>3. whole \/ AudioKey(k) \in tainted'
      BY <3>1, <3>2 DEF Sounds
    <3>4. SegName(k) \in DOMAIN segFiles' /\
          segFiles'[SegName(k)] = [deck |-> lesson.deck, number |-> k, said |-> <<lesson.text, k>>,
                                   audio |-> [voice |-> run.voice, whole |-> whole]]
      BY <2>7, <3>2 DEF With
    <3> QED BY <1>1, <3>1, <3>3, <3>4 DEF Segment, SegName
  <2>9. ASSUME NEW j \in DOMAIN run.slide, j # k
        PROVE  /\ Sounds(AudioKey(j)) => Sounds(AudioKey(j))'
               /\ Segment(j) => Segment(j)'
    <3>1. SegName(j) # SegName(k)
      BY <2>9 DEF SegName
    <3>2. SegName(j) \in DOMAIN segFiles =>
             SegName(j) \in DOMAIN segFiles' /\ segFiles'[SegName(j)] = segFiles[SegName(j)]
      BY <2>7, <3>1 DEF With
    <3>3. Segment(j) => SegName(j) \in DOMAIN segFiles
      BY DEF Segment
    <3> QED BY <1>1, <2>1, <3>2, <3>3, SlideStays
  <2> QED BY <1>2, <1>3, <1>4, <2>1, <2>2, <2>8, <2>9 DEF Telling
<1> QED BY <1>5, <1>6, <1>7

(* Without an excuse, what the run tells is the lesson.                     *)
LEMMA TellingKept ==
    ASSUME RenderInv, RenderNext, run'.pc = "voicing", Unspoiled'
    PROVE  Telling'
<1>0. /\ Shaped /\ RunShape /\ RestShape /\ OnTrack /\ LeftBehind /\ NothingResumed
      /\ tainted \subseteq tainted'
  BY TaintSteps DEF RenderInv, Shaped
<1>1. CASE WriteScript
  <2>1. /\ UNCHANGED <<lesson, tainted>> /\ run.pc = "scripting" /\ run'.stale = run.stale
        /\ run'.said = Narration
        /\ run'.slide = [k \in 1..Len(run.images) |->
                           IF k \in Resumed(Checkpointed) THEN "encoded" ELSE "waiting"]
    BY <1>0, <1>1 DEF WriteScript, RunShape
  <2>2. Unspoiled /\ Pictured /\ leftover = {Material} /\ DeckSize[lesson.deck] \in Nat
    BY <1>0, <2>1, RenderingAssumption
       DEF Unspoiled, OnTrack, LeftBehind, LeftoverKnown, UnderWay, RestShape
  <2>3. Len(run.images) = DeckSize[lesson.deck]
    BY <2>2, LenOfCounted DEF Pictured, InCache, OnDisk
  <2>4. Narration = Told(lesson.text, DeckSize[lesson.deck])
    <3>1. CASE lesson.auto
      BY <2>3, <3>1 DEF Narration
    <3>2. CASE ~lesson.auto
      <4>1. CASE checkpoint.said # <<>> /\ Len(checkpoint.said) = Len(run.images)
        <5>1. PICK n \in Nat : checkpoint.said = Told(lesson.text, n)
          BY <1>0, <2>2, <3>2, <4>1 DEF LeftBehind, NarrationLeft, Material
        <5>2. n = DeckSize[lesson.deck]
          BY <2>3, <4>1, <5>1, ToldLength
        <5> QED BY <3>2, <4>1, <5>1, <5>2 DEF Narration
      <4>2. CASE ~(checkpoint.said # <<>> /\ Len(checkpoint.said) = Len(run.images))
        BY <2>3, <3>2, <4>2 DEF Narration
      <4> QED BY <4>1, <4>2
    <3> QED BY <3>1, <3>2
  <2>5. /\ DOMAIN run'.slide = 1..DeckSize[lesson.deck]
        /\ \A k \in DOMAIN run'.slide : run'.slide[k] = "waiting"
    BY <1>0, <2>1, <2>3, NoneResumed
  <2> QED BY <2>1, <2>4, <2>5 DEF Telling, Told
<1>2. ASSUME NEW k \in DOMAIN run.slide, Voice(k) \/ CopyAudio(k) \/ Encode(k) PROVE Telling'
  <2>1. run.pc = "voicing"
    BY <1>2 DEF Voice, CopyAudio, Encode
  <2> QED BY <1>0, <1>2, <2>1, SlideTells
<1>3. CASE PeerFills \/ (\E d \in Decks : Evict(d))
  <2>1. UNCHANGED <<lesson, run, segFiles, voiceCache>>
    BY <1>3 DEF PeerFills, Evict
  <2>2. Telling
    BY <1>0, <2>1 DEF Unspoiled, OnTrack
  <2>3. \A j : /\ Sounds(AudioKey(j)) => Sounds(AudioKey(j))'
               /\ Segment(j) => Segment(j)'
    BY <1>0, <2>1, SlideStays
  <2>4. \A j : AudioKey(j)' = AudioKey(j)
    BY <2>1 DEF AudioKey
  <2> QED BY <2>1, <2>2, <2>3, <2>4 DEF Telling, Told
<1>4. ASSUME EditLesson PROVE FALSE
  BY <1>4 DEF EditLesson
<1>5. ASSUME \/ LookUp \/ Convert \/ FillCache \/ RunStops \/ Finish \/ CleanUp \/ Kill
             \/ (\E v \in Voices : Launch(v)) \/ (\E p \in Procs : PickUp(p))
      PROVE  FALSE
  <2>1. run'.pc # "voicing" \/ (FillCache /\ run' = run)
    BY <1>0, <1>5, RunSteps DEF RunBecomes, Idle
  <2> QED BY <2>1 DEF FillCache
<1> QED BY <1>1, <1>2, <1>3, <1>4, <1>5 DEF RenderNext, RenderStep

(* Initially nothing is cached, left or under way.                          *)
LEMMA RenderInvInit ==
    ASSUME RenderInit
    PROVE  RenderInv
<1>0. /\ lesson \in [deck : Decks, text : Texts, auto : BOOLEAN]
      /\ run = [pc |-> "idle", voice |-> "none", proc |-> "none", images |-> <<>>,
                said |-> <<>>, slide |-> <<>>, stale |-> FALSE]
      /\ workSlides = NoFn /\ segFiles = NoFn /\ voiceCache = NoFn
      /\ slidesCache = [d \in Decks |-> NoFn]
      /\ memory = [p \in Procs |-> [d \in Decks |-> <<>>]]
      /\ peer = NoPeer /\ checkpoint = NoCheckpoint
  BY DEF RenderInit, Idle
<1>1. DOMAIN NoFn = {} /\ Counted(NoFn) /\ Counted(<<>>)
  <2>1. DOMAIN NoFn = {} /\ {} = 1..0 /\ DOMAIN <<>> = 1..0
    BY DEF NoFn
  <2> QED BY <2>1 DEF Counted
<1>2. RunShape
  BY <1>0 DEF RunShape, UnderWay
<1>3. CacheShape
  BY <1>0, <1>1, FS_EmptySet DEF CacheShape
<1>4. RestShape
  BY <1>0, <1>1 DEF RestShape, NoPeer, NoCheckpoint
<1>5. NothingResumed /\ VoicesKept /\ PicturesLeft
  BY <1>0, <1>1 DEF NothingResumed, VoicesKept, PicturesLeft
<1>6. NarrationLeft /\ LeftoverKnown /\ OnTrack
  BY <1>0 DEF NarrationLeft, LeftoverKnown, OnTrack, NoCheckpoint, UnderWay
<1>7. PeerOrderly /\ \A d \in Decks : Pure(d)
  BY <1>0, <1>1 DEF PeerOrderly, Pure, PicturesPure, FullOrFilling, MemoryPure
<1> QED BY <1>2, <1>3, <1>4, <1>5, <1>6, <1>7 DEF RenderInv, Shaped, LeftBehind

(* Every step keeps the invariant.                                          *)
LEMMA RenderInvStep ==
    ASSUME RenderInv, [RenderNext]_renderVars
    PROVE  RenderInv'
<1>0. /\ Shaped /\ NothingResumed /\ LeftBehind /\ PeerOrderly /\ VoicesKept /\ OnTrack
      /\ \A d \in Decks : Pure(d)
  BY DEF RenderInv
<1>1. CASE RenderNext
  <2>1. Shaped'
    BY <1>0, <1>1, RunShapeKept, CacheShapeKept, RestShapeKept DEF Shaped
  <2>2. NothingResumed' /\ PeerOrderly' /\ VoicesKept'
    BY <1>0, <1>1, NothingResumedKept, PeerOrderlyKept, VoicesStay
  <2>3. LeftBehind'
    BY <1>0, <1>1, PicturesLeftKept, NarrationLeftKept, LeftoverKnownKept DEF LeftBehind
  <2>4. ASSUME NEW d \in Decks, d \notin tainted'
        PROVE  PicturesPure(d)' /\ FullOrFilling(d)' /\ MemoryPure(d)'
    <3>1. PicturesPure(d) /\ FullOrFilling(d) /\ MemoryPure(d)
      BY <1>0, <1>1, <2>4, TaintSteps DEF Pure
    <3> QED
      BY <1>0, <1>1, <2>4, <3>1, PicturesPureKept, FullOrFillingKept, MemoryPureKept
  <2>5. \A d \in Decks : Pure(d)'
    BY <2>4 DEF Pure
  <2>6. OnTrack'
    BY <1>0, <1>1, FillingHasPictures, PicturedKept, TellingKept DEF OnTrack
  <2> QED BY <2>1, <2>2, <2>3, <2>5, <2>6 DEF RenderInv
<1>2. CASE UNCHANGED renderVars
  <2>1. UNCHANGED <<lesson, run, workSlides, segFiles, slidesCache, memory, peer, voiceCache,
                    checkpoint, tainted, leftover>>
    BY <1>2 DEF renderVars
  <2>2. Shaped'
    BY <1>0, <2>1 DEF Shaped, RunShape, CacheShape, RestShape, Counted
  <2>3. NothingResumed' /\ PeerOrderly'
    BY <1>0, <2>1 DEF NothingResumed, PeerOrderly
  <2>4. LeftBehind'
    BY <1>0, <2>1 DEF LeftBehind, PicturesLeft, NarrationLeft, LeftoverKnown, Material
  <2>5. \A d \in Decks : Pure(d)'
    BY <1>0, <2>1 DEF Pure, PicturesPure, FullOrFilling, MemoryPure, InCache
  <2>6. \A key : (Copying(key)' <=> Copying(key)) /\ (Sounds(key)' <=> Sounds(key))
    BY <2>1 DEF Copying, AudioKey, Sounds
  <2>7. VoicesKept'
    BY <1>0, <2>1, <2>6 DEF VoicesKept
  <2>8. /\ Pictured' <=> Pictured
        /\ \A k : (Segment(k)' <=> Segment(k)) /\ AudioKey(k)' = AudioKey(k)
    BY <2>1 DEF Pictured, InCache, OnDisk, Segment, AudioKey
  <2>9. Telling' <=> Telling
    BY <2>1, <2>6, <2>8 DEF Telling, Told
  <2>10. OnTrack'
    BY <1>0, <2>1, <2>8, <2>9 DEF OnTrack, Unspoiled
  <2> QED BY <2>2, <2>3, <2>4, <2>5, <2>7, <2>10 DEF RenderInv
<1> QED BY <1>1, <1>2

(* A video that is finished without an excuse shows and says what it should.*)
LEMMA FinishedRight ==
    ASSUME RenderInv, Finish
    PROVE  Right(video') \/ Excused(video')
<1>0. Shaped /\ OnTrack /\ RunShape /\ RestShape
  BY DEF RenderInv, Shaped
<1>1. /\ run.pc = "voicing" /\ \A k \in DOMAIN run.slide : run.slide[k] = "encoded"
      /\ video' = [slides |-> [k \in DOMAIN run.slide |-> segFiles[SegName(k)]],
                   deck |-> lesson.deck, text |-> lesson.text, voice |-> run.voice,
                   stale |-> run.stale]
      /\ UNCHANGED tainted
  BY DEF Finish
<1>2. CASE ~Unspoiled
  BY <1>1, <1>2 DEF Unspoiled, Excused
<1>3. CASE Unspoiled
  <2>1. Telling /\ DeckSize[lesson.deck] \in Nat
    BY <1>0, <1>1, <1>3, RenderingAssumption DEF OnTrack, RestShape
  <2>2. /\ DOMAIN video'.slides = 1..DeckSize[lesson.deck]
        /\ \A k \in DOMAIN video'.slides : Segment(k) /\ video'.slides[k] = segFiles[SegName(k)]
    BY <1>1, <2>1 DEF Telling
  <2>3. Len(video'.slides) = DeckSize[lesson.deck]
    BY <2>1, <2>2, LenOfCounted
  <2>4. CASE \A k \in DOMAIN video'.slides :
                <<<<lesson.text, k>>, run.voice>> \notin tainted
    <3>1. ASSUME NEW k \in DOMAIN video'.slides
          PROVE  video'.slides[k] =
                   [deck |-> lesson.deck, number |-> k, said |-> <<lesson.text, k>>,
                    audio |-> [voice |-> run.voice, whole |-> TRUE]]
      <4>1. PICK whole \in BOOLEAN :
               /\ segFiles[SegName(k)] =
                     [deck |-> lesson.deck, number |-> k, said |-> <<lesson.text, k>>,
                      audio |-> [voice |-> run.voice, whole |-> whole]]
               /\ whole \/ <<<<lesson.text, k>>, run.voice>> \in tainted
        BY <2>2, <3>1 DEF Segment
      <4>2. whole = TRUE
        BY <2>4, <3>1, <4>1
      <4> QED BY <2>2, <3>1, <4>1, <4>2
    <3> QED BY <1>1, <2>3, <3>1 DEF Right
  <2>5. CASE \E k \in DOMAIN video'.slides :
                <<<<lesson.text, k>>, run.voice>> \in tainted
    <3>1. PICK k \in DOMAIN video'.slides : <<<<lesson.text, k>>, run.voice>> \in tainted
      BY <2>5
    <3>2. video'.slides[k].said = <<lesson.text, k>>
      <4>1. PICK audio : segFiles[SegName(k)] =
                            [deck |-> lesson.deck, number |-> k, said |-> <<lesson.text, k>>,
                             audio |-> audio]
        BY <2>2 DEF Segment
      <4> QED BY <2>2, <4>1
    <3> QED BY <1>1, <3>1, <3>2 DEF Excused
  <2> QED BY <2>4, <2>5
<1> QED BY <1>2, <1>3

(* Whatever is killed, evicted, edited, cancelled or launched again, a      *)
(* finished video shows the lesson's deck and says its text in the voice    *)
(* asked for, or one of the named leftovers spoiled it.                     *)
THEOREM VideosShowTheLesson == RenderSpec => OnlyLeftoversSpoilVideos
<1>1. RenderInit => RenderInv
  BY RenderInvInit
<1>2. RenderInv /\ [RenderNext]_renderVars => RenderInv'
  BY RenderInvStep
<1>3. RenderInv /\ [RenderNext]_renderVars
         => [video' # video => Right(video') \/ Excused(video')]_renderVars
  <2> SUFFICES ASSUME RenderInv, RenderNext, video' # video
               PROVE  Right(video') \/ Excused(video')
    BY DEF renderVars
  <2>1. Finish
    BY DEF RenderNext, RenderStep, LookUp, Convert, FillCache, WriteScript, RunStops, CleanUp,
           Launch, PickUp, Voice, CopyAudio, Encode, Kill, Evict, PeerFills, EditLesson
  <2> QED BY <2>1, FinishedRight
<1> QED BY <1>1, <1>2, <1>3, PTL DEF RenderSpec, OnlyLeftoversSpoilVideos

(* Slides are numbered within some deck.                                    *)
Short(S) == \E k \in Numbers \cup {0} : S \subseteq 1..k

CachesShort == \A d \in Decks : Short(DOMAIN slidesCache[d])
MemoryShort == \A p \in Procs, d \in Decks : DOMAIN memory[p][d] \subseteq Numbers

RunShort ==
    /\ run.pc \in {"filling", "scripting", "voicing"} => DOMAIN run.images \subseteq Numbers
    /\ DOMAIN run.slide \subseteq Numbers

SaidFits ==
    /\ run.pc \in {"looking", "converting", "filling", "scripting"} => run.said = <<>>
    /\ Len(run.images) = Len(run.said) \/ run.said = <<>>

FilesNamed ==
    /\ DOMAIN segFiles \subseteq {SegName(k) : k \in Numbers}
    /\ checkpoint.segments \subseteq Numbers

LessonTyped == lesson \in [deck : Decks, text : Texts, auto : BOOLEAN]

RenderAll ==
    /\ RenderInv /\ LessonTyped
    /\ CachesShort /\ MemoryShort /\ RunShort /\ SaidFits /\ FilesNamed

(* The numbers of one deck, and all below a number.                         *)
LEMMA NumbersClosed ==
    /\ \A d \in Decks : 1..DeckSize[d] \subseteq Numbers /\ DeckSize[d] \in Numbers
    /\ \A k \in Numbers : k \in Nat /\ 1..k \subseteq Numbers
BY RenderingAssumption DEF Numbers

(* A short set is a set of numbers, and one more number keeps it short.     *)
LEMMA ShortNumbers == \A S : Short(S) => S \subseteq Numbers
BY NumbersClosed DEF Short

(* One more number keeps a short set short.                                 *)
LEMMA ShortAdds ==
    ASSUME NEW S, Short(S), NEW n \in Numbers
    PROVE  Short(S \cup {n})
<1>1. PICK k \in Numbers \cup {0} : S \subseteq 1..k
  BY DEF Short
<1>2. k \in Nat /\ n \in Nat
  BY NumbersClosed
<1>3. n \in 1..n
  <2>1. PICK d \in Decks : n \in 1..DeckSize[d]
    BY DEF Numbers
  <2> QED BY <2>1, RenderingAssumption
<1>4. CASE n <= k
  BY <1>1, <1>2, <1>3, <1>4 DEF Short
<1>5. CASE n > k
  <2>1. S \cup {n} \subseteq 1..n
    BY <1>1, <1>2, <1>3, <1>5
  <2> QED BY <2>1 DEF Short
<1> QED BY <1>2, <1>4, <1>5

(* What the lesson's directory holds is numbered within a deck.             *)
LEMMA WorkShort ==
    ASSUME Shaped, PicturesLeft
    PROVE  DOMAIN workSlides \subseteq Numbers
<1> SUFFICES ASSUME NEW n \in DOMAIN workSlides PROVE n \in Numbers
  OBVIOUS
<1>1. PICK m \in leftover : m[1] \in Decks /\ n <= DeckSize[m[1]]
  BY DEF PicturesLeft
<1>2. n \in Nat /\ 1 <= n
  BY DEF Shaped, RestShape, Counted
<1> QED BY <1>1, <1>2, NumbersClosed, RenderingAssumption

(* The pictures of a conversion are numbered within a deck.                 *)
LEMMA DrawnShort ==
    ASSUME Shaped, PicturesLeft
    PROVE  DOMAIN Drawn \subseteq Numbers
<1>1. lesson.deck \in Decks
  BY DEF Shaped, RestShape
<1> QED BY <1>1, WorkShort, NumbersClosed DEF Drawn

(* So are those the cache lists.                                            *)
LEMMA ListShort ==
    ASSUME NEW d \in Decks, Short(DOMAIN slidesCache[d])
    PROVE  DOMAIN CachePaths(d) \subseteq Numbers
<1>1. PICK k \in Numbers \cup {0} : DOMAIN slidesCache[d] \subseteq 1..k
  BY DEF Short
<1>2. k \in Nat /\ 1..k \subseteq Numbers
  BY <1>1, NumbersClosed
<1>3. IsFiniteSet(1..k) /\ Cardinality(1..k) = k
  <2>1. 1 \in Int /\ k \in Int
    BY <1>2
  <2>2. Cardinality(1..k) = IF 1 > k THEN 0 ELSE k - 1 + 1
    BY <2>1, FS_Interval
  <2>3. IsFiniteSet(1..k)
    BY <2>1, FS_Interval
  <2> QED BY <1>2, <2>2, <2>3
<1>4. Cardinality(DOMAIN slidesCache[d]) \in Nat /\ Cardinality(DOMAIN slidesCache[d]) <= k
  BY <1>1, <1>3, FS_Subset, FS_CardinalityType
<1>5. DOMAIN CachePaths(d) = 1..Cardinality(DOMAIN slidesCache[d])
  BY DEF CachePaths
<1> QED BY <1>2, <1>4, <1>5

(* The narration has one text per picture.                                  *)
LEMMA NarrationFits ==
    ASSUME Counted(run.images)
    PROVE  Len(Narration) = Len(run.images)
<1>1. Len(run.images) \in Nat
  BY LenOfCounted DEF Counted
<1>2. \A t : Len(Told(t, Len(run.images))) = Len(run.images)
  BY <1>1, ToldLength
<1> QED BY <1>2 DEF Narration

(* At first everything is empty.                                            *)
LEMMA RenderAllStart == RenderInit => RenderAll
<1> SUFFICES ASSUME RenderInit PROVE RenderAll
  OBVIOUS
<1>1. RenderInv
  BY RenderInvInit
<1>2. LessonTyped /\ FilesNamed
  BY DEF RenderInit, LessonTyped, FilesNamed, NoFn, NoCheckpoint
<1>3. CachesShort
  BY DEF RenderInit, CachesShort, Short, NoFn
<1>4. MemoryShort
  BY DEF RenderInit, MemoryShort
<1>5. RunShort /\ SaidFits
  BY DEF RenderInit, RunShort, SaidFits, Idle
<1> QED BY <1>1, <1>2, <1>3, <1>4, <1>5 DEF RenderAll

(* A filled cache gains one numbered picture at a time.                     *)
LEMMA CachesStayShort ==
    ASSUME Shaped, PicturesLeft, PeerOrderly, CachesShort, RenderNext
    PROVE  CachesShort'
<1>0. /\ DOMAIN slidesCache = Decks /\ lesson.deck \in Decks
      /\ DOMAIN workSlides \subseteq Numbers /\ Short({})
  BY WorkShort DEF Shaped, CacheShape, RestShape, Short
<1>1. CASE FillCache
  <2>1. CASE UNCHANGED slidesCache
    BY <2>1 DEF CachesShort
  <2>2. CASE ~UNCHANGED slidesCache
    <3>1. DOMAIN workSlides \ DOMAIN slidesCache[lesson.deck] # {}
      BY <1>1, <2>2 DEF FillCache
    <3>2. PICK n : /\ n = CHOOSE m \in DOMAIN workSlides \ DOMAIN slidesCache[lesson.deck] :
                            \A o \in DOMAIN workSlides \ DOMAIN slidesCache[lesson.deck] : m <= o
                   /\ slidesCache' = [slidesCache EXCEPT ![lesson.deck] =
                                        With(slidesCache[lesson.deck], n, workSlides[n])]
      BY <1>1, <3>1 DEF FillCache
    <3>3. n \in DOMAIN workSlides
      <4>1. DOMAIN workSlides \ DOMAIN slidesCache[lesson.deck] \subseteq Nat
        BY DEF Shaped, RestShape, Counted
      <4>2. PICK least \in DOMAIN workSlides \ DOMAIN slidesCache[lesson.deck] :
               \A o \in DOMAIN workSlides \ DOMAIN slidesCache[lesson.deck] : least <= o
        BY <3>1, <4>1, LeastNumber
      <4> QED BY <3>2, <4>2
    <3>4. DOMAIN With(slidesCache[lesson.deck], n, workSlides[n]) =
             DOMAIN slidesCache[lesson.deck] \cup {n}
      BY DEF With
    <3>5. Short(DOMAIN slidesCache[lesson.deck] \cup {n})
      BY <1>0, <3>3, ShortAdds DEF CachesShort
    <3> QED BY <1>0, <3>2, <3>4, <3>5 DEF CachesShort
  <2> QED BY <2>1, <2>2
<1>2. CASE PeerFills /\ ~UNCHANGED slidesCache
  <2>1. /\ peer # NoPeer
        /\ slidesCache' = [slidesCache EXCEPT ![peer.deck] =
                             With(slidesCache[peer.deck], peer.next, peer.deck)]
    BY <1>2 DEF PeerFills
  <2>2. peer.deck \in Decks /\ peer.next \in Numbers
    BY <2>1, NumbersClosed DEF PeerOrderly
  <2>3. DOMAIN With(slidesCache[peer.deck], peer.next, peer.deck) =
           DOMAIN slidesCache[peer.deck] \cup {peer.next}
    BY DEF With
  <2>4. Short(DOMAIN slidesCache[peer.deck] \cup {peer.next})
    BY <2>2, ShortAdds DEF CachesShort
  <2> QED BY <1>0, <2>1, <2>2, <2>3, <2>4 DEF CachesShort
<1>3. ASSUME NEW d \in Decks, Evict(d) PROVE CachesShort'
  BY <1>0, <1>3 DEF Evict, NoFn, CachesShort
<1>4. CASE UNCHANGED slidesCache
  BY <1>4 DEF CachesShort
<1>5. FillCache \/ PeerFills \/ (\E d \in Decks : Evict(d)) \/ UNCHANGED slidesCache
  BY DEF RenderNext, RenderStep, EditLesson, LookUp, Convert, WriteScript, RunStops, Finish,
         CleanUp, PickUp, Voice, CopyAudio, Encode, Kill, Launch
<1> QED BY <1>1, <1>2, <1>3, <1>4, <1>5

(* A process remembers what the cache listed or what was drawn.             *)
LEMMA MemoryStaysShort ==
    ASSUME Shaped, PicturesLeft, CachesShort, MemoryShort, RenderNext
    PROVE  MemoryShort'
<1>0. /\ DOMAIN memory = Procs /\ \A p \in Procs : DOMAIN memory[p] = Decks
      /\ lesson.deck \in Decks /\ (run.pc \in UnderWay => run.proc \in Procs)
      /\ DOMAIN workSlides \subseteq Numbers
      /\ DOMAIN CachePaths(lesson.deck) \subseteq Numbers
  BY WorkShort, ListShort DEF Shaped, CacheShape, RestShape, RunShape, CachesShort
<1>1. ASSUME NEW list, DOMAIN list \subseteq Numbers, run.proc \in Procs,
             memory' = [memory EXCEPT ![run.proc][lesson.deck] = list]
      PROVE  MemoryShort'
  BY <1>0, <1>1 DEF MemoryShort
<1>2. CASE LookUp
  <2>1. run.proc \in Procs /\ DOMAIN memory[run.proc][lesson.deck] \subseteq Numbers
    BY <1>0, <1>2 DEF LookUp, UnderWay, MemoryShort
  <2>2. CASE UNCHANGED memory
    BY <2>2 DEF MemoryShort
  <2>3. CASE memory' = [memory EXCEPT ![run.proc][lesson.deck] = memory[run.proc][lesson.deck]]
    BY <1>1, <2>1, <2>3
  <2>4. CASE memory' = [memory EXCEPT ![run.proc][lesson.deck] = CachePaths(lesson.deck)]
    BY <1>0, <1>1, <2>1, <2>4
  <2> QED BY <1>2, <2>2, <2>3, <2>4 DEF LookUp
<1>3. CASE FillCache
  <2>1. run.proc \in Procs
    BY <1>0, <1>3 DEF FillCache, UnderWay
  <2>2. CASE UNCHANGED memory
    BY <2>2 DEF MemoryShort
  <2>3. CASE ~UNCHANGED memory
    <3>1. memory' = [memory EXCEPT ![run.proc][lesson.deck] =
                       [n \in DOMAIN workSlides |-> <<"cache", lesson.deck, n>>]]
      BY <1>3, <2>3 DEF FillCache
    <3> QED BY <1>0, <1>1, <2>1, <3>1
  <2> QED BY <2>2, <2>3
<1>4. CASE Kill
  <2>1. run.proc \in Procs
    BY <1>0, <1>4 DEF Kill, Working, UnderWay
  <2> QED BY <1>0, <1>4, <2>1 DEF Kill, MemoryShort
<1>5. CASE UNCHANGED memory
  BY <1>5 DEF MemoryShort
<1>6. LookUp \/ FillCache \/ Kill \/ UNCHANGED memory
  BY DEF RenderNext, RenderStep, EditLesson, Convert, WriteScript, RunStops, Finish,
         CleanUp, PickUp, Voice, CopyAudio, Encode, PeerFills, Evict, Launch
<1> QED BY <1>2, <1>3, <1>4, <1>5, <1>6

(* A run has no more slides than pictures.                                  *)
LEMMA RunStaysShort ==
    ASSUME Shaped, PicturesLeft, CachesShort, MemoryShort, RunShort, RenderNext
    PROVE  RunShort'
<1>0. /\ run = [pc |-> run.pc, voice |-> run.voice, proc |-> run.proc, images |-> run.images,
                said |-> run.said, slide |-> run.slide, stale |-> run.stale]
      /\ lesson.deck \in Decks /\ (run.pc \in UnderWay => run.proc \in Procs)
      /\ DOMAIN CachePaths(lesson.deck) \subseteq Numbers
  BY ListShort DEF Shaped, RestShape, RunShape, CachesShort
<1>1. CASE LookUp
  <2>1. DOMAIN memory[run.proc][lesson.deck] \subseteq Numbers
    BY <1>0, <1>1 DEF LookUp, UnderWay, MemoryShort
  <2>2. /\ run'.slide = run.slide
        /\ \/ run'.pc = "converting"
           \/ run'.images \in {memory[run.proc][lesson.deck], CachePaths(lesson.deck)}
    BY <1>0, <1>1 DEF LookUp
  <2> QED BY <1>0, <2>1, <2>2 DEF RunShort
<1>2. CASE Convert
  <2>1. workSlides' = Drawn
    BY <1>2 DEF Convert
  <2>2. run'.slide = run.slide /\ DOMAIN run'.images = DOMAIN Drawn
    BY <1>0, <1>2, <2>1 DEF Convert
  <2> QED BY <2>2, DrawnShort DEF RunShort
<1>3. CASE FillCache
  <2>1. run.pc = "filling" /\ run'.images = run.images /\ run'.slide = run.slide
    BY <1>0, <1>3 DEF FillCache
  <2> QED BY <2>1 DEF RunShort
<1>4. CASE WriteScript
  <2>1. /\ run.pc = "scripting" /\ run'.images = run.images
        /\ DOMAIN run'.slide = 1..Len(run.images)
    BY <1>0, <1>4 DEF WriteScript
  <2>2. DOMAIN run.images = 1..Len(run.images)
    BY <2>1, LenOfCounted DEF Shaped, RunShape, Counted
  <2> QED BY <2>1, <2>2 DEF RunShort
<1>5. ASSUME NEW k \in DOMAIN run.slide, Voice(k) \/ CopyAudio(k) \/ Encode(k)
      PROVE  RunShort'
  <2>1. /\ run.pc = "voicing" /\ run'.images = run.images
        /\ DOMAIN run'.slide = DOMAIN run.slide
    BY <1>0, <1>5 DEF Voice, CopyAudio, Encode
  <2> QED BY <2>1 DEF RunShort
<1>6. CASE RunStops \/ (\E v \in Voices : Launch(v)) \/ (\E p \in Procs : PickUp(p)) \/ CleanUp
           \/ Finish \/ Kill
  <2>1. /\ run'.pc \notin {"filling", "scripting", "voicing"}
        /\ run'.slide \in {<<>>, run.slide}
    <3>1. CASE RunStops
      BY <3>1 DEF RunStops, Idle
    <3>2. CASE CleanUp
      BY <1>0, <3>2 DEF CleanUp, Idle
    <3>3. CASE Finish \/ Kill
      BY <1>0, <3>3 DEF Finish, Kill
    <3>4. ASSUME NEW v \in Voices, Launch(v)
          PROVE  run'.pc \notin {"filling", "scripting", "voicing"} /\ run'.slide \in {<<>>, run.slide}
      BY <3>4 DEF Launch, Idle
    <3>5. ASSUME NEW p \in Procs, PickUp(p)
          PROVE  run'.pc \notin {"filling", "scripting", "voicing"} /\ run'.slide \in {<<>>, run.slide}
      BY <1>0, <3>5 DEF PickUp
    <3> QED BY <1>6, <3>1, <3>2, <3>3, <3>4, <3>5
  <2> QED BY <2>1 DEF RunShort
<1>7. CASE UNCHANGED run
  BY <1>7 DEF RunShort
<1> QED
  BY <1>1, <1>2, <1>3, <1>4, <1>5, <1>6, <1>7 DEF RenderNext, RenderStep, EditLesson, PeerFills, Evict

(* The narration is split once, for the pictures there are.                 *)
LEMMA SaidStaysFit ==
    ASSUME Shaped, SaidFits, RenderNext
    PROVE  SaidFits'
<1>0. run = [pc |-> run.pc, voice |-> run.voice, proc |-> run.proc, images |-> run.images,
             said |-> run.said, slide |-> run.slide, stale |-> run.stale]
  BY DEF Shaped, RunShape
<1>1. CASE LookUp \/ Convert \/ FillCache
  <2>1. run.pc \in {"looking", "converting", "filling"} /\ run'.said = run.said
    BY <1>0, <1>1 DEF LookUp, Convert, FillCache
  <2> QED BY <2>1 DEF SaidFits
<1>2. CASE WriteScript
  <2>1. run.pc = "scripting" /\ run'.pc = "voicing" /\ run'.images = run.images
        /\ run'.said = Narration
    BY <1>0, <1>2 DEF WriteScript
  <2>2. Counted(run.images)
    BY <2>1 DEF Shaped, RunShape
  <2> QED BY <2>1, <2>2, NarrationFits DEF SaidFits
<1>3. ASSUME NEW k \in DOMAIN run.slide, Voice(k) \/ CopyAudio(k) \/ Encode(k)
      PROVE  SaidFits'
  <2>1. /\ run'.pc = "voicing" /\ run'.images = run.images /\ run'.said = run.said
    BY <1>0, <1>3 DEF Voice, CopyAudio, Encode
  <2> QED BY <2>1 DEF SaidFits
<1>4. CASE RunStops \/ (\E v \in Voices : Launch(v)) \/ (\E p \in Procs : PickUp(p)) \/ CleanUp
           \/ Finish \/ Kill
  <2>1. \/ run'.said = <<>>
        \/ /\ run'.pc \notin {"looking", "converting", "filling", "scripting"}
           /\ run'.said = run.said /\ run'.images = run.images
    <3>1. CASE RunStops
      BY <3>1 DEF RunStops, Idle
    <3>2. CASE CleanUp
      BY <1>0, <3>2 DEF CleanUp, Idle
    <3>3. CASE Finish \/ Kill
      BY <1>0, <3>3 DEF Finish, Kill
    <3>4. ASSUME NEW v \in Voices, Launch(v)
          PROVE  \/ run'.said = <<>>
                 \/ /\ run'.pc \notin {"looking", "converting", "filling", "scripting"}
                    /\ run'.said = run.said /\ run'.images = run.images
      BY <3>4 DEF Launch, Idle
    <3>5. ASSUME NEW p \in Procs, PickUp(p)
          PROVE  \/ run'.said = <<>>
                 \/ /\ run'.pc \notin {"looking", "converting", "filling", "scripting"}
                    /\ run'.said = run.said /\ run'.images = run.images
      BY <1>0, <3>5 DEF PickUp
    <3> QED BY <1>4, <3>1, <3>2, <3>3, <3>4, <3>5
  <2> QED BY <2>1 DEF SaidFits
<1>5. CASE UNCHANGED run
  BY <1>5 DEF SaidFits
<1> QED
  BY <1>1, <1>2, <1>3, <1>4, <1>5 DEF RenderNext, RenderStep, EditLesson, PeerFills, Evict

(* Segments are written and listed by slide number.                         *)
LEMMA FilesStayNamed ==
    ASSUME Shaped, RunShort, FilesNamed, RenderNext
    PROVE  FilesNamed'
<1>0. checkpoint = [voice |-> checkpoint.voice, said |-> checkpoint.said,
                    segments |-> checkpoint.segments]
  BY DEF Shaped, RestShape
<1>1. ASSUME NEW k \in DOMAIN run.slide, Encode(k)
      PROVE  FilesNamed'
  <2>1. k \in Numbers
    BY DEF RunShort
  <2>2. checkpoint'.segments = checkpoint.segments \cup {k}
    BY <1>0, <1>1 DEF Encode
  <2>3. DOMAIN segFiles' = DOMAIN segFiles \cup {SegName(k)}
    BY <1>1 DEF Encode, With
  <2> QED BY <2>1, <2>2, <2>3 DEF FilesNamed
<1>2. CASE WriteScript
  <2>1. UNCHANGED segFiles /\ checkpoint'.segments \subseteq checkpoint.segments
    BY <1>0, <1>2 DEF WriteScript, Checkpointed
  <2> QED BY <2>1 DEF FilesNamed
<1>3. CASE Finish \/ CleanUp
  BY <1>3 DEF Finish, CleanUp, NoFn, NoCheckpoint, FilesNamed
<1>4. CASE UNCHANGED <<segFiles, checkpoint>>
  BY <1>4 DEF FilesNamed
<1>5. (\E k \in DOMAIN run.slide : Encode(k)) \/ WriteScript \/ Finish \/ CleanUp
         \/ UNCHANGED <<segFiles, checkpoint>>
  BY DEF RenderNext, RenderStep, EditLesson, LookUp, Convert, FillCache, RunStops,
         PickUp, Voice, CopyAudio, PeerFills, Evict, Kill, Launch
<1> QED BY <1>1, <1>2, <1>3, <1>4, <1>5

(* An edit gives the lesson another deck and text.                          *)
LEMMA LessonStaysTyped == LessonTyped /\ RenderNext => LessonTyped'
<1> SUFFICES ASSUME LessonTyped, RenderNext PROVE LessonTyped'
  OBVIOUS
<1>1. CASE EditLesson
  BY <1>1 DEF EditLesson, LessonTyped
<1>2. CASE UNCHANGED lesson
  BY <1>2 DEF LessonTyped
<1> QED
  BY <1>1, <1>2 DEF RenderNext, RenderStep, LookUp, Convert, FillCache, WriteScript, RunStops, Finish,
     CleanUp, PickUp, Voice, CopyAudio, Encode, PeerFills, Evict, Kill, Launch

(* Every step keeps every part.                                             *)
LEMMA RenderAllStep == RenderAll /\ [RenderNext]_renderVars => RenderAll'
<1> SUFFICES ASSUME RenderAll, [RenderNext]_renderVars PROVE RenderAll'
  OBVIOUS
<1>1. RenderInv'
  BY RenderInvStep DEF RenderAll
<1>2. CASE RenderNext
  <2>1. Shaped /\ PicturesLeft /\ PeerOrderly
    BY DEF RenderAll, RenderInv, LeftBehind
  <2> QED
    BY <1>1, <1>2, <2>1, CachesStayShort, MemoryStaysShort, RunStaysShort, SaidStaysFit,
       FilesStayNamed, LessonStaysTyped
    DEF RenderAll
<1>3. CASE UNCHANGED renderVars
  BY <1>1, <1>3
  DEF RenderAll, renderVars, LessonTyped, CachesShort, MemoryShort, RunShort, SaidFits, FilesNamed
<1> QED BY <1>2, <1>3

(* The parts type the rendering.                                            *)
LEMMA RenderAllTyped == RenderAll => RenderTypeOK
<1> SUFFICES ASSUME RenderAll PROVE RenderTypeOK
  OBVIOUS
<1>1. DOMAIN workSlides \subseteq Numbers
  BY WorkShort DEF RenderAll, RenderInv, LeftBehind
<1> QED
  BY <1>1, ShortNumbers DEF RenderAll, LessonTyped, CachesShort, SaidFits, FilesNamed, RenderTypeOK
(* What a rendering keeps is well formed, for every number of decks.        *)
LEMMA RenderTypeCorrect == RenderSpec => []RenderTypeOK
  BY RenderAllStart, RenderAllStep, RenderAllTyped, PTL DEF RenderSpec


(* A set with 0 and, with every number up to n, the next has all up to n.   *)
LEMMA UpToInduction ==
    ASSUME NEW n \in Nat, NEW A, 0 \in A,
           \A i \in 1..n : i - 1 \in A => i \in A
    PROVE  \A i \in 0..n : i \in A
<1> DEFINE B == {i \in 0..n : i \notin A}
<1> SUFFICES ASSUME B # {} PROVE FALSE
  OBVIOUS
<1>1. PICK i \in B : \A j \in B : i <= j
  <2>1. B \subseteq Nat
    OBVIOUS
  <2> HIDE DEF B
  <2> QED BY <2>1, LeastNumber
<1>2. i \in 1..n /\ i - 1 \in 0..n /\ i - 1 \notin B
  BY <1>1
<1>3. i - 1 \in A
  BY <1>2
<1> QED BY <1>2, <1>3, <1>1

-----------------------------------------------------------------------------
(* The values a fold of F over 1..n takes on the way, by the set of indices *)
(* folded so far.                                                           *)
IsFold(g, base, F, n) ==
    g = [T \in SUBSET (1..n) |->
           IF T = {} THEN base ELSE F[g[T \ {Max(T)}]][Max(T)]]

(* The last index of a set is its greatest.                                 *)
LEMMA MaxOfUpTo ==
    ASSUME NEW k \in Nat, NEW T \in SUBSET (1..(k + 1)), k + 1 \in T
    PROVE  Max(T) = k + 1
<1>1. \A y \in T : k + 1 >= y
  OBVIOUS
<1>2. \A x \in T : (\A y \in T : x >= y) => x = k + 1
  <2> TAKE x \in T
  <2> HAVE \A y \in T : x >= y
  <2>1. x >= k + 1 /\ x <= k + 1 /\ x \in Int
    OBVIOUS
  <2> QED BY <2>1
<1> QED BY <1>1, <1>2 DEF Max

(* A set of indices has a greatest.                                         *)
LEMMA MaxInUpTo ==
    ASSUME NEW n \in Nat, NEW T \in SUBSET (1..n), T # {}
    PROVE  Max(T) \in T
<1> DEFINE B == {n - x : x \in T}
<1>1. PICK b \in B : \A m \in B : b <= m
  <2>1. \A x \in T : n - x \in Nat
    OBVIOUS
  <2>2. B \subseteq Nat /\ B # {}
    BY <2>1
  <2> HIDE DEF B
  <2> QED BY <2>2, LeastNumber
<1>2. PICK x \in T : b = n - x
  BY <1>1
<1>3. \A y \in T : x >= y
  <2> TAKE y \in T
  <2>1. n - x <= n - y
    BY <1>1, <1>2
  <2> QED BY <2>1
<1> QED BY <1>3 DEF Max

(* The indices up to i.                                                     *)
LEMMA UpToSet ==
    ASSUME NEW n \in Nat, NEW i \in 1..n
    PROVE  /\ 1..i \in SUBSET (1..n) /\ 1..i # {}
           /\ Max(1..i) = i /\ (1..i) \ {i} = 1..(i - 1)
<1>1. Max(1..i) = i
  <2>1. i - 1 \in Nat /\ 1..i \in SUBSET (1..((i - 1) + 1)) /\ (i - 1) + 1 \in 1..i
    OBVIOUS
  <2>2. Max(1..i) = (i - 1) + 1
    BY <2>1, MaxOfUpTo
  <2> QED BY <2>2
<1>2. 1..i \in SUBSET (1..n) /\ i \in 1..i
  OBVIOUS
<1>3. (1..i) \ {i} = 1..(i - 1)
  <2>1. \A x : x \in (1..i) \ {i} <=> x \in 1..(i - 1)
    OBVIOUS
  <2> QED BY <2>1
<1> QED BY <1>1, <1>2, <1>3

(* A fold of a function into A exists.                                      *)
LEMMA FoldExists ==
    ASSUME NEW n \in Nat, NEW A, NEW base \in A, NEW F \in [A -> [1..n -> A]]
    PROVE  \E g \in [SUBSET (1..n) -> A] : IsFold(g, base, F, n)
<1> DEFINE Folding(g, T) == g[T] = IF T = {} THEN base ELSE F[g[T \ {Max(T)}]][Max(T)]
           Fits(k) == \E g \in [SUBSET (1..n) -> A] :
                         \A T \in SUBSET (1..k) : Folding(g, T)
           fine == {k \in 0..n : Fits(k)}
<1>1. 0 \in fine
  <2> DEFINE g == [T \in SUBSET (1..n) |-> base]
  <2>1. g \in [SUBSET (1..n) -> A] /\ g[{}] = base
    OBVIOUS
  <2>2. \A T \in SUBSET (1..0) : T = {}
    OBVIOUS
  <2>3. \A T \in SUBSET (1..0) : Folding(g, T)
    BY <2>1, <2>2
  <2>4. Fits(0)
    <3> HIDE DEF g, Folding
    <3> QED BY <2>1, <2>3
  <2> HIDE DEF Fits
  <2> QED BY <2>4
<1>2. ASSUME NEW k \in 1..n, k - 1 \in fine PROVE k \in fine
  <2>1. PICK g \in [SUBSET (1..n) -> A] : \A T \in SUBSET (1..(k - 1)) : Folding(g, T)
    BY <1>2
  <2> DEFINE h == [T \in SUBSET (1..n) |->
                     IF k \in T THEN F[g[T \ {k}]][k] ELSE g[T]]
  <2>2. h \in [SUBSET (1..n) -> A]
    <3>1. ASSUME NEW T \in SUBSET (1..n), k \in T PROVE F[g[T \ {k}]][k] \in A
      <4>1. g[T \ {k}] \in A
        OBVIOUS
      <4> QED BY <4>1
    <3> QED BY <3>1
  <2>3. ASSUME NEW T \in SUBSET (1..k) PROVE Folding(h, T)
    <3>0. T \in SUBSET (1..n) /\ T \ {k} \in SUBSET (1..n)
      OBVIOUS
    <3>1. CASE k \in T
      <4>1. Max(T) = k
        <5>1. k - 1 \in Nat /\ T \in SUBSET (1..((k - 1) + 1)) /\ (k - 1) + 1 \in T
          BY <3>1
        <5>2. Max(T) = (k - 1) + 1
          BY <5>1, MaxOfUpTo
        <5> QED BY <5>2
      <4>2. h[T] = F[g[T \ {k}]][k] /\ h[T \ {k}] = g[T \ {k}] /\ T # {}
        BY <3>0, <3>1
      <4> HIDE DEF h
      <4> QED BY <4>1, <4>2
    <3>2. CASE k \notin T
      <4>1. T \in SUBSET (1..(k - 1))
        BY <3>2
      <4>2. h[T] = g[T] /\ Folding(g, T)
        BY <2>1, <3>0, <3>2, <4>1
      <4>3. h[T \ {Max(T)}] = g[T \ {Max(T)}]
        BY <3>0, <3>2
      <4> HIDE DEF h
      <4> QED BY <4>2, <4>3
    <3> QED BY <3>1, <3>2
  <2>4. Fits(k)
    <3> HIDE DEF h, Folding
    <3> QED BY <2>2, <2>3
  <2> HIDE DEF Fits
  <2> QED BY <2>4
<1>3. n \in fine
  <2> HIDE DEF fine
  <2>1. \A k \in 1..n : k - 1 \in fine => k \in fine
    BY <1>2
  <2>2. \A k \in 0..n : k \in fine
    BY <1>1, <2>1, UpToInduction
  <2> QED BY <2>2
<1>4. PICK g \in [SUBSET (1..n) -> A] : \A T \in SUBSET (1..n) : Folding(g, T)
  BY <1>3
<1>5. IsFold(g, base, F, n)
  BY <1>4 DEF IsFold
<1> QED BY <1>5

(* What such a fold goes through, index by index.                           *)
IsRun(r, base, F, n) ==
    /\ r[0] = base
    /\ \A i \in 1..n : r[i] = F[r[i - 1]][i]

(* A fold is where some run through its steps ends.                         *)
LEMMA FoldRuns ==
    ASSUME NEW n \in Nat, NEW A, NEW base \in A, NEW F \in [A -> [1..n -> A]],
           NEW g \in [SUBSET (1..n) -> A], IsFold(g, base, F, n)
    PROVE  \E r \in [0..n -> A] : IsRun(r, base, F, n) /\ r[n] = g[1..n]
<1> DEFINE r == [i \in 0..n |-> g[1..i]]
<1>1. r \in [0..n -> A]
  OBVIOUS
<1>2. r[0] = base
  <2>1. 1..0 = {} /\ {} \in SUBSET (1..n)
    OBVIOUS
  <2>2. g[{}] = base
    BY <2>1 DEF IsFold
  <2> QED BY <2>1, <2>2
<1>3. ASSUME NEW i \in 1..n PROVE r[i] = F[r[i - 1]][i]
  <2>1. /\ 1..i \in SUBSET (1..n) /\ 1..i # {}
        /\ Max(1..i) = i /\ (1..i) \ {i} = 1..(i - 1)
    BY UpToSet
  <2>3. g[1..i] = F[g[1..(i - 1)]][i]
    BY <2>1 DEF IsFold
  <2> QED BY <2>3
<1>4. r[n] = g[1..n]
  OBVIOUS
<1> HIDE DEF r
<1> QED BY <1>1, <1>2, <1>3, <1>4 DEF IsRun
-----------------------------------------------------------------------------
(* Joining a sequence of sequences one after another.                       *)
Joins(r, seqs) ==
    /\ r[0] = <<>>
    /\ \A i \in 1..Len(seqs) : r[i] = r[i - 1] \o seqs[i]

(* There is one way to join.                                                *)
LEMMA JoinsOnce ==
    ASSUME NEW seqs, Len(seqs) \in Nat, NEW r, NEW q, Joins(r, seqs), Joins(q, seqs)
    PROVE  \A i \in 0..Len(seqs) : r[i] = q[i]
<1> DEFINE n == Len(seqs)
<1> DEFINE same == {i \in 0..n : r[i] = q[i]}
<1>1. 0 \in same
  BY DEF Joins
<1>2. ASSUME NEW i \in 1..n, i - 1 \in same PROVE i \in same
  <2>1. i \in 1..Len(seqs) /\ r[i - 1] = q[i - 1]
    BY <1>2
  <2>2. r[i] = r[i - 1] \o seqs[i] /\ q[i] = q[i - 1] \o seqs[i]
    BY <2>1 DEF Joins
  <2>3. r[i] = q[i]
    BY <2>1, <2>2, Zenon
  <2> QED BY <2>3
<1>3. \A i \in 0..n : i \in same
  <2> HIDE DEF same
  <2> QED BY <1>1, <1>2, UpToInduction
<1> QED BY <1>3

(* It exists, and the library's FlattenSeq is its last.                     *)
LEMMA FlattenJoins ==
    ASSUME NEW S, NEW seqs \in Seq(Seq(S))
    PROVE  \E r \in [0..Len(seqs) -> Seq(S)] :
              Joins(r, seqs) /\ FlattenSeq(seqs) = r[Len(seqs)]
<1> DEFINE n == Len(seqs)
           F == [a \in Seq(S) |-> [i \in 1..n |-> a \o seqs[i]]]
<1>1. n \in Nat /\ <<>> \in Seq(S) /\ seqs \in [1..n -> Seq(S)]
  OBVIOUS
<1>2. F \in [Seq(S) -> [1..n -> Seq(S)]]
  <2>1. \A a \in Seq(S), i \in 1..n : a \o seqs[i] \in Seq(S)
    BY <1>1
  <2> QED BY <2>1
<1>3. PICK g \in [SUBSET (1..n) -> Seq(S)] : IsFold(g, <<>>, F, n)
  <2> HIDE DEF n, F
  <2> QED BY <1>1, <1>2, FoldExists
<1>4. PICK r \in [0..n -> Seq(S)] : IsRun(r, <<>>, F, n)
  <2> HIDE DEF n, F
  <2> QED BY <1>1, <1>2, <1>3, FoldRuns
<1>5. Joins(r, seqs)
  <2>1. ASSUME NEW i \in 1..n PROVE r[i] = r[i - 1] \o seqs[i]
    <3>1. r[i - 1] \in Seq(S)
      <4>1. i - 1 \in 0..n
        BY <1>1
      <4> HIDE DEF n
      <4> QED BY <4>1
    <3>2. r[i] = F[r[i - 1]][i]
      BY <1>4 DEF IsRun
    <3> QED BY <3>1, <3>2
  <2>2. r[0] = <<>>
    BY <1>4 DEF IsRun
  <2> QED BY <2>1, <2>2 DEF Joins
<1>6. FlattenSeq(seqs) = r[n]
  <2>1. CASE n = 0
    <3>1. seqs = <<>>
      BY <1>1, <2>1
    <3>2. FlattenSeq(seqs) = seqs
      BY <2>1 DEF FlattenSeq
    <3> QED BY <1>5, <2>1, <3>1, <3>2 DEF Joins
  <2>2. CASE n # 0
    <3> DEFINE Folding(f) == f = [i \in 1..n |->
                                  IF i = 1 THEN seqs[i] ELSE f[i - 1] \o seqs[i]]
               f0 == [i \in 1..n |-> r[i]]
               fl == CHOOSE f : Folding(f)
    <3>1. FlattenSeq(seqs) = fl[n]
      BY <2>2 DEF FlattenSeq
    <3>2. Folding(f0)
      <4>1. ASSUME NEW i \in 1..n
            PROVE  f0[i] = IF i = 1 THEN seqs[i] ELSE f0[i - 1] \o seqs[i]
        <5>1. f0[i] = r[i] /\ r[i] = r[i - 1] \o seqs[i]
          BY <1>5 DEF Joins
        <5>2. CASE i = 1
          <6>1. r[i - 1] = <<>> /\ seqs[i] \in Seq(S)
            BY <1>1, <1>5, <5>2 DEF Joins
          <6>2. r[i - 1] \o seqs[i] = seqs[i]
            BY <6>1, ConcatEmptySeq
          <6> QED BY <5>1, <5>2, <6>2
        <5>3. CASE i # 1
          <6>1. i - 1 \in 1..n
            BY <1>1, <5>3
          <6>2. f0[i - 1] = r[i - 1]
            BY <6>1
          <6> QED BY <5>1, <5>3, <6>2
        <5> QED BY <5>2, <5>3
      <4>2. f0 = [i \in 1..n |-> f0[i]]
        OBVIOUS
      <4> HIDE DEF f0
      <4> QED BY <4>1, <4>2
    <3>3. Folding(fl)
      <4> HIDE DEF Folding, f0
      <4> QED BY <3>2
    <3>4. /\ fl[1] = seqs[1]
          /\ \A i \in 1..n : i # 1 => fl[i] = fl[i - 1] \o seqs[i]
      <4>1. 1 \in 1..n
        BY <1>1, <2>2
      <4> HIDE DEF fl
      <4> QED BY <3>3, <4>1
    <3> HIDE DEF fl, f0
    <3> DEFINE same == {i \in 0..n : i # 0 => fl[i] = r[i]}
    <3>5. 0 \in same
      BY <1>1
    <3>6. ASSUME NEW i \in 1..n, i - 1 \in same PROVE i \in same
      <4>1. r[i] = r[i - 1] \o seqs[i] /\ seqs[i] \in Seq(S)
        BY <1>1, <1>5 DEF Joins
      <4>2. CASE i = 1
        <5>1. r[0] = <<>>
          BY <1>5 DEF Joins
        <5>2. <<>> \o seqs[i] = seqs[i]
          BY <4>1, ConcatEmptySeq
        <5>3. i - 1 = 0
          BY <4>2
        <5>4. r[i] = seqs[i]
          BY <4>1, <5>1, <5>2, <5>3, Zenon
        <5>5. fl[i] = r[i]
          BY <3>4, <4>2, <5>4
        <5> QED BY <5>5
      <4>3. CASE i # 1
        <5>1. fl[i] = fl[i - 1] \o seqs[i]
          BY <3>4, <4>3
        <5>2. i - 1 # 0
          BY <1>1, <4>3
        <5>3. fl[i - 1] = r[i - 1]
          BY <3>6, <5>2
        <5>4. fl[i] = r[i]
          BY <4>1, <5>1, <5>3, Zenon
        <5> QED BY <5>4
      <4> QED BY <4>2, <4>3
    <3>7. \A i \in 0..n : i \in same
      <4> HIDE DEF same, n
      <4> QED BY <1>1, <3>5, <3>6, UpToInduction
    <3>8. fl[n] = r[n]
      BY <1>1, <2>2, <3>7
    <3> QED BY <3>1, <3>8
  <2> QED BY <2>1, <2>2
<1> QED BY <1>5, <1>6

(* Joining an empty sequence, and one with one more at its end.             *)
LEMMA FlattenProperties ==
    ASSUME NEW S, NEW seqs \in Seq(Seq(S)), NEW x \in Seq(S)
    PROVE  /\ FlattenSeq(seqs) \in Seq(S)
           /\ FlattenSeq(<<>>) = <<>>
           /\ FlattenSeq(Append(seqs, x)) = FlattenSeq(seqs) \o x
<1> DEFINE n == Len(seqs)
           more == Append(seqs, x)
<1>1. /\ n \in Nat /\ more \in Seq(Seq(S)) /\ Len(more) = n + 1
      /\ more[n + 1] = x /\ \A i \in 1..n : more[i] = seqs[i]
  OBVIOUS
<1>2. PICK r \in [0..n -> Seq(S)] : Joins(r, seqs) /\ FlattenSeq(seqs) = r[n]
  BY FlattenJoins
<1>3. PICK q \in [0..Len(more) -> Seq(S)] :
             Joins(q, more) /\ FlattenSeq(more) = q[Len(more)]
  <2> HIDE DEF more
  <2> QED BY <1>1, FlattenJoins
<1> HIDE DEF more
<1>4. Joins(q, seqs)
  <2>1. ASSUME NEW i \in 1..n PROVE q[i] = q[i - 1] \o seqs[i]
    <3>1. i \in 1..Len(more) /\ more[i] = seqs[i]
      BY <1>1
    <3> QED BY <1>3, <3>1 DEF Joins
  <2> QED BY <1>3, <2>1 DEF Joins
<1>5. q[n] = r[n]
  <2>1. \A i \in 0..n : r[i] = q[i]
    <3>1. Len(seqs) \in Nat
      BY <1>1
    <3>2. Joins(r, seqs) /\ Joins(q, seqs)
      BY <1>2, <1>4
    <3> QED BY <3>1, <3>2, JoinsOnce
  <2> QED BY <1>1, <2>1
<1>6. q[n + 1] = q[n] \o x
  <2>1. n + 1 \in 1..Len(more) /\ (n + 1) - 1 = n
    BY <1>1
  <2>2. q[n + 1] = q[(n + 1) - 1] \o more[n + 1]
    BY <1>3, <2>1 DEF Joins
  <2> QED BY <1>1, <2>1, <2>2
<1>7. FlattenSeq(<<>>) = <<>>
  BY DEF FlattenSeq
<1>8. FlattenSeq(seqs) \in Seq(S)
  <2>1. n \in 0..n
    BY <1>1
  <2>2. r[n] \in Seq(S)
    BY <2>1, <1>2, Zenon
  <2> QED BY <1>2, <2>2, Zenon
<1> QED BY <1>1, <1>2, <1>3, <1>5, <1>6, <1>7, <1>8 DEF more
-----------------------------------------------------------------------------
(* What the splitter carries along.                                         *)
Piece == Nat \X Nat \X Nat
Clauses == Seq(Piece)
FitsRequest(chunk) == Long(chunk) <= MaxChars \/ Len(chunk) = 1
SpeechRequests == {chunk \in Clauses : FitsRequest(chunk)}
Collected == [done : Seq(SpeechRequests), current : SpeechRequests \cup {<<>>}]
TextOf(acc) == FlattenSeq(acc.done) \o acc.current

(* SpeechRequests are sequences of pieces, and so is what they join to.           *)
LEMMA CollectedText ==
    ASSUME NEW acc \in Collected
    PROVE  /\ acc.done \in Seq(SpeechRequests) /\ acc.done \in Seq(Clauses) /\ acc.current \in Clauses
           /\ FlattenSeq(acc.done) \in Clauses /\ TextOf(acc) \in Clauses
<1>1. acc.done \in Seq(SpeechRequests) /\ acc.current \in Clauses
  <2>1. acc.done \in Seq(SpeechRequests) /\ acc.current \in SpeechRequests \cup {<<>>}
    BY DEF Collected
  <2>2. <<>> \in Clauses /\ SpeechRequests \subseteq Clauses
    BY DEF SpeechRequests, Clauses
  <2> QED BY <2>1, <2>2
<1>2. acc.done \in Seq(Clauses)
  <2>1. SpeechRequests \subseteq Clauses
    BY DEF SpeechRequests
  <2> QED BY <1>1, <2>1, SeqMonotonic
<1>3. FlattenSeq(acc.done) \in Clauses
  <2>1. <<>> \in Seq(Piece) /\ acc.done \in Seq(Seq(Piece))
    BY <1>2 DEF Clauses
  <2>2. FlattenSeq(acc.done) \in Seq(Piece)
    BY <2>1, FlattenProperties
  <2> QED BY <2>2 DEF Clauses
<1>4. TextOf(acc) \in Clauses
  BY <1>1, <1>3 DEF TextOf, Clauses
<1> QED BY <1>1, <1>2, <1>3, <1>4

(* Putting away keeps the text.                                             *)
LEMMA PutAwayKeeps ==
    ASSUME NEW acc \in Collected
    PROVE  /\ PutAway(acc) \in Collected /\ PutAway(acc).current = <<>>
           /\ TextOf(PutAway(acc)) = TextOf(acc)
<1>1. CASE acc.current = <<>>
  BY <1>1 DEF PutAway
<1>2. CASE acc.current # <<>>
  <2> DEFINE next == [done |-> Append(acc.done, acc.current), current |-> <<>>]
  <2>1. PutAway(acc) = next
    BY <1>2 DEF PutAway
  <2>2. acc.done \in Seq(SpeechRequests) /\ acc.current \in SpeechRequests
    BY <1>2 DEF Collected
  <2>3. next \in Collected
    BY <2>2 DEF Collected
  <2>4. FlattenSeq(Append(acc.done, acc.current)) = TextOf(acc) /\ TextOf(acc) \in Clauses
    BY CollectedText, FlattenProperties DEF TextOf, Clauses
  <2>5. TextOf(next) = TextOf(acc)
    <3>1. TextOf(next) = TextOf(acc) \o <<>>
      BY <2>4 DEF TextOf
    <3> QED BY <2>4, <3>1, ConcatEmptySeq DEF Clauses
  <2> QED BY <2>1, <2>3, <2>5
<1> QED BY <1>1, <1>2

(* So does taking on what is a request by itself, which is added.           *)
LEMMA TakeOnAdds ==
    ASSUME NEW acc \in Collected, NEW more \in SpeechRequests
    PROVE  /\ TakeOn(acc, more) \in Collected
           /\ TextOf(TakeOn(acc, more)) = TextOf(acc) \o more
<1> DEFINE candidate == acc.current \o more
<1>0. /\ more \in Clauses /\ acc.current \in Clauses /\ acc.done \in Seq(SpeechRequests)
      /\ FlattenSeq(acc.done) \in Clauses /\ candidate \in Clauses
      /\ acc = [done |-> acc.done, current |-> acc.current]
  BY CollectedText DEF SpeechRequests, Clauses, Collected
<1>1. CASE Long(candidate) <= MaxChars
  <2>1. TakeOn(acc, more) = [acc EXCEPT !.current = candidate]
    BY <1>1 DEF TakeOn
  <2>2. candidate \in SpeechRequests
    BY <1>0, <1>1 DEF SpeechRequests, FitsRequest
  <2> HIDE DEF candidate
  <2>3. TakeOn(acc, more) = [done |-> acc.done, current |-> candidate]
    BY <1>0, <2>1
  <2>4. TakeOn(acc, more) \in Collected
    BY <1>0, <2>2, <2>3 DEF Collected
  <2>5. TextOf(TakeOn(acc, more)) = FlattenSeq(acc.done) \o (acc.current \o more)
    <3>1. TakeOn(acc, more).done = acc.done /\ TakeOn(acc, more).current = candidate
      BY <2>3
    <3> QED BY <3>1, Zenon DEF TextOf, candidate
  <2>6. (FlattenSeq(acc.done) \o acc.current) \o more
           = FlattenSeq(acc.done) \o (acc.current \o more)
    BY <1>0, ConcatAssociative DEF Clauses
  <2> QED BY <2>4, <2>5, <2>6 DEF TextOf
<1>2. CASE ~(Long(candidate) <= MaxChars)
  <2>1. TakeOn(acc, more) = [done |-> PutAway(acc).done, current |-> more]
    BY <1>0, <1>2 DEF TakeOn, PutAway
  <2>2. /\ PutAway(acc) \in Collected /\ PutAway(acc).current = <<>>
        /\ TextOf(PutAway(acc)) = TextOf(acc)
    BY PutAwayKeeps
  <2>3. TakeOn(acc, more) \in Collected
    BY <2>1, <2>2 DEF Collected
  <2>4. FlattenSeq(PutAway(acc).done) = TextOf(acc)
    <3>1. FlattenSeq(PutAway(acc).done) \in Clauses
      BY <2>2, CollectedText
    <3>2. TextOf(PutAway(acc)) = FlattenSeq(PutAway(acc).done) \o <<>>
      BY <2>2 DEF TextOf
    <3> QED BY <2>2, <3>1, <3>2, ConcatEmptySeq DEF Clauses
  <2>5. /\ TakeOn(acc, more).done = PutAway(acc).done
        /\ TakeOn(acc, more).current = more
    BY <2>1
  <2>6. TextOf(TakeOn(acc, more)) = TextOf(acc) \o more
    <3>1. TextOf(TakeOn(acc, more)) = FlattenSeq(PutAway(acc).done) \o more
      BY <2>5, Zenon DEF TextOf
    <3> QED BY <2>4, <3>1, Zenon
  <2> QED BY <2>3, <2>6
<1> QED BY <1>1, <1>2

-----------------------------------------------------------------------------
(* The two folds of the splitter, by their names.                           *)
TakeClauses(acc, sentence) ==
    FoldLeft(LAMBDA a, p : TakeOn(a, <<p>>), acc, sentence)
NothingYet == [done |-> <<>>, current |-> <<>>]
TakeSentences(sentences) == FoldLeft(TakeSentence, NothingYet, sentences)

(* Taking a sentence clause by clause adds the sentence.                    *)
LEMMA TakeClausesAdds ==
    ASSUME NEW acc \in Collected, NEW sentence \in Clauses
    PROVE  /\ TakeClauses(acc, sentence) \in Collected
           /\ TextOf(TakeClauses(acc, sentence)) = TextOf(acc) \o sentence
<1> DEFINE n == Len(sentence)
           F == [a \in Collected |-> [i \in 1..n |-> TakeOn(a, <<sentence[i]>>)]]
<1>1. n \in Nat /\ DOMAIN sentence = 1..n /\ \A i \in 1..n : sentence[i] \in Piece
  BY DEF Clauses
<1>2. \A i \in 1..n : <<sentence[i]>> \in SpeechRequests
  <2>1. ASSUME NEW p \in Piece PROVE <<p>> \in Clauses /\ Len(<<p>>) = 1
    BY DEF Clauses
  <2> QED BY <1>1, <2>1 DEF SpeechRequests, FitsRequest
<1>3. F \in [Collected -> [1..n -> Collected]]
  <2>1. \A a \in Collected, i \in 1..n : TakeOn(a, <<sentence[i]>>) \in Collected
    BY <1>2, TakeOnAdds
  <2> QED BY <2>1
<1>4. PICK g \in [SUBSET (1..n) -> Collected] : IsFold(g, acc, F, n)
  <2> HIDE DEF n, F
  <2> QED BY <1>1, <1>3, FoldExists
<1> DEFINE Folding(h) == h = [T \in SUBSET (1..n) |->
                              IF T = {} THEN acc
                              ELSE TakeOn(h[T \ {Max(T)}], <<sentence[Max(T)]>>)]
<1>m. \A T \in SUBSET (1..n) : T # {} => Max(T) \in 1..n
  BY <1>1, MaxInUpTo
<1>5. Folding(g)
  <2>1. ASSUME NEW T \in SUBSET (1..n)
        PROVE  g[T] = IF T = {} THEN acc
                      ELSE TakeOn(g[T \ {Max(T)}], <<sentence[Max(T)]>>)
    <3>1. g[T] = IF T = {} THEN acc ELSE F[g[T \ {Max(T)}]][Max(T)]
      BY <1>4 DEF IsFold
    <3>2. T # {} => g[T \ {Max(T)}] \in Collected /\ Max(T) \in 1..n
      BY <1>m
    <3> QED BY <3>1, <3>2
  <2>2. g = [T \in SUBSET (1..n) |-> g[T]]
    OBVIOUS
  <2> QED BY <2>1, <2>2
<1> DEFINE h == CHOOSE f : Folding(f)
<1>6. TakeClauses(acc, sentence) = h[1..n]
  BY <1>1 DEF TakeClauses, FoldLeft, MapThenFoldSet
<1>7. Folding(h)
  <2> HIDE DEF Folding
  <2> QED BY <1>5
<1> HIDE DEF h
<1>8. h[1..0] = acc
  <2>1. 1..0 = {} /\ {} \in SUBSET (1..n)
    OBVIOUS
  <2> QED BY <1>7, <2>1
<1>9. \A i \in 1..n : h[1..i] = TakeOn(h[1..(i - 1)], <<sentence[i]>>)
  <2> TAKE i \in 1..n
  <2>1. /\ 1..i \in SUBSET (1..n) /\ 1..i # {}
        /\ Max(1..i) = i /\ (1..i) \ {i} = 1..(i - 1)
    BY <1>1, UpToSet
  <2> QED BY <1>7, <2>1
<1> HIDE DEF Folding
<1> DEFINE kept == {i \in 0..n : /\ h[1..i] \in Collected
                                 /\ TextOf(h[1..i]) = TextOf(acc) \o SubSeq(sentence, 1, i)}
<1>10. 0 \in kept
  <2>1. SubSeq(sentence, 1, 0) = <<>>
    BY SubSeqEmpty
  <2>2. TextOf(acc) \o <<>> = TextOf(acc)
    BY CollectedText, ConcatEmptySeq DEF Clauses
  <2>3. TextOf(h[1..0]) = TextOf(acc) \o SubSeq(sentence, 1, 0)
    BY <1>8, <2>1, <2>2, Zenon
  <2>4. 0 \in 0..n
    BY <1>1
  <2>5. h[1..0] \in Collected
    BY <1>8
  <2> HIDE DEF n
  <2> QED BY <2>3, <2>4, <2>5, Zenon
<1>11. ASSUME NEW i \in 1..n, i - 1 \in kept PROVE i \in kept
  <2> DEFINE before == h[1..(i - 1)]
             part == SubSeq(sentence, 1, i - 1)
  <2>1. /\ before \in Collected /\ TextOf(before) = TextOf(acc) \o part
        /\ h[1..i] = TakeOn(before, <<sentence[i]>>)
        /\ <<sentence[i]>> \in SpeechRequests
    BY <1>2, <1>9, <1>11
  <2>2. h[1..i] \in Collected /\ TextOf(h[1..i]) = TextOf(before) \o <<sentence[i]>>
    <3> HIDE DEF before
    <3> QED BY <2>1, TakeOnAdds
  <2>3. SubSeq(sentence, 1, i) = part \o <<sentence[i]>>
    <3>1. 1 \in 1..Len(sentence) /\ i \in 1..Len(sentence)
      BY <1>1
    <3> QED BY <3>1, SubSeqRecursiveSecond DEF Clauses
  <2>4. part \in Clauses /\ <<sentence[i]>> \in Clauses /\ TextOf(acc) \in Clauses
    <3>1. \A j \in 1..(i - 1) : sentence[j] \in Piece
      BY <1>1
    <3>2. part \in Seq(Piece)
      BY <3>1, SubSeqProperties
    <3> QED BY <2>1, <3>2, CollectedText DEF Clauses, SpeechRequests
  <2>5. (TextOf(acc) \o part) \o <<sentence[i]>> = TextOf(acc) \o (part \o <<sentence[i]>>)
    <3> HIDE DEF part
    <3> QED BY <2>4, ConcatAssociative DEF Clauses
  <2>6. TextOf(h[1..i]) = TextOf(acc) \o SubSeq(sentence, 1, i)
    <3> HIDE DEF before, part
    <3> QED BY <2>1, <2>2, <2>3, <2>5
  <2>7. i \in 0..n
    BY <1>1, <1>11
  <2> HIDE DEF n
  <2> QED BY <2>2, <2>6, <2>7, Zenon
<1>12. n \in kept
  <2> HIDE DEF kept, n
  <2>1. \A i \in 0..n : i \in kept
    BY <1>1, <1>10, <1>11, UpToInduction
  <2> QED BY <1>1, <2>1
<1>13. SubSeq(sentence, 1, n) = sentence
  BY SubSeqFull DEF Clauses
<1> QED BY <1>6, <1>12, <1>13

(* How long a request would be is a number.                                 *)
LEMMA LongIsNumber ==
    ASSUME NEW chunk \in Clauses
    PROVE  Long(chunk) \in Int
<1> DEFINE n == Len(chunk)
           F == [a \in Int |-> [i \in 1..n |-> a + chunk[i][3] + 1]]
<1>1. n \in Nat /\ DOMAIN chunk = 1..n /\ \A i \in 1..n : chunk[i] \in Piece
  BY DEF Clauses
<1>2. F \in [Int -> [1..n -> Int]]
  <2>1. \A i \in 1..n : chunk[i][3] \in Nat
    BY <1>1 DEF Piece
  <2>2. \A a \in Int, i \in 1..n : a + chunk[i][3] + 1 \in Int
    BY <2>1
  <2> QED BY <2>2
<1>3. PICK g \in [SUBSET (1..n) -> Int] : IsFold(g, 0, F, n)
  <2>1. 0 \in Int
    OBVIOUS
  <2> HIDE DEF n, F
  <2> QED BY <1>1, <1>2, <2>1, FoldExists, Zenon
<1> DEFINE Folding(h) == h = [T \in SUBSET (1..n) |->
                              IF T = {} THEN 0
                              ELSE h[T \ {Max(T)}] + chunk[Max(T)][3] + 1]
           h == CHOOSE f : Folding(f)
<1>m. \A T \in SUBSET (1..n) : T # {} => Max(T) \in 1..n
  BY <1>1, MaxInUpTo
<1>4. Folding(g)
  <2>1. ASSUME NEW T \in SUBSET (1..n)
        PROVE  g[T] = IF T = {} THEN 0 ELSE g[T \ {Max(T)}] + chunk[Max(T)][3] + 1
    <3>1. g[T] = IF T = {} THEN 0 ELSE F[g[T \ {Max(T)}]][Max(T)]
      BY <1>3 DEF IsFold
    <3>2. T # {} => g[T \ {Max(T)}] \in Int /\ Max(T) \in 1..n
      BY <1>m
    <3> QED BY <3>1, <3>2
  <2>2. g = [T \in SUBSET (1..n) |-> g[T]]
    OBVIOUS
  <2> QED BY <2>1, <2>2
<1>5. Long(chunk) = h[1..n] - 1
  BY <1>1 DEF Long, FoldLeft, MapThenFoldSet
<1>6. Folding(h)
  <2> HIDE DEF Folding
  <2> QED BY <1>4
<1> HIDE DEF h
<1>7. h[1..0] = 0
  <2>1. 1..0 = {} /\ {} \in SUBSET (1..n)
    OBVIOUS
  <2> QED BY <1>6, <2>1
<1>8. \A i \in 1..n : h[1..i] = h[1..(i - 1)] + chunk[i][3] + 1
  <2> TAKE i \in 1..n
  <2>1. /\ 1..i \in SUBSET (1..n) /\ 1..i # {}
        /\ Max(1..i) = i /\ (1..i) \ {i} = 1..(i - 1)
    BY <1>1, UpToSet
  <2> QED BY <1>6, <2>1
<1> HIDE DEF Folding
<1> DEFINE numbers == {i \in 0..n : h[1..i] \in Int}
<1>9. 0 \in numbers
  BY <1>1, <1>7
<1>10. ASSUME NEW i \in 1..n, i - 1 \in numbers PROVE i \in numbers
  <2>1. h[1..(i - 1)] \in Int /\ chunk[i][3] \in Nat
    BY <1>1, <1>10 DEF Piece
  <2>2. h[1..i] \in Int
    BY <1>8, <2>1
  <2> QED BY <2>2
<1>11. n \in numbers
  <2> HIDE DEF numbers, n
  <2>1. \A i \in 0..n : i \in numbers
    BY <1>1, <1>9, <1>10, UpToInduction
  <2> QED BY <1>1, <2>1
<1> QED BY <1>5, <1>11

(* Taking a sentence adds it, whole or clause by clause.                    *)
LEMMA TakeSentenceAdds ==
    ASSUME SpeechAssumption, NEW acc \in Collected, NEW sentence \in Clauses
    PROVE  /\ TakeSentence(acc, sentence) \in Collected
           /\ TextOf(TakeSentence(acc, sentence)) = TextOf(acc) \o sentence
<1>1. Long(sentence) \in Int /\ MaxChars \in Int
  BY LongIsNumber, SpeechAssumption
<1>2. CASE Long(sentence) > MaxChars
  <2>1. TakeSentence(acc, sentence) = TakeClauses(PutAway(acc), sentence)
    BY <1>2 DEF TakeSentence, TakeClauses
  <2>2. PutAway(acc) \in Collected /\ TextOf(PutAway(acc)) = TextOf(acc)
    BY PutAwayKeeps
  <2>3. /\ TakeClauses(PutAway(acc), sentence) \in Collected
        /\ TextOf(TakeClauses(PutAway(acc), sentence)) = TextOf(PutAway(acc)) \o sentence
    BY <2>2, TakeClausesAdds
  <2> QED BY <2>1, <2>2, <2>3, Zenon
<1>3. CASE ~(Long(sentence) > MaxChars)
  <2>1. TakeSentence(acc, sentence) = TakeOn(acc, sentence)
    BY <1>3 DEF TakeSentence
  <2>2. sentence \in SpeechRequests
    BY <1>1, <1>3 DEF SpeechRequests, FitsRequest
  <2>3. /\ TakeOn(acc, sentence) \in Collected
        /\ TextOf(TakeOn(acc, sentence)) = TextOf(acc) \o sentence
    BY <2>2, TakeOnAdds
  <2> QED BY <2>1, <2>3, Zenon
<1> QED BY <1>2, <1>3

(* Taking all sentences one after the other carries what they join to.      *)
LEMMA TakeSentencesAdds ==
    ASSUME SpeechAssumption, NEW sentences \in Seq(Clauses)
    PROVE  /\ TakeSentences(sentences) \in Collected
           /\ TextOf(TakeSentences(sentences)) = FlattenSeq(sentences)
<1> DEFINE n == Len(sentences)
           F == [a \in Collected |-> [i \in 1..n |-> TakeSentence(a, sentences[i])]]
<1>1. n \in Nat /\ DOMAIN sentences = 1..n /\ \A i \in 1..n : sentences[i] \in Clauses
  OBVIOUS
<1>2. NothingYet \in Collected /\ TextOf(NothingYet) = <<>>
  <2>1. FlattenSeq(<<>>) = <<>> /\ <<>> \o <<>> = <<>>
    <3>1. <<>> \in Seq(Seq(Piece)) /\ <<>> \in Seq(Piece)
      OBVIOUS
    <3> QED BY <3>1, FlattenProperties, ConcatEmptySeq
  <2>2. NothingYet.done = <<>> /\ NothingYet.current = <<>>
    BY DEF NothingYet
  <2>3. TextOf(NothingYet) = <<>>
    BY <2>1, <2>2, Zenon DEF TextOf
  <2>4. NothingYet \in Collected
    BY DEF NothingYet, Collected
  <2> QED BY <2>3, <2>4
<1>3. F \in [Collected -> [1..n -> Collected]]
  <2>1. \A a \in Collected, i \in 1..n : TakeSentence(a, sentences[i]) \in Collected
    BY <1>1, TakeSentenceAdds
  <2> QED BY <2>1
<1>4. PICK g \in [SUBSET (1..n) -> Collected] : IsFold(g, NothingYet, F, n)
  <2> HIDE DEF n, F
  <2> QED BY <1>1, <1>2, <1>3, FoldExists
<1> DEFINE Folding(h) == h = [T \in SUBSET (1..n) |->
                              IF T = {} THEN NothingYet
                              ELSE TakeSentence(h[T \ {Max(T)}], sentences[Max(T)])]
           h == CHOOSE f : Folding(f)
<1>m. \A T \in SUBSET (1..n) : T # {} => Max(T) \in 1..n
  BY <1>1, MaxInUpTo
<1>5. Folding(g)
  <2>1. ASSUME NEW T \in SUBSET (1..n)
        PROVE  g[T] = IF T = {} THEN NothingYet
                      ELSE TakeSentence(g[T \ {Max(T)}], sentences[Max(T)])
    <3>1. g[T] = IF T = {} THEN NothingYet ELSE F[g[T \ {Max(T)}]][Max(T)]
      BY <1>4 DEF IsFold
    <3>2. T # {} => g[T \ {Max(T)}] \in Collected /\ Max(T) \in 1..n
      BY <1>m
    <3> QED BY <3>1, <3>2
  <2>2. g = [T \in SUBSET (1..n) |-> g[T]]
    OBVIOUS
  <2> QED BY <2>1, <2>2
<1>6. TakeSentences(sentences) = h[1..n]
  BY <1>1 DEF TakeSentences, FoldLeft, MapThenFoldSet
<1>7. Folding(h)
  <2> HIDE DEF Folding
  <2> QED BY <1>5
<1> HIDE DEF h
<1>8. h[1..0] = NothingYet
  <2>1. 1..0 = {} /\ {} \in SUBSET (1..n)
    OBVIOUS
  <2> QED BY <1>7, <2>1
<1>9. \A i \in 1..n : h[1..i] = TakeSentence(h[1..(i - 1)], sentences[i])
  <2> TAKE i \in 1..n
  <2>1. /\ 1..i \in SUBSET (1..n) /\ 1..i # {}
        /\ Max(1..i) = i /\ (1..i) \ {i} = 1..(i - 1)
    BY <1>1, UpToSet
  <2> QED BY <1>7, <2>1
<1> HIDE DEF Folding
<1>r. PICK r \in [0..n -> Clauses] :
             Joins(r, sentences) /\ FlattenSeq(sentences) = r[n]
  BY FlattenJoins DEF Clauses
<1> DEFINE kept == {i \in 0..n : h[1..i] \in Collected /\ TextOf(h[1..i]) = r[i]}
<1>10. 0 \in kept
  <2>1. 0 \in 0..n
    BY <1>1
  <2>2. h[1..0] \in Collected
    BY <1>2, <1>8
  <2>3. TextOf(h[1..0]) = r[0]
    BY <1>2, <1>8, <1>r, Zenon DEF Joins
  <2> QED BY <2>1, <2>2, <2>3, Zenon
<1>11. ASSUME NEW i \in 1..n, i - 1 \in kept PROVE i \in kept
  <2> DEFINE before == h[1..(i - 1)]
  <2>1. /\ before \in Collected /\ TextOf(before) = r[i - 1]
        /\ h[1..i] = TakeSentence(before, sentences[i])
        /\ sentences[i] \in Clauses
    BY <1>1, <1>9, <1>11
  <2>2. h[1..i] \in Collected /\ TextOf(h[1..i]) = TextOf(before) \o sentences[i]
    <3> HIDE DEF before
    <3> QED BY <2>1, TakeSentenceAdds
  <2>3. r[i] = r[i - 1] \o sentences[i]
    BY <1>r DEF Joins
  <2>4. TextOf(h[1..i]) = r[i]
    <3> HIDE DEF before
    <3> QED BY <2>1, <2>2, <2>3, Zenon
  <2>5. i \in 0..n
    BY <1>1
  <2> QED BY <2>2, <2>4, <2>5, Zenon
<1>12. n \in kept
  <2> HIDE DEF kept, n
  <2>1. \A i \in 0..n : i \in kept
    BY <1>1, <1>10, <1>11, UpToInduction
  <2> QED BY <1>1, <2>1
<1> QED BY <1>6, <1>12, <1>r

(* Splitting: the requests join to the text, and each is one.               *)
LEMMA SplitKeeps ==
    ASSUME SpeechAssumption, NEW text \in Seq(Seq(Nat))
    PROVE  /\ Split(text) \in Seq(SpeechRequests) /\ Split(text) \in Seq(Clauses)
           /\ FlattenSeq(Split(text)) = AllPieces(text)
<1> DEFINE sentences == [s \in 1..Len(text) |-> Pieces(text, s)]
<1>1. sentences \in Seq(Clauses)
  <2>1. ASSUME NEW s \in 1..Len(text) PROVE Pieces(text, s) \in Clauses
    <3>1. text[s] \in Seq(Nat) /\ s \in Nat
      OBVIOUS
    <3>2. Len(text[s]) \in Nat /\ \A c \in 1..Len(text[s]) : text[s][c] \in Nat
      BY <3>1
    <3>3. \A c \in 1..Len(text[s]) : <<s, c, text[s][c]>> \in Piece
      BY <3>1, <3>2 DEF Piece
    <3> QED BY <3>2, <3>3 DEF Pieces, Clauses
  <2> QED BY <2>1
<1>2. AllPieces(text) = FlattenSeq(sentences) /\ AllPieces(text) \in Clauses
  <2>1. sentences \in Seq(Seq(Piece)) /\ <<>> \in Seq(Piece)
    BY <1>1 DEF Clauses
  <2>2. FlattenSeq(sentences) \in Seq(Piece)
    <3> HIDE DEF sentences
    <3> QED BY <2>1, FlattenProperties
  <2> QED BY <2>2 DEF AllPieces, Clauses
<1>3. CASE Long(AllPieces(text)) <= MaxChars
  <2> DEFINE all == AllPieces(text)
  <2>1. Split(text) = <<all>>
    BY <1>3 DEF Split
  <2>2. all \in SpeechRequests
    BY <1>2, <1>3 DEF SpeechRequests, FitsRequest
  <2>3. FlattenSeq(<<all>>) = all
    <3> HIDE DEF all
    <3>1. <<>> \in Seq(Seq(Piece)) /\ all \in Seq(Piece)
      BY <2>2 DEF SpeechRequests, Clauses
    <3>2. FlattenSeq(Append(<<>>, all)) = FlattenSeq(<<>>) \o all /\ FlattenSeq(<<>>) = <<>>
      BY <3>1, FlattenProperties
    <3>3. Append(<<>>, all) = <<all>> /\ <<>> \o all = all
      BY <3>1, ConcatEmptySeq
    <3> QED BY <3>2, <3>3, Zenon
  <2> HIDE DEF all
  <2>4. <<all>> \in Seq(SpeechRequests) /\ <<all>> \in Seq(Clauses)
    BY <2>2 DEF SpeechRequests
  <2> QED BY <2>1, <2>3, <2>4, Zenon DEF all
<1>4. CASE ~(Long(AllPieces(text)) <= MaxChars)
  <2> DEFINE last == TakeSentences(sentences)
  <2>1. Split(text) = PutAway(last).done
    BY <1>4 DEF Split, TakeSentences, NothingYet
  <2>2. last \in Collected /\ TextOf(last) = FlattenSeq(sentences)
    <3> HIDE DEF sentences
    <3> QED BY <1>1, TakeSentencesAdds
  <2> HIDE DEF last, sentences
  <2>3. /\ PutAway(last) \in Collected /\ PutAway(last).current = <<>>
        /\ TextOf(PutAway(last)) = TextOf(last)
    BY <2>2, PutAwayKeeps
  <2>4. /\ PutAway(last).done \in Seq(SpeechRequests) /\ PutAway(last).done \in Seq(Clauses)
        /\ FlattenSeq(PutAway(last).done) \in Clauses
    BY <2>3, CollectedText
  <2>5. TextOf(PutAway(last)) = FlattenSeq(PutAway(last).done)
    <3>1. TextOf(PutAway(last)) = FlattenSeq(PutAway(last).done) \o <<>>
      BY <2>3, Zenon DEF TextOf
    <3> QED BY <2>4, <3>1, ConcatEmptySeq DEF Clauses
  <2> QED BY <1>2, <2>1, <2>2, <2>3, <2>4, <2>5, Zenon
<1> QED BY <1>3, <1>4
-----------------------------------------------------------------------------
(* The threads of the pool.                                                 *)
Heard == [pieces : SpeechRequests, audio : {"whole", "cut"}]
SpeakerPcs == {"idle", "stub", "next", "asking", "spoken", "failed"}
Speaker == [pc : SpeakerPcs, text : Seq(Seq(Nat)), chunks : Seq(SpeechRequests),
            said : Seq(Heard), tries : 0..SpeechRetries]

SpeechTyped ==
    /\ speaker \in [Speakers -> Speaker]
    /\ badAnswers \in 0..MaxAnswers /\ refusedOnce \in BOOLEAN
    /\ \A key \in DOMAIN chunkCache : chunkCache[key] \in {"whole", "cut"}

(* What was said and what is left to say is what the text was split into.   *)
PiecesOf(said) == [i \in 1..Len(said) |-> said[i].pieces]
SaidAndLeft ==
    \A w \in Speakers :
        /\ speaker[w].pc \in {"next", "asking", "spoken"} =>
              PiecesOf(speaker[w].said) \o speaker[w].chunks = Split(speaker[w].text)
        /\ speaker[w].pc = "asking" => speaker[w].chunks # <<>>
        /\ speaker[w].pc = "spoken" => speaker[w].chunks = <<>>

(* Every attempt that is made again followed a bad answer, and a cut piece, *)
(* kept or heard, came of one.                                              *)
TriesCounted == \A w \in Speakers : speaker[w].tries <= badAnswers
MayBeCut == provider = "yandex" /\ badAnswers > 0
CutExplained ==
    /\ \A key \in DOMAIN chunkCache : chunkCache[key] = "cut" => MayBeCut
    /\ \A w \in Speakers : \A i \in 1..Len(speaker[w].said) :
          speaker[w].said[i].audio = "cut" => MayBeCut
FailureExplained ==
    \A w \in Speakers : speaker[w].pc = "failed" =>
        refusedOnce \/ provider = "silero" \/ badAnswers > SpeechRetries

SpeechInv ==
    SpeechTyped /\ SaidAndLeft /\ TriesCounted /\ CutExplained /\ FailureExplained

(* Moving the first of one sequence to the end of another.                  *)
LEMMA MoveOver ==
    ASSUME NEW S, NEW s \in Seq(S), NEW t \in Seq(S), t # <<>>
    PROVE  Append(s, Head(t)) \o Tail(t) = s \o t
<1>1. Head(t) \in S /\ Tail(t) \in Seq(S) /\ <<Head(t)>> \in Seq(S)
  OBVIOUS
<1>2. Append(s, Head(t)) = s \o <<Head(t)>>
  BY <1>1, AppendIsConcat
<1>3. (s \o <<Head(t)>>) \o Tail(t) = s \o (<<Head(t)>> \o Tail(t))
  BY <1>1, ConcatAssociative
<1>4. <<Head(t)>> \o Tail(t) = t
  <2>1. 1 \in 1..Len(t) /\ Len(t) \in 1..Len(t) /\ Head(t) = t[1] /\ Tail(t) = SubSeq(t, 2, Len(t))
    BY TailIsSubSeq
  <2>2. SubSeq(t, 1, Len(t)) = <<t[1]>> \o SubSeq(t, 1 + 1, Len(t))
    BY <2>1, SubSeqRecursiveFirst
  <2>3. SubSeq(t, 1, Len(t)) = t
    BY SubSeqFull
  <2>4. 1 + 1 = 2
    OBVIOUS
  <2> QED BY <2>1, <2>2, <2>3, <2>4, Zenon
<1> QED BY <1>2, <1>3, <1>4, Zenon

(* The pieces of what was said, with one more.                              *)
LEMMA PiecesOfMore ==
    ASSUME NEW said \in Seq(Heard), NEW piece \in Heard
    PROVE  /\ PiecesOf(said) \in Seq(SpeechRequests)
           /\ PiecesOf(Append(said, piece)) = Append(PiecesOf(said), piece.pieces)
<1> DEFINE more == Append(said, piece)
           n == Len(said)
<1>1. /\ n \in Nat /\ more \in Seq(Heard) /\ Len(more) = n + 1
      /\ more[n + 1] = piece /\ \A i \in 1..n : more[i] = said[i]
  OBVIOUS
<1>2. \A h \in Heard : h.pieces \in SpeechRequests
  BY DEF Heard
<1>3. /\ PiecesOf(said) \in Seq(SpeechRequests) /\ Len(PiecesOf(said)) = n
      /\ \A i \in 1..n : PiecesOf(said)[i] = said[i].pieces
  <2>1. \A i \in 1..n : said[i] \in Heard
    BY <1>1
  <2> QED BY <1>1, <1>2, <2>1 DEF PiecesOf
<1>4. /\ PiecesOf(more) \in Seq(SpeechRequests) /\ Len(PiecesOf(more)) = n + 1
      /\ \A i \in 1..(n + 1) : PiecesOf(more)[i] = more[i].pieces
  <2>1. \A i \in 1..Len(more) : more[i] \in Heard
    BY <1>1
  <2> HIDE DEF more
  <2> QED BY <1>1, <1>2, <2>1 DEF PiecesOf
<1> HIDE DEF more, n
<1> DEFINE left == PiecesOf(more)
           base == PiecesOf(said)
           right == Append(base, piece.pieces)
<1>5. /\ right \in Seq(SpeechRequests) /\ Len(right) = n + 1
      /\ right[n + 1] = piece.pieces /\ \A i \in 1..n : right[i] = base[i]
  <2>1. piece.pieces \in SpeechRequests
    BY <1>2
  <2> HIDE DEF base
  <2> QED BY <1>1, <1>3, <2>1, AppendProperties DEF base
<1>6. ASSUME NEW i \in 1..(n + 1) PROVE left[i] = right[i]
  <2> HIDE DEF right, base
  <2>1. CASE i = n + 1
    BY <1>1, <1>4, <1>5, <2>1
  <2>2. CASE i # n + 1
    <3>1. i \in 1..n
      BY <1>1, <2>2
    <3> QED BY <1>1, <1>3, <1>4, <1>5, <3>1 DEF base
  <2> QED BY <2>1, <2>2
<1>7. left = right
  <2> HIDE DEF left, right
  <2> QED BY <1>4, <1>5, <1>6, SeqEqual DEF left
<1> QED BY <1>3, <1>7 DEF more

(* Saying the first of what is left moves it to the end of what was said.   *)
LEMMA SayNext ==
    ASSUME NEW said \in Seq(Heard), NEW chunks \in Seq(SpeechRequests), chunks # <<>>,
           NEW piece \in Heard, piece.pieces = Head(chunks)
    PROVE  PiecesOf(Append(said, piece)) \o Tail(chunks) = PiecesOf(said) \o chunks
<1>1. /\ PiecesOf(said) \in Seq(SpeechRequests)
      /\ PiecesOf(Append(said, piece)) = Append(PiecesOf(said), Head(chunks))
  BY PiecesOfMore
<1>2. Append(PiecesOf(said), Head(chunks)) \o Tail(chunks) = PiecesOf(said) \o chunks
  BY <1>1, MoveOver
<1> QED BY <1>1, <1>2, Zenon

-----------------------------------------------------------------------------
(* Nothing has been said at first.                                          *)
LEMMA SpeechStarts == SpeechInit /\ SpeechAssumption => SpeechInv
<1> SUFFICES ASSUME SpeechInit, SpeechAssumption PROVE SpeechInv
  OBVIOUS
<1>1. Silent \in Speaker /\ Silent.pc = "idle" /\ Silent.said = <<>> /\ Silent.tries = 0
  BY SpeechAssumption DEF Silent, Speaker, SpeakerPcs
<1>2. /\ speaker = [w \in Speakers |-> Silent] /\ DOMAIN chunkCache = {}
      /\ badAnswers = 0 /\ refusedOnce = FALSE
  BY DEF SpeechInit
<1>s. \A w \in Speakers : speaker[w] = Silent
  BY <1>2
<1>3. SpeechTyped
  <2>1. speaker \in [Speakers -> Speaker]
    BY <1>1, <1>2
  <2>2. 0 \in 0..MaxAnswers
    BY SpeechAssumption
  <2> QED BY <1>2, <2>1, <2>2 DEF SpeechTyped
<1>4. SaidAndLeft /\ TriesCounted /\ FailureExplained
  <2>1. \A w \in Speakers : speaker[w].pc = "idle" /\ speaker[w].tries = 0
    BY <1>s, <1>1
  <2>2. SaidAndLeft
    BY <2>1 DEF SaidAndLeft
  <2>3. FailureExplained
    BY <2>1 DEF FailureExplained
  <2>4. TriesCounted
    BY <1>2, <2>1 DEF TriesCounted
  <2> QED BY <2>2, <2>3, <2>4
<1>5. CutExplained
  <2>1. \A w \in Speakers : speaker[w].said = <<>> /\ Len(<<>>) = 0
    BY <1>s, <1>1
  <2> QED BY <1>2, <2>1 DEF CutExplained
<1> QED BY <1>3, <1>4, <1>5 DEF SpeechInv

(* What a heard piece is, and what hearing it changes.                      *)
LEMMA HearKeeps ==
    ASSUME SpeechInv, SpeechAssumption, NEW w \in Speakers, NEW audio \in {"whole", "cut"},
           speaker[w].pc \in {"next", "asking"}, speaker[w].chunks # <<>>, Hear(w, audio),
           audio = "cut" => MayBeCut', MayBeCut => MayBeCut',
           provider' = provider, badAnswers' \in 0..MaxAnswers, badAnswers' >= badAnswers,
           refusedOnce' = refusedOnce,
           \A key \in DOMAIN chunkCache' :
              chunkCache'[key] \in {"whole", "cut"} /\ (chunkCache'[key] = "cut" => MayBeCut')
    PROVE  SpeechInv'
<1> DEFINE me == speaker[w]
           piece == [pieces |-> Head(me.chunks), audio |-> audio]
           mine == [me EXCEPT !.pc = "next", !.tries = 0, !.chunks = Tail(me.chunks),
                              !.said = Append(me.said, piece)]
<1>1. /\ me \in Speaker /\ me.chunks \in Seq(SpeechRequests) /\ me.said \in Seq(Heard)
      /\ me.tries \in Nat /\ SpeechTyped /\ badAnswers \in Nat /\ me.chunks # <<>>
  BY DEF SpeechInv, SpeechTyped, Speaker
<1>2. speaker' = [speaker EXCEPT ![w] = mine]
  BY DEF Hear
<1>3. piece \in Heard /\ piece.pieces = Head(me.chunks) /\ piece.audio = audio
  BY <1>1 DEF Heard
<1>4. /\ Append(me.said, piece) \in Seq(Heard) /\ Tail(me.chunks) \in Seq(SpeechRequests)
      /\ Len(Append(me.said, piece)) = Len(me.said) + 1
      /\ Append(me.said, piece)[Len(me.said) + 1] = piece
      /\ \A i \in 1..Len(me.said) : Append(me.said, piece)[i] = me.said[i]
  <2> HIDE DEF piece, me
  <2> QED BY <1>1, <1>3, AppendProperties, HeadTailProperties
<1>5. /\ mine.pc = "next" /\ mine.tries = 0 /\ mine.chunks = Tail(me.chunks)
      /\ mine.said = Append(me.said, piece) /\ mine.text = me.text /\ mine \in Speaker
  <2>1. 0 \in 0..SpeechRetries /\ "next" \in SpeakerPcs
    BY SpeechAssumption DEF SpeakerPcs
  <2> HIDE DEF piece, me
  <2> QED BY <1>1, <1>4, <2>1 DEF Speaker
<1>6. PiecesOf(mine.said) \o mine.chunks = Split(mine.text)
  <2>1. PiecesOf(me.said) \o me.chunks = Split(me.text)
    BY DEF SpeechInv, SaidAndLeft
  <2>2. PiecesOf(Append(me.said, piece)) \o Tail(me.chunks) = PiecesOf(me.said) \o me.chunks
    <3> HIDE DEF piece, me
    <3> QED BY <1>1, <1>3, SayNext DEF me
  <2> QED BY <1>5, <2>1, <2>2
<1>7. \A i \in 1..Len(mine.said) : mine.said[i].audio = "cut" => MayBeCut'
  <2> TAKE i \in 1..Len(mine.said)
  <2> HIDE DEF mine, piece, me
  <2>1. CASE i = Len(me.said) + 1
    BY <1>3, <1>4, <1>5, <2>1
  <2>2. CASE i \in 1..Len(me.said)
    <3>1. me.said[i].audio = "cut" => MayBeCut
      BY <2>2 DEF SpeechInv, CutExplained, me
    <3> QED BY <1>4, <1>5, <2>2, <3>1
  <2>3. Len(me.said) \in Nat
    BY <1>1
  <2> QED BY <1>4, <1>5, <2>1, <2>2, <2>3
<1> HIDE DEF mine
<1>8. /\ speaker' \in [Speakers -> Speaker] /\ speaker'[w] = mine
      /\ \A v \in Speakers \ {w} : speaker'[v] = speaker[v]
  BY <1>1, <1>2, <1>5 DEF SpeechTyped
<1>9. SpeechTyped'
  BY <1>1, <1>8 DEF SpeechTyped
<1>10. SaidAndLeft'
  BY <1>5, <1>6, <1>8 DEF SpeechInv, SaidAndLeft
<1>11. TriesCounted'
  <2>1. \A v \in Speakers : speaker[v].tries \in Nat /\ speaker[v].tries <= badAnswers
    BY <1>1 DEF SpeechInv, SpeechTyped, Speaker, TriesCounted
  <2>2. badAnswers' \in Nat
    BY SpeechAssumption
  <2> QED BY <1>1, <1>5, <1>8, <2>1, <2>2 DEF TriesCounted
<1>12. CutExplained'
  BY <1>7, <1>8 DEF SpeechInv, CutExplained
<1>13. FailureExplained'
  <2>1. badAnswers' \in Nat /\ SpeechRetries \in Nat
    BY SpeechAssumption
  <2> QED BY <1>1, <1>5, <1>8, <2>1 DEF SpeechInv, FailureExplained
<1> QED BY <1>9, <1>10, <1>11, <1>12, <1>13 DEF SpeechInv

(* One thread's own step changes its call alone.                            *)
OnlySpeaker(w, mine) ==
    /\ mine \in Speaker /\ speaker' = [speaker EXCEPT ![w] = mine]
    /\ provider' = provider /\ badAnswers' \in 0..MaxAnswers /\ badAnswers' >= badAnswers
    /\ chunkCache' = chunkCache

(* It keeps the invariant when what it says and has left is the text.       *)
LEMMA OnlySpeakerKeeps ==
    ASSUME SpeechInv, SpeechAssumption, NEW w \in Speakers, NEW mine, OnlySpeaker(w, mine),
           refusedOnce' \in BOOLEAN, refusedOnce => refusedOnce',
           mine.pc \in {"next", "asking", "spoken"} =>
              PiecesOf(mine.said) \o mine.chunks = Split(mine.text),
           mine.pc = "asking" => mine.chunks # <<>>,
           mine.pc = "spoken" => mine.chunks = <<>>,
           mine.tries <= badAnswers',
           mine.said = speaker[w].said \/ mine.said = <<>>,
           mine.pc = "failed" =>
              refusedOnce' \/ provider = "silero" \/ badAnswers' > SpeechRetries
    PROVE  SpeechInv'
<1>1. /\ SpeechTyped /\ badAnswers \in Nat /\ badAnswers' \in Nat /\ SpeechRetries \in Nat
      /\ \A v \in Speakers : speaker[v].tries \in Nat
  BY SpeechAssumption DEF SpeechInv, SpeechTyped, Speaker, OnlySpeaker
<1>2. /\ speaker' \in [Speakers -> Speaker] /\ speaker'[w] = mine
      /\ \A v \in Speakers \ {w} : speaker'[v] = speaker[v]
  BY <1>1 DEF SpeechTyped, OnlySpeaker
<1>3. SpeechTyped'
  BY <1>1, <1>2 DEF SpeechTyped, OnlySpeaker
<1>4. SaidAndLeft'
  BY <1>2 DEF SpeechInv, SaidAndLeft
<1>5. TriesCounted'
  BY <1>1, <1>2 DEF SpeechInv, TriesCounted, OnlySpeaker
<1>6. MayBeCut => MayBeCut'
  BY <1>1 DEF MayBeCut, OnlySpeaker
<1>7. CutExplained'
  <2>1. \A key \in DOMAIN chunkCache' : chunkCache'[key] = "cut" => MayBeCut'
    BY <1>6 DEF SpeechInv, CutExplained, OnlySpeaker
  <2>2. \A v \in Speakers \ {w} : \A i \in 1..Len(speaker'[v].said) :
           speaker'[v].said[i].audio = "cut" => MayBeCut'
    BY <1>2, <1>6 DEF SpeechInv, CutExplained
  <2>3. \A i \in 1..Len(mine.said) : mine.said[i].audio = "cut" => MayBeCut'
    <3>1. CASE mine.said = <<>>
      <4>1. Len(<<>>) = 0
        OBVIOUS
      <4> QED BY <3>1, <4>1
    <3>2. CASE mine.said = speaker[w].said
      BY <1>6, <3>2 DEF SpeechInv, CutExplained
    <3> QED BY <3>1, <3>2
  <2> QED BY <1>2, <2>1, <2>2, <2>3 DEF CutExplained
<1>8. FailureExplained'
  BY <1>1, <1>2 DEF SpeechInv, FailureExplained, OnlySpeaker
<1> QED BY <1>3, <1>4, <1>5, <1>7, <1>8 DEF SpeechInv

(* Every step of a thread of the pool keeps the invariant.                  *)
LEMMA SpeechStep ==
    ASSUME SpeechInv, SpeechAssumption, [SpeechNext]_speechVars
    PROVE  SpeechInv'
<1>0. /\ SpeechTyped /\ badAnswers \in Nat /\ MaxAnswers \in Nat /\ SpeechRetries \in Nat
      /\ badAnswers \in 0..MaxAnswers /\ refusedOnce \in BOOLEAN
      /\ \A w \in Speakers :
            /\ speaker[w] \in Speaker
            /\ speaker[w].said \in Seq(Heard) /\ speaker[w].chunks \in Seq(SpeechRequests)
            /\ speaker[w].text \in Seq(Seq(Nat)) /\ speaker[w].tries \in 0..SpeechRetries
  BY SpeechAssumption DEF SpeechInv, SpeechTyped, Speaker
<1>t. \A w \in Speakers : speaker[w].tries \in Nat /\ speaker[w].tries <= badAnswers
  BY SpeechAssumption DEF SpeechInv, SpeechTyped, Speaker, TriesCounted
<1>s. Silent \in Speaker /\ Silent.pc = "idle" /\ Silent.said = <<>> /\ Silent.tries = 0
  BY SpeechAssumption DEF Silent, Speaker, SpeakerPcs
<1>1. ASSUME NEW w \in Speakers, Synthesize(w) PROVE SpeechInv'
  <2>1. PICK text \in SpeechTexts :
          speaker' = [speaker EXCEPT ![w] =
            IF text = <<>> THEN [Silent EXCEPT !.pc = "stub"]
            ELSE [Silent EXCEPT !.pc = "next", !.text = text, !.chunks = Split(text)]]
    BY <1>1 DEF Synthesize
  <2>0. UNCHANGED <<provider, chunkCache, badAnswers, refusedOnce>>
    BY <1>1 DEF Synthesize
  <2>2. text \in Seq(Seq(Nat)) /\ Split(text) \in Seq(SpeechRequests)
    BY SpeechAssumption, SplitKeeps
  <2>3. CASE text = <<>>
    <3> DEFINE mine == [Silent EXCEPT !.pc = "stub"]
    <3>1. mine \in Speaker /\ mine.pc = "stub" /\ mine.said = <<>> /\ mine.tries = 0
      BY <1>s DEF Silent, Speaker, SpeakerPcs
    <3>2. speaker' = [speaker EXCEPT ![w] = mine]
      BY <2>1, <2>3
    <3> HIDE DEF mine
    <3>3. OnlySpeaker(w, mine) /\ mine.tries <= badAnswers'
      BY <1>0, <2>0, <3>1, <3>2 DEF OnlySpeaker
    <3> QED BY <1>0, <2>0, <3>1, <3>3, OnlySpeakerKeeps
  <2>4. CASE text # <<>>
    <3> DEFINE mine == [Silent EXCEPT !.pc = "next", !.text = text, !.chunks = Split(text)]
    <3>2. /\ mine \in Speaker /\ mine.pc = "next" /\ mine.said = <<>> /\ mine.tries = 0
          /\ mine.text = text /\ mine.chunks = Split(text)
      BY <1>s, <2>2 DEF Silent, Speaker, SpeakerPcs
    <3>3. speaker' = [speaker EXCEPT ![w] = mine]
      BY <2>1, <2>4
    <3> HIDE DEF mine
    <3>4. OnlySpeaker(w, mine) /\ mine.tries <= badAnswers'
      BY <1>0, <2>0, <3>2, <3>3 DEF OnlySpeaker
    <3>5. PiecesOf(mine.said) \o mine.chunks = Split(mine.text)
      <4>1. PiecesOf(<<>>) = <<>>
        BY DEF PiecesOf
      <4>2. <<>> \o Split(text) = Split(text)
        BY <2>2, ConcatEmptySeq
      <4> QED BY <3>2, <4>1, <4>2, Zenon
    <3> QED BY <1>0, <2>0, <3>2, <3>4, <3>5, OnlySpeakerKeeps
  <2> QED BY <2>3, <2>4
<1>2. ASSUME NEW w \in Speakers, ReadCache(w) PROVE SpeechInv'
  <2>0. /\ speaker[w].pc = "next" /\ speaker[w].chunks # <<>>
        /\ UNCHANGED <<provider, chunkCache, badAnswers, refusedOnce>>
    BY <1>2 DEF ReadCache
  <2>1. CASE CacheKey(w) \in DOMAIN chunkCache
    <3>0. chunkCache[CacheKey(w)] \in {"whole", "cut"}
      BY <2>1 DEF SpeechInv, SpeechTyped
    <3>1. PICK audio \in {"whole", "cut"} : audio = chunkCache[CacheKey(w)]
      BY <3>0
    <3>2. Hear(w, audio)
      BY <1>2, <2>1, <3>1 DEF ReadCache
    <3>3. MayBeCut' <=> MayBeCut
      BY <2>0 DEF MayBeCut
    <3>4. /\ audio = "cut" => MayBeCut'
          /\ \A key \in DOMAIN chunkCache' :
                /\ chunkCache'[key] \in {"whole", "cut"}
                /\ chunkCache'[key] = "cut" => MayBeCut'
      BY <2>0, <2>1, <3>1, <3>3 DEF SpeechInv, SpeechTyped, CutExplained
    <3>5. badAnswers' \in 0..MaxAnswers /\ badAnswers' >= badAnswers
      BY <1>0, <2>0
    <3> QED BY <1>0, <2>0, <3>2, <3>3, <3>4, <3>5, HearKeeps
  <2>2. CASE CacheKey(w) \notin DOMAIN chunkCache
    <3> DEFINE me == speaker[w]
               mine == [me EXCEPT !.pc = "asking"]
    <3>1. speaker' = [speaker EXCEPT ![w] = mine]
      BY <1>2, <2>2 DEF ReadCache
    <3>2. /\ mine \in Speaker /\ mine.pc = "asking" /\ mine.said = me.said
          /\ mine.chunks = me.chunks /\ mine.text = me.text /\ mine.tries = me.tries
      BY <1>0 DEF Speaker, SpeakerPcs
    <3> HIDE DEF mine
    <3>3. OnlySpeaker(w, mine)
      BY <1>0, <2>0, <3>1, <3>2 DEF OnlySpeaker
    <3>5. mine.tries <= badAnswers'
      BY <1>t, <2>0, <3>2
    <3>4. PiecesOf(mine.said) \o mine.chunks = Split(mine.text)
      BY <2>0, <3>2 DEF SpeechInv, SaidAndLeft
    <3> QED BY <1>0, <2>0, <3>2, <3>3, <3>4, <3>5, OnlySpeakerKeeps
  <2> QED BY <2>1, <2>2
<1>3. ASSUME NEW w \in Speakers, Join(w) PROVE SpeechInv'
  <2> DEFINE me == speaker[w]
             mine == [me EXCEPT !.pc = "spoken"]
  <2>0. /\ speaker[w].pc = "next" /\ speaker[w].chunks = <<>>
        /\ UNCHANGED <<provider, chunkCache, badAnswers, refusedOnce>>
    BY <1>3 DEF Join
  <2>1. speaker' = [speaker EXCEPT ![w] = mine]
    BY <1>3 DEF Join
  <2>2. /\ mine \in Speaker /\ mine.pc = "spoken" /\ mine.said = me.said
        /\ mine.chunks = me.chunks /\ mine.text = me.text /\ mine.tries = me.tries
    BY <1>0 DEF Speaker, SpeakerPcs
  <2> HIDE DEF mine
  <2>3. OnlySpeaker(w, mine)
    BY <1>0, <2>0, <2>1, <2>2 DEF OnlySpeaker
  <2>5. mine.tries <= badAnswers'
    BY <1>t, <2>0, <2>2
  <2>4. PiecesOf(mine.said) \o mine.chunks = Split(mine.text)
    BY <2>0, <2>2 DEF SpeechInv, SaidAndLeft
  <2> QED BY <1>0, <2>0, <2>2, <2>3, <2>4, <2>5, OnlySpeakerKeeps
<1>k. ASSUME NEW w \in Speakers, NEW audio \in {"whole", "cut"}, chunkCache' = Kept(w, audio),
             audio = "cut" => MayBeCut', MayBeCut => MayBeCut'
      PROVE  \A key \in DOMAIN chunkCache' :
                /\ chunkCache'[key] \in {"whole", "cut"}
                /\ chunkCache'[key] = "cut" => MayBeCut'
  <2> TAKE key \in DOMAIN chunkCache'
  <2>1. /\ DOMAIN chunkCache' = DOMAIN chunkCache \cup {CacheKey(w)}
        /\ chunkCache'[key] = IF key = CacheKey(w) THEN audio ELSE chunkCache[key]
    BY <1>k DEF Kept
  <2>2. CASE key = CacheKey(w)
    BY <1>k, <2>1, <2>2
  <2>3. CASE key # CacheKey(w)
    <3>1. key \in DOMAIN chunkCache /\ chunkCache'[key] = chunkCache[key]
      BY <2>1, <2>3
    <3> QED BY <1>k, <3>1 DEF SpeechInv, SpeechTyped, CutExplained
  <2> QED BY <2>2, <2>3
<1>4. ASSUME NEW w \in Speakers, AnswerArrives(w) PROVE SpeechInv'
  <2>1. /\ speaker[w].pc = "asking" /\ Hear(w, "whole") /\ chunkCache' = Kept(w, "whole")
        /\ UNCHANGED <<provider, badAnswers, refusedOnce>>
    BY <1>4 DEF AnswerArrives
  <2>2. speaker[w].chunks # <<>>
    BY <2>1 DEF SpeechInv, SaidAndLeft
  <2>3. MayBeCut' <=> MayBeCut
    BY <2>1 DEF MayBeCut
  <2>4. \A key \in DOMAIN chunkCache' :
           /\ chunkCache'[key] \in {"whole", "cut"}
           /\ chunkCache'[key] = "cut" => MayBeCut'
    BY <1>k, <2>1, <2>3
  <2> QED BY <1>0, <2>1, <2>2, <2>3, <2>4, HearKeeps
<1>5. ASSUME NEW w \in Speakers, AnswerCut(w) PROVE SpeechInv'
  <2>1. /\ speaker[w].pc = "asking" /\ Hear(w, "cut") /\ chunkCache' = Kept(w, "cut")
        /\ provider = "yandex" /\ badAnswers < MaxAnswers /\ badAnswers' = badAnswers + 1
        /\ UNCHANGED <<provider, refusedOnce>>
    BY <1>5 DEF AnswerCut
  <2>2. speaker[w].chunks # <<>>
    BY <2>1 DEF SpeechInv, SaidAndLeft
  <2>3. MayBeCut'
    BY <1>0, <2>1 DEF MayBeCut
  <2>4. \A key \in DOMAIN chunkCache' :
           /\ chunkCache'[key] \in {"whole", "cut"}
           /\ chunkCache'[key] = "cut" => MayBeCut'
    BY <1>k, <2>1, <2>3
  <2>5. badAnswers' \in 0..MaxAnswers /\ badAnswers' >= badAnswers
    BY <1>0, <2>1
  <2> QED BY <1>0, <2>1, <2>2, <2>3, <2>4, <2>5, HearKeeps
<1>6. ASSUME NEW w \in Speakers, AnswerFails(w) PROVE SpeechInv'
  <2>0. /\ speaker[w].pc = "asking" /\ badAnswers < MaxAnswers /\ badAnswers' = badAnswers + 1
        /\ UNCHANGED <<provider, chunkCache, refusedOnce>>
    BY <1>6 DEF AnswerFails
  <2>1. CASE MayRetry(w)
    <3> DEFINE me == speaker[w]
               mine == [me EXCEPT !.tries = me.tries + 1]
    <3>1. speaker' = [speaker EXCEPT ![w] = mine]
      BY <1>6, <2>1 DEF AnswerFails
    <3>0. me.tries + 1 \in 0..SpeechRetries /\ me.tries + 1 <= badAnswers'
      <4>1. me.tries \in Nat /\ me.tries <= badAnswers /\ me.tries < SpeechRetries
        BY <1>t, <2>1 DEF MayRetry
      <4> HIDE DEF me
      <4> QED BY <1>0, <2>0, <4>1
    <3>2. /\ mine \in Speaker /\ mine.pc = "asking" /\ mine.said = me.said
          /\ mine.chunks = me.chunks /\ mine.text = me.text /\ mine.tries = me.tries + 1
      BY <1>0, <2>0, <3>0 DEF Speaker, SpeakerPcs
    <3> HIDE DEF mine
    <3>3. OnlySpeaker(w, mine) /\ mine.tries <= badAnswers'
      BY <1>0, <2>0, <3>0, <3>1, <3>2 DEF OnlySpeaker
    <3>4. /\ PiecesOf(mine.said) \o mine.chunks = Split(mine.text)
          /\ mine.chunks # <<>>
      BY <2>0, <3>2 DEF SpeechInv, SaidAndLeft
    <3> QED BY <1>0, <2>0, <3>2, <3>3, <3>4, OnlySpeakerKeeps
  <2>2. CASE ~MayRetry(w)
    <3> DEFINE mine == [Silent EXCEPT !.pc = "failed"]
    <3>1. mine \in Speaker /\ mine.pc = "failed" /\ mine.said = <<>> /\ mine.tries = 0
      BY <1>s DEF Silent, Speaker, SpeakerPcs
    <3>2. speaker' = [speaker EXCEPT ![w] = mine]
      BY <1>6, <2>2 DEF AnswerFails
    <3>3. OnlySpeaker(w, mine) /\ mine.tries <= badAnswers'
      BY <1>0, <2>0, <3>1, <3>2 DEF OnlySpeaker
    <3>4. provider = "silero" \/ badAnswers' > SpeechRetries
      <4>1. speaker[w].tries \in Nat /\ speaker[w].tries <= badAnswers
        BY <1>t
      <4>2. CASE ~(speaker[w].tries < SpeechRetries)
        BY <1>0, <2>0, <4>1, <4>2
      <4> QED BY <2>2, <4>2 DEF MayRetry
    <3> HIDE DEF mine
    <3> QED BY <1>0, <2>0, <3>1, <3>3, <3>4, OnlySpeakerKeeps
  <2> QED BY <2>1, <2>2
<1>7. ASSUME NEW w \in Speakers, AnswerRefused(w) PROVE SpeechInv'
  <2> DEFINE mine == [Silent EXCEPT !.pc = "failed"]
  <2>1. /\ speaker' = [speaker EXCEPT ![w] = mine] /\ refusedOnce' = TRUE
        /\ badAnswers < MaxAnswers /\ badAnswers' = badAnswers + 1
        /\ UNCHANGED <<provider, chunkCache>>
    BY <1>7 DEF AnswerRefused
  <2>2. mine \in Speaker /\ mine.pc = "failed" /\ mine.said = <<>> /\ mine.tries = 0
    BY <1>s DEF Silent, Speaker, SpeakerPcs
  <2>3. OnlySpeaker(w, mine) /\ mine.tries <= badAnswers'
    BY <1>0, <2>1, <2>2 DEF OnlySpeaker
  <2>4. refusedOnce' \in BOOLEAN /\ refusedOnce'
    BY <2>1
  <2> HIDE DEF mine
  <2> QED BY <2>1, <2>2, <2>3, <2>4, OnlySpeakerKeeps
<1>8. ASSUME UNCHANGED speechVars PROVE SpeechInv'
  BY <1>8 DEF speechVars, SpeechInv, SpeechTyped, SaidAndLeft, TriesCounted, CutExplained,
              FailureExplained, MayBeCut
<1> QED BY <1>1, <1>2, <1>3, <1>4, <1>5, <1>6, <1>7, <1>8 DEF SpeechNext

(* What the invariant says of a slide that was spoken or has failed.        *)
LEMMA InvSpoken ==
    ASSUME SpeechInv, SpeechAssumption
    PROVE  SpokenAsWritten
<1> SUFFICES ASSUME NEW w \in Speakers
             PROVE  /\ speaker[w].pc = "spoken" =>
                       /\ FlattenSeq(PiecesOf(speaker[w].said)) = AllPieces(speaker[w].text)
                       /\ \A i \in 1..Len(speaker[w].said) :
                            /\ FitsRequest(speaker[w].said[i].pieces)
                            /\ speaker[w].said[i].audio = "cut" => MayBeCut
                    /\ speaker[w].pc = "failed" =>
                         refusedOnce \/ provider = "silero" \/ badAnswers > SpeechRetries
  BY DEF SpokenAsWritten, PiecesOf, FitsRequest, MayBeCut
<1>1. speaker[w].pc = "failed" =>
         refusedOnce \/ provider = "silero" \/ badAnswers > SpeechRetries
  BY DEF SpeechInv, FailureExplained
<1>2. ASSUME speaker[w].pc = "spoken"
      PROVE  FlattenSeq(PiecesOf(speaker[w].said)) = AllPieces(speaker[w].text)
  <2>1. /\ speaker[w].said \in Seq(Heard) /\ speaker[w].text \in Seq(Seq(Nat))
        /\ PiecesOf(speaker[w].said) \o <<>> = Split(speaker[w].text)
    BY <1>2 DEF SpeechInv, SpeechTyped, Speaker, SaidAndLeft
  <2>2. PiecesOf(speaker[w].said) \in Seq(SpeechRequests)
    <3> DEFINE said == speaker[w].said
    <3>1. \A i \in 1..Len(said) : said[i] \in Heard
      BY <2>1
    <3>2. \A i \in 1..Len(said) : said[i].pieces \in SpeechRequests
      BY <3>1 DEF Heard
    <3>3. Len(said) \in Nat
      BY <2>1
    <3> HIDE DEF said
    <3> QED BY <3>2, <3>3 DEF PiecesOf, said
  <2>3. PiecesOf(speaker[w].said) = Split(speaker[w].text)
    BY <2>1, <2>2, ConcatEmptySeq
  <2> QED BY <2>1, <2>3, SplitKeeps
<1>3. \A i \in 1..Len(speaker[w].said) :
         /\ FitsRequest(speaker[w].said[i].pieces)
         /\ speaker[w].said[i].audio = "cut" => MayBeCut
  <2> TAKE i \in 1..Len(speaker[w].said)
  <2>1. speaker[w].said \in Seq(Heard)
    BY DEF SpeechInv, SpeechTyped, Speaker
  <2>2. speaker[w].said[i] \in Heard
    BY <2>1
  <2> QED BY <2>2 DEF Heard, SpeechRequests, SpeechInv, CutExplained
<1> QED BY <1>1, <1>2, <1>3

(* What is spoken is the text, every clause once and in order, in requests  *)
(* the provider takes, cut only where its stream was; and a slide fails     *)
(* only when refused, or when asked for as often as the settings say        *)
(* (services/tts_service.py:167-206, 256-302, 404-520, 562-718), for every  *)
(* text, limit and number of threads.                                       *)
THEOREM SpeechIsTheText == SpeechSpec => []SpokenAsWritten
<1>1. SpeechInit => SpeechInv
  BY SpeechStarts, SpeechAssumption
<1>2. SpeechInv /\ [SpeechNext]_speechVars => SpeechInv'
  BY SpeechStep, SpeechAssumption
<1>3. SpeechInv => SpokenAsWritten
  BY InvSpoken, SpeechAssumption
<1> QED BY <1>1, <1>2, <1>3, PTL DEF SpeechSpec

(* Every call, answer and kept piece of audio is what its column takes      *)
(* (services/tts_service.py:404-520).                                       *)
THEOREM SpeechTypeCorrect == SpeechSpec => []SpeechTypeOK
<1>1. SpeechInit => SpeechInv
  BY SpeechStarts, SpeechAssumption
<1>2. SpeechInv /\ [SpeechNext]_speechVars => SpeechInv'
  BY SpeechStep, SpeechAssumption
<1>3. SpeechInv => SpeechTypeOK
  BY DEF SpeechInv, SpeechTyped, SpeechTypeOK, Speaker, SpeakerPcs
<1> QED BY <1>1, <1>2, <1>3, PTL DEF SpeechSpec
=============================================================================
