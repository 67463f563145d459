------------------------------ MODULE Rendering ------------------------------
(* What a video generation makes, and from what: the deck's pictures, the   *)
(* narration, the voice - and everything a run finds lying about: the       *)
(* pictures and segments an unfinished run left in the lesson's work        *)
(* directory, its checkpoint in Redis, the slides cache on disk and in each *)
(* worker process, the cache of narrated slides.  Billing and statuses are  *)
(* GenerationBilling's.                                                     *)
EXTENDS Integers, Sequences, FiniteSets

CONSTANTS
    Decks,              \* presentations, each a different file
    DeckSize,           \* slides in each
    Texts, Voices,      \* versions of the narration; voice, tempo and pitch
    Procs,              \* worker processes
    MaxLaunches, MaxKills, MaxEvictions     \* bounds

ASSUME RenderingAssumption ==
    /\ DeckSize \in [Decks -> Nat \ {0}]
    /\ MaxLaunches \in Nat /\ MaxKills \in Nat /\ MaxEvictions \in Nat

VARIABLES
    lesson,             \* its deck, its text, and whether it is told per slide
    run,                \* the task
    workSlides,         \* work_dir/slides: number -> the deck it was drawn from
    segFiles,           \* work_dir/segments: file name -> what it shows and says
    slidesCache,        \* disk: deck -> number -> deck
    memory,             \* process -> deck -> the paths it remembers
    peer,               \* another lesson's task filling the slides cache
    voiceCache,         \* tts_cache: key -> "whole" or "cut"
    checkpoint,         \* job:{lesson}:checkpoint
    video,              \* the last finished video
    tainted,            \* history: cache entries cut short or filled with leftovers
    leftover,           \* history: what unfinished runs were about
    launches, kills, evictions

renderVars ==
    <<lesson, run, workSlides, segFiles, slidesCache, memory, peer, voiceCache,
      checkpoint, video, tainted, leftover, launches, kills, evictions>>

NoFn == [x \in {} |-> x]
With(f, x, v) == [y \in DOMAIN f \cup {x} |-> IF y = x THEN v ELSE f[y]]
Numbers == UNION {1..DeckSize[d] : d \in Decks}

Idle == [pc |-> "idle", voice |-> "none", proc |-> "none", images |-> <<>>,
         said |-> <<>>, slide |-> <<>>, stale |-> FALSE]
NoPeer == [deck |-> "none", next |-> 1]
NoCheckpoint == [voice |-> "none", said |-> <<>>, segments |-> {}]

(* The file names a finished segment is written under, and looked for under.*)
SegName(k) == <<"_seg", k>>
ResumeName(k) == <<"segment", k>>

-----------------------------------------------------------------------------
(* The teacher, between runs.                                               *)
EditLesson ==
    /\ run.pc = "idle"
    /\ \E deck \in Decks, text \in Texts :
          /\ <<deck, text>> # <<lesson.deck, lesson.text>>
          /\ lesson' = [lesson EXCEPT !.deck = deck, !.text = text]
    /\ UNCHANGED <<run, workSlides, segFiles, slidesCache, memory, peer, voiceCache,
                   checkpoint, video, tainted, leftover, launches, kills, evictions>>

Launch(voice) ==
    /\ run.pc = "idle" /\ launches < MaxLaunches
    /\ launches' = launches + 1
    /\ run' = [Idle EXCEPT !.pc = "queued", !.voice = voice]
    /\ UNCHANGED <<lesson, workSlides, segFiles, slidesCache, memory, peer, voiceCache,
                   checkpoint, video, tainted, leftover, kills, evictions>>

(* The task begins, or begins again after a worker was killed.              *)
Material == <<lesson.deck, lesson.text>>

PickUp(p) ==
    /\ run.pc = "queued"
    /\ run' = [run EXCEPT !.pc = "looking", !.proc = p, !.images = <<>>,
                          !.said = <<>>, !.slide = <<>>,
                          !.stale = \E m \in leftover : m # Material]
    /\ leftover' = leftover \cup {Material}
    /\ UNCHANGED <<lesson, workSlides, segFiles, slidesCache, memory, peer, voiceCache,
                   checkpoint, video, tainted, launches, kills, evictions>>

(* convert_pptx_to_images: the process's memory, else whatever pictures the *)
(* cache directory holds, else a conversion.                                *)
CachePaths(deck) ==
    LET kept == DOMAIN slidesCache[deck]
    IN  [i \in 1..Cardinality(kept) |->
           <<"cache", deck, CHOOSE n \in kept :
                              Cardinality({m \in kept : m < n}) = i - 1>>]

LookUp ==
    LET deck == lesson.deck
        remembered == memory[run.proc][deck]
        found == IF remembered # <<>> THEN remembered ELSE CachePaths(deck)
    IN  /\ run.pc = "looking"
        /\ IF found # <<>>
           THEN /\ run' = [run EXCEPT !.pc = "scripting", !.images = found]
                /\ memory' = [memory EXCEPT ![run.proc][deck] = found]
                /\ tainted' = IF remembered = <<>> /\ peer.deck = deck
                              THEN tainted \cup {deck} ELSE tainted
           ELSE /\ run' = [run EXCEPT !.pc = "converting"]
                /\ UNCHANGED <<memory, tainted>>
        /\ UNCHANGED <<lesson, workSlides, segFiles, slidesCache, peer, voiceCache,
                       checkpoint, video, leftover, launches, kills, evictions>>

(* pdftoppm overwrites the pictures it draws; every picture in the          *)
(* directory is then taken for one of the deck's.                           *)
Drawn ==
    [n \in DOMAIN workSlides \cup 1..DeckSize[lesson.deck] |->
       IF n <= DeckSize[lesson.deck] THEN lesson.deck ELSE workSlides[n]]

Convert ==
    /\ run.pc = "converting"
    /\ workSlides' = Drawn
    /\ run' = [run EXCEPT !.pc = "filling",
                          !.images = [n \in DOMAIN workSlides' |-> <<"work", n>>]]
    /\ UNCHANGED <<lesson, segFiles, slidesCache, memory, peer, voiceCache, checkpoint,
                   video, tainted, leftover, launches, kills, evictions>>

(* The cache is filled picture by picture, and then remembered.             *)
FillCache ==
    LET deck == lesson.deck
        missing == DOMAIN workSlides \ DOMAIN slidesCache[deck]
    IN  /\ run.pc = "filling"
        /\ IF missing # {}
           THEN /\ LET n == CHOOSE m \in missing : \A o \in missing : m <= o
                   IN  slidesCache' = [slidesCache EXCEPT ![deck] =
                                         With(@, n, workSlides[n])]
                /\ tainted' = IF run.stale THEN tainted \cup {deck} ELSE tainted
                /\ UNCHANGED <<run, memory>>
           ELSE /\ memory' = [memory EXCEPT ![run.proc][deck] =
                                [n \in DOMAIN workSlides |-> <<"cache", deck, n>>]]
                /\ run' = [run EXCEPT !.pc = "scripting"]
                /\ UNCHANGED <<slidesCache, tainted>>
        /\ UNCHANGED <<lesson, workSlides, segFiles, peer, voiceCache, checkpoint,
                       video, leftover, launches, kills, evictions>>

(* Another lesson with the same file, in another process.                   *)
PeerFills ==
    /\ \/ /\ peer = NoPeer
          /\ \E deck \in Decks :
                /\ slidesCache[deck] = NoFn
                /\ peer' = [deck |-> deck, next |-> 1]
          /\ UNCHANGED slidesCache
       \/ /\ peer # NoPeer
          /\ slidesCache' = [slidesCache EXCEPT ![peer.deck] =
                               With(@, peer.next, peer.deck)]
          /\ peer' = IF peer.next = DeckSize[peer.deck] THEN NoPeer
                     ELSE [peer EXCEPT !.next = @ + 1]
    /\ UNCHANGED <<lesson, run, workSlides, segFiles, memory, voiceCache, checkpoint,
                   video, tainted, leftover, launches, kills, evictions>>

(* The nightly collection renames an entry away, whole; one being filled is *)
(* the newest and is not its choice.                                        *)
Evict(deck) ==
    /\ evictions < MaxEvictions /\ slidesCache[deck] # NoFn /\ peer.deck # deck
    /\ ~(run.pc = "filling" /\ lesson.deck = deck)
    /\ evictions' = evictions + 1
    /\ slidesCache' = [slidesCache EXCEPT ![deck] = NoFn]
    /\ UNCHANGED <<lesson, run, workSlides, segFiles, memory, peer, voiceCache,
                   checkpoint, video, tainted, leftover, launches, kills>>

-----------------------------------------------------------------------------
(* The narration: the slide texts when there is one per picture, else the   *)
(* checkpoint's when it has one per picture, else the script, split anew.   *)
Told(text, total) == [k \in 1..total |-> <<text, k>>]

Narration ==
    LET total == Len(run.images)
    IN  IF lesson.auto /\ total = DeckSize[lesson.deck] THEN Told(lesson.text, total)
        ELSE IF checkpoint.said # <<>> /\ Len(checkpoint.said) = total
        THEN checkpoint.said
        ELSE Told(IF lesson.auto THEN "placeholder" ELSE lesson.text, total)

Checkpointed ==
    [voice |-> run.voice, said |-> Narration,
     segments |-> IF checkpoint.voice = run.voice THEN checkpoint.segments ELSE {}]

(* Segments the checkpoint lists count only when their file is there.       *)
Resumed(cp) == {k \in cp.segments : ResumeName(k) \in DOMAIN segFiles}

WriteScript ==
    /\ run.pc = "scripting"
    /\ checkpoint' = Checkpointed
    /\ run' = [run EXCEPT !.pc = "voicing", !.said = Narration,
                 !.slide = [k \in 1..Len(run.images) |->
                              IF k \in Resumed(Checkpointed) THEN "encoded"
                                                             ELSE "waiting"]]
    /\ UNCHANGED <<lesson, workSlides, segFiles, slidesCache, memory, peer, voiceCache,
                   video, tainted, leftover, launches, kills, evictions>>

(* As AudioKey below, with the voice left out of the file name.             *)
AudioKey_NoVoice(k) == <<run.said[k], "any">>

(* _do_tts: a file in the cache is the slide's audio; else it is synthesised*)
(* and copied into the cache.                                               *)
AudioKey(k) == <<run.said[k], run.voice>>

Voice(k) ==
    /\ run.pc = "voicing" /\ run.slide[k] = "waiting"
    /\ IF AudioKey(k) \in DOMAIN voiceCache
       THEN /\ run' = [run EXCEPT !.slide[k] = "voiced"]
            /\ UNCHANGED voiceCache
       ELSE /\ run' = [run EXCEPT !.slide[k] = "copying"]
            /\ voiceCache' = With(voiceCache, AudioKey(k),
                                  [voice |-> run.voice, whole |-> FALSE])
    /\ UNCHANGED <<lesson, workSlides, segFiles, slidesCache, memory, peer, checkpoint,
                   video, tainted, leftover, launches, kills, evictions>>

CopyAudio(k) ==
    /\ run.pc = "voicing" /\ run.slide[k] = "copying"
    /\ run' = [run EXCEPT !.slide[k] = "voiced"]
    /\ voiceCache' = [voiceCache EXCEPT ![AudioKey(k)].whole = TRUE]
    /\ UNCHANGED <<lesson, workSlides, segFiles, slidesCache, memory, peer, checkpoint,
                   video, tainted, leftover, launches, kills, evictions>>

(* encode_segment, once the slide is voiced.  A picture that is gone fails  *)
(* the run.                                                                 *)
Picture(path) ==
    IF path[1] = "work" THEN {workSlides[path[2]]}
    ELSE {slidesCache[path[2]][n] : n \in {path[3]} \cap DOMAIN slidesCache[path[2]]}

Encode(k) ==
    /\ run.pc = "voicing" /\ run.slide[k] = "voiced"
    /\ \E deck \in Picture(run.images[k]) :
          segFiles' = With(segFiles, SegName(k),
                           [deck |-> deck, number |-> run.images[k][Len(run.images[k])],
                            said |-> run.said[k], audio |-> voiceCache[AudioKey(k)]])
    /\ checkpoint' = [checkpoint EXCEPT !.segments = @ \cup {k}]
    /\ run' = [run EXCEPT !.slide[k] = "encoded"]
    /\ UNCHANGED <<lesson, workSlides, slidesCache, memory, peer, voiceCache, video,
                   tainted, leftover, launches, kills, evictions>>

(* An error or a cancellation: work directory and checkpoint stay.          *)
Working == run.pc \in {"looking", "converting", "filling", "scripting", "voicing"}

RunStops ==
    /\ Working /\ \A k \in DOMAIN run.slide : run.slide[k] # "copying"
    /\ run' = Idle
    /\ tainted' = IF run.pc = "filling" THEN tainted \cup {lesson.deck} ELSE tainted
    /\ UNCHANGED <<lesson, workSlides, segFiles, slidesCache, memory, peer, voiceCache,
                   checkpoint, video, leftover, launches, kills, evictions>>

(* Concatenation consumes the segments; the version is committed.           *)
Finish ==
    /\ run.pc = "voicing" /\ \A k \in DOMAIN run.slide : run.slide[k] = "encoded"
    /\ video' = [slides |-> [k \in DOMAIN run.slide |-> segFiles[SegName(k)]],
                 deck |-> lesson.deck, text |-> lesson.text, voice |-> run.voice,
                 stale |-> run.stale]
    /\ segFiles' = NoFn
    /\ run' = [run EXCEPT !.pc = "cleaning"]
    /\ UNCHANGED <<lesson, workSlides, slidesCache, memory, peer, voiceCache, checkpoint,
                   tainted, leftover, launches, kills, evictions>>

CleanUp ==
    \/ /\ run.pc = "cleaning"
       /\ checkpoint' = NoCheckpoint
       /\ run' = [run EXCEPT !.pc = "removing"]
       /\ UNCHANGED <<lesson, workSlides, segFiles, slidesCache, memory, peer,
                      voiceCache, video, tainted, leftover, launches, kills, evictions>>
    \/ /\ run.pc = "removing"
       /\ workSlides' = NoFn /\ segFiles' = NoFn /\ leftover' = {}
       /\ run' = Idle
       /\ UNCHANGED <<lesson, slidesCache, memory, peer, voiceCache, checkpoint, video,
                      tainted, launches, kills, evictions>>

(* The worker process is killed: its memory goes, the message returns.      *)
Kill ==
    /\ (Working \/ run.pc \in {"cleaning", "removing"}) /\ kills < MaxKills
    /\ kills' = kills + 1
    /\ memory' = [memory EXCEPT ![run.proc] = [d \in Decks |-> <<>>]]
    /\ tainted' = tainted
          \cup (IF run.pc = "filling" THEN {lesson.deck} ELSE {})
          \cup {AudioKey(k) : k \in {i \in DOMAIN run.slide : run.slide[i] = "copying"}}
    /\ run' = [run EXCEPT !.pc = "queued"]
    /\ UNCHANGED <<lesson, workSlides, segFiles, slidesCache, peer, voiceCache,
                   checkpoint, video, leftover, launches, evictions>>

RenderStep ==
    \/ LookUp \/ Convert \/ FillCache \/ WriteScript \/ RunStops \/ Finish \/ CleanUp
    \/ \E p \in Procs : PickUp(p)
    \/ \E k \in DOMAIN run.slide : Voice(k) \/ CopyAudio(k) \/ Encode(k)

RenderNext ==
    \/ EditLesson \/ RenderStep \/ PeerFills \/ Kill
    \/ \E v \in Voices : Launch(v)
    \/ \E d \in Decks : Evict(d)

RenderInit ==
    /\ lesson \in [deck : Decks, text : Texts, auto : BOOLEAN]
    /\ run = Idle
    /\ workSlides = NoFn /\ segFiles = NoFn
    /\ slidesCache = [d \in Decks |-> NoFn]
    /\ memory = [p \in Procs |-> [d \in Decks |-> <<>>]]
    /\ peer = NoPeer /\ voiceCache = NoFn /\ checkpoint = NoCheckpoint
    /\ video = [slides |-> <<>>] /\ tainted = {} /\ leftover = {}
    /\ launches = 0 /\ kills = 0 /\ evictions = 0

RenderSpec == RenderInit /\ [][RenderNext]_renderVars

RenderTypeOK ==
    /\ lesson \in [deck : Decks, text : Texts, auto : BOOLEAN]
    /\ DOMAIN workSlides \subseteq Numbers
    /\ \A d \in Decks : DOMAIN slidesCache[d] \subseteq Numbers
    /\ DOMAIN segFiles \subseteq {SegName(k) : k \in Numbers}
    /\ checkpoint.segments \subseteq Numbers
    /\ Len(run.images) = Len(run.said) \/ run.said = <<>>

(* A finished video shows the lesson's deck, slide by slide, and says the   *)
(* lesson's text, whole and in the voice that was asked for, unless the run *)
(* started among what unfinished runs about other material had left, or met *)
(* a cache entry whose writing was cut short, watched while it went on, or  *)
(* fed with such leftovers (tasks/video_pipeline.py:345-735,                *)
(* services/video_service.py:389-611).                                      *)
Right(v) ==
    /\ Len(v.slides) = DeckSize[v.deck]
    /\ \A k \in DOMAIN v.slides :
          v.slides[k] = [deck |-> v.deck, number |-> k, said |-> <<v.text, k>>,
                         audio |-> [voice |-> v.voice, whole |-> TRUE]]

Excused(v) ==
    \/ v.stale \/ v.deck \in tainted
    \/ \E k \in DOMAIN v.slides : <<v.slides[k].said, v.voice>> \in tainted

OnlyLeftoversSpoilVideos ==
    [][video' # video => Right(video') \/ Excused(video')]_renderVars

(* A slide whose finished segment the checkpoint lists, in this voice, is   *)
(* not narrated again (docs/articles/04-video-pipeline-streaming.md:167).   *)
FinishedSegmentsSkipVoicing ==
    [][\A k \in DOMAIN run.slide :
         run.slide[k] = "waiting" /\ run'.pc = "voicing" /\ run'.slide[k] # "waiting"
         => k \notin checkpoint.segments]_renderVars
=============================================================================
