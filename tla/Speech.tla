------------------------------- MODULE Speech -------------------------------
(* Speech synthesis of one slide's text: the text is split into requests the*)
(* provider accepts, each is answered from the chunk cache or by the        *)
(* provider, some failures are tried again, and the pieces are joined.      *)
(* A text is a sequence of sentences, a sentence a sequence of clauses, a   *)
(* clause is as long as its number says; joining two takes a space.  What   *)
(* is spoken is a sequence of clauses, each by its place in the text.       *)
EXTENDS Integers, Sequences, SequencesExt

CONSTANTS
    Speakers,           \* threads of the narration pool
    SpeechTexts,        \* texts: Seq(Seq(Nat))
    Providers,          \* of "silero", "polza", "yandex"
    MaxChars,           \* the provider's limit
    SpeechRetries,      \* POLZA_TTS_MAX_RETRIES, YANDEX_TTS_MAX_RETRIES
    MaxAnswers          \* bound: requests answered otherwise than well

ASSUME SpeechAssumption ==
    /\ MaxChars \in Nat \ {0} /\ SpeechRetries \in Nat /\ MaxAnswers \in Nat
    /\ Providers \subseteq {"silero", "polza", "yandex"}
    /\ SpeechTexts \subseteq Seq(Seq(Nat))

VARIABLES
    provider,           \* settings.TTS_PROVIDER
    speaker,            \* each thread's call of synthesize
    chunkCache,         \* key -> the audio kept for it, "cut" or "whole"
    badAnswers,
    refusedOnce         \* history: a 4xx was answered to a speaker's chunk

speechVars == <<provider, speaker, chunkCache, badAnswers, refusedOnce>>

-----------------------------------------------------------------------------
(* _split_for_tts.  A piece is <<sentence, clause, length>>; a chunk is a   *)
(* sequence of pieces.                                                      *)
Long(chunk) == FoldLeft(LAMBDA n, p : n + p[3] + 1, 0, chunk) - 1

Pieces(text, s) == [c \in 1..Len(text[s]) |-> <<s, c, text[s][c]>>]
AllPieces(text) == FlattenSeq([s \in 1..Len(text) |-> Pieces(text, s)])

(* As TakeOn below, forgetting to keep what was current.                    *)
TakeOn_Dropping(acc, more) ==
    LET candidate == acc.current \o more
    IN  IF Long(candidate) <= MaxChars THEN [acc EXCEPT !.current = candidate]
        ELSE [acc EXCEPT !.current = more]

(* Takes the pieces on if they still fit, else starts anew with them.       *)
TakeOn(acc, more) ==
    LET candidate == acc.current \o more
    IN  IF Long(candidate) <= MaxChars THEN [acc EXCEPT !.current = candidate]
        ELSE [done |-> IF acc.current = <<>> THEN acc.done
                       ELSE Append(acc.done, acc.current),
              current |-> more]

(* A sentence too long for a request is taken clause by clause, after what  *)
(* came before it was put away.                                             *)
PutAway(acc) ==
    IF acc.current = <<>> THEN acc
    ELSE [done |-> Append(acc.done, acc.current), current |-> <<>>]

TakeSentence(acc, sentence) ==
    IF Long(sentence) > MaxChars
    THEN FoldLeft(LAMBDA a, p : TakeOn(a, <<p>>), PutAway(acc), sentence)
    ELSE TakeOn(acc, sentence)

Split(text) ==
    IF Long(AllPieces(text)) <= MaxChars THEN <<AllPieces(text)>>
    ELSE PutAway(FoldLeft(TakeSentence, [done |-> <<>>, current |-> <<>>],
                          [s \in 1..Len(text) |-> Pieces(text, s)])).done

-----------------------------------------------------------------------------
Silent == [pc |-> "idle", text |-> <<>>, chunks |-> <<>>, said |-> <<>>, tries |-> 0]

Synthesize(w) ==
    /\ speaker[w].pc = "idle"
    /\ \E text \in SpeechTexts :
          speaker' = [speaker EXCEPT ![w] =
            IF text = <<>> THEN [Silent EXCEPT !.pc = "stub"]
            ELSE [Silent EXCEPT !.pc = "next", !.text = text, !.chunks = Split(text)]]
    /\ UNCHANGED <<provider, chunkCache, badAnswers, refusedOnce>>

(* The cache key is what is said and all that shapes how: here the pieces'  *)
(* lengths stand for the words.                                             *)
Words(chunk) == [i \in 1..Len(chunk) |-> chunk[i][3]]
CacheKey(w) == <<provider, Words(Head(speaker[w].chunks))>>

Hear(w, audio) ==
    LET me == speaker[w] IN
    speaker' = [speaker EXCEPT ![w] = [me EXCEPT
        !.pc = "next", !.tries = 0, !.chunks = Tail(me.chunks),
        !.said = Append(me.said, [pieces |-> Head(me.chunks), audio |-> audio])]]

ReadCache(w) ==
    /\ speaker[w].pc = "next" /\ speaker[w].chunks # <<>>
    /\ IF CacheKey(w) \in DOMAIN chunkCache
       THEN Hear(w, chunkCache[CacheKey(w)])
       ELSE speaker' = [speaker EXCEPT ![w].pc = "asking"]
    /\ UNCHANGED <<provider, chunkCache, badAnswers, refusedOnce>>

(* A complete answer is kept, whole, by a rename; SpeechKit's stream is     *)
(* taken for complete although lines of it could not be read.               *)
Kept(w, audio) ==
    [key \in DOMAIN chunkCache \cup {CacheKey(w)} |->
       IF key = CacheKey(w) THEN audio ELSE chunkCache[key]]

AnswerArrives(w) ==
    /\ speaker[w].pc = "asking"
    /\ Hear(w, "whole")
    /\ chunkCache' = Kept(w, "whole")
    /\ UNCHANGED <<provider, badAnswers, refusedOnce>>

AnswerCut(w) ==
    /\ speaker[w].pc = "asking" /\ provider = "yandex" /\ badAnswers < MaxAnswers
    /\ badAnswers' = badAnswers + 1
    /\ Hear(w, "cut")
    /\ chunkCache' = Kept(w, "cut")
    /\ UNCHANGED <<provider, refusedOnce>>

(* 429, a 5xx or the network: again after a pause, up to the limit; Silero  *)
(* is asked once.                                                           *)
MayRetry(w) == provider # "silero" /\ speaker[w].tries < SpeechRetries

AnswerFails(w) ==
    /\ speaker[w].pc = "asking" /\ badAnswers < MaxAnswers
    /\ badAnswers' = badAnswers + 1
    /\ speaker' = [speaker EXCEPT ![w] =
                     IF MayRetry(w) THEN [@ EXCEPT !.tries = speaker[w].tries + 1]
                     ELSE [Silent EXCEPT !.pc = "failed"]]
    /\ UNCHANGED <<provider, chunkCache, refusedOnce>>

(* Another 4xx, or an answer without audio: at once.                        *)
AnswerRefused(w) ==
    /\ speaker[w].pc = "asking" /\ badAnswers < MaxAnswers
    /\ badAnswers' = badAnswers + 1
    /\ speaker' = [speaker EXCEPT ![w] = [Silent EXCEPT !.pc = "failed"]]
    /\ refusedOnce' = TRUE
    /\ UNCHANGED <<provider, chunkCache>>

(* _concat_wav: every piece in order, into the slide's file.                *)
Join(w) ==
    /\ speaker[w].pc = "next" /\ speaker[w].chunks = <<>>
    /\ speaker' = [speaker EXCEPT ![w].pc = "spoken"]
    /\ UNCHANGED <<provider, chunkCache, badAnswers, refusedOnce>>

SpeechNext ==
    \E w \in Speakers :
        \/ Synthesize(w) \/ ReadCache(w) \/ Join(w)
        \/ AnswerArrives(w) \/ AnswerCut(w) \/ AnswerFails(w) \/ AnswerRefused(w)

SpeechInit ==
    /\ provider \in Providers
    /\ speaker = [w \in Speakers |-> Silent]
    /\ chunkCache = [key \in {} |-> "whole"]
    /\ badAnswers = 0 /\ refusedOnce = FALSE

SpeechSpec == SpeechInit /\ [][SpeechNext]_speechVars

SpeechTypeOK ==
    /\ \A w \in Speakers :
         /\ speaker[w].pc \in {"idle", "stub", "next", "asking", "spoken", "failed"}
         /\ speaker[w].tries \in 0..SpeechRetries
    /\ \A key \in DOMAIN chunkCache : chunkCache[key] \in {"whole", "cut"}
    /\ badAnswers \in 0..MaxAnswers /\ refusedOnce \in BOOLEAN

(* What is spoken is the text: every clause once and in order, no request   *)
(* over the limit unless it is one clause that cannot be split, no piece    *)
(* cut unless a provider's stream was cut; and a slide fails only when the  *)
(* provider refused, or failed more often than it is asked again            *)
(* (services/tts_service.py:167-206, 256-302, 404-520, 562-718).            *)
SpokenAsWritten ==
    \A w \in Speakers :
        /\ speaker[w].pc = "spoken" =>
             /\ FlattenSeq([i \in 1..Len(speaker[w].said) |-> speaker[w].said[i].pieces])
                  = AllPieces(speaker[w].text)
             /\ \A i \in 1..Len(speaker[w].said) :
                  LET said == speaker[w].said[i]
                  IN  /\ Long(said.pieces) <= MaxChars \/ Len(said.pieces) = 1
                      /\ said.audio = "cut" => provider = "yandex" /\ badAnswers > 0
        /\ speaker[w].pc = "failed" =>
             refusedOnce \/ provider = "silero" \/ badAnswers > SpeechRetries
=============================================================================
