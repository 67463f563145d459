----------------------------- MODULE MC_Platform -----------------------------
(* Accounts and sessions, mail, media and the streams on one small instance.*)
(* Components that share no state are not interleaved: each behaviour plays *)
(* one scenario, chosen at first.                                           *)
EXTENDS Sessions, Accounts, Mail, LessonMedia, ProgressStream, CourseStream,
        Rendering, Speech, TLC

CONSTANTS f1, f2, r1, r2, u1, x, i1, d1, d2, t1, voice1

ASSUME InstanceAssumption ==
    /\ u1 \in Accounts /\ x \in Addresses /\ d1 \in Decks
    /\ IsFiniteSet(Videos)

VARIABLE scenario

Scenarios == {"sessions", "signin", "lifecycle", "notices", "feedback", "videos",
              "bodies", "progress", "access", "rendering", "speech"}

MCNotices ==
    {[id |-> 1, kind |-> "urgent", category |-> "feedback", gated |-> FALSE],
     [id |-> 2, kind |-> "digest", category |-> "content", gated |-> TRUE]}

MCDeckSize == d1 :> 2 @@ d2 :> 1

(* Nothing; a clause; sentences that fit, that do not fit together, and     *)
(* that do not fit alone; a clause longer than any request.                 *)
MCTexts ==
    {<<>>, << <<3>>, <<1>> >>, << <<1>>, <<3, 1>> >>, << <<5, 1>>, <<1>> >>,
     << <<1, 1>> >>, << <<2, 2>>, <<1, 3>> >>, << <<1>>, <<1>>, <<1>> >>}

-----------------------------------------------------------------------------
(* One request may die; one family may be logged out, and refreshed.        *)
SessionsScenario ==
    /\ SessionsNext
    /\ blacklisted' \subseteq {f1} /\ minted'[f2] <= 1
    /\ interrupted' = interrupted \/ request'[r2] = request[r2]

(* After the first launch the teacher edits the lesson or changes the voice;*)
(* another lesson with the same file only joins an undisturbed first run.   *)
RenderingScenario ==
    /\ RenderNext
    /\ lesson' # lesson => launches = 1
    /\ kills' + evictions' <= 1
    /\ run'.voice \notin {"none", voice1} =>
          launches' = 2 /\ lesson = [lesson EXCEPT !.deck = d1, !.text = t1]
    /\ peer' # peer => kills' + evictions' = 0 /\ launches' = 1

AccountsInScenario ==
    IF scenario = "lifecycle"
    THEN /\ user = [u \in Accounts |->
                      IF u = u1 THEN [exists |-> TRUE, email |-> x, verified |-> TRUE,
                                      deleted |-> FALSE, active |-> TRUE]
                      ELSE NoUser]
         /\ identity = [i \in Identities |-> u1]
         /\ elapsed = {} /\ mails = {} /\ inFlight = {} /\ learning = {}
         /\ overlapped = {} /\ caller = [c \in Callers |-> NoCall]
    ELSE AccountsInit

Init ==
    /\ scenario \in Scenarios
    /\ SessionsInit /\ AccountsInScenario /\ MailInit /\ MediaInit
    /\ ProgressInit /\ CourseStreamInit /\ RenderInit /\ SpeechInit
    /\ scenario # "rendering" => ~lesson.auto
    /\ lesson.deck = d1 /\ lesson.text = t1
    /\ scenario # "speech" => provider = "silero"

(* Every scenario leaves the others' state alone.                           *)
Peopled ==
    /\ \/ /\ scenario = "sessions" /\ SessionsScenario
          /\ UNCHANGED <<accountVars, mailVars>>
       \/ /\ scenario = "signin" /\ SignInNext
          /\ UNCHANGED <<sessionVars, mailVars>>
       \/ /\ scenario = "lifecycle" /\ LifecycleNext
          /\ UNCHANGED <<sessionVars, mailVars>>
       \/ /\ \/ scenario = "notices" /\ NoticeNext
             \/ scenario = "feedback" /\ FeedbackNext
          /\ UNCHANGED <<sessionVars, accountVars>>
    /\ UNCHANGED <<mediaVars, progressVars, courseStreamVars, renderVars, speechVars>>

Made ==
    /\ \/ /\ \/ scenario = "videos" /\ VideoNext
             \/ scenario = "bodies" /\ TextNext
          /\ UNCHANGED <<progressVars, courseStreamVars, renderVars, speechVars>>
       \/ /\ scenario = "progress" /\ ProgressNext
          /\ UNCHANGED <<mediaVars, courseStreamVars, renderVars, speechVars>>
       \/ /\ scenario = "access" /\ CourseStreamNext
          /\ UNCHANGED <<mediaVars, progressVars, renderVars, speechVars>>
       \/ /\ scenario = "rendering" /\ RenderingScenario
          /\ UNCHANGED <<mediaVars, progressVars, courseStreamVars, speechVars>>
       \/ /\ scenario = "speech" /\ SpeechNext
          /\ UNCHANGED <<mediaVars, progressVars, courseStreamVars, renderVars>>
    /\ UNCHANGED <<sessionVars, accountVars, mailVars>>

allVars == <<scenario, sessionVars, accountVars, mailVars, mediaVars, progressVars,
             courseStreamVars, renderVars, speechVars>>

Next == UNCHANGED scenario /\ (Peopled \/ Made)

Spec == Init /\ [][Next]_allVars

TypeOK ==
    /\ scenario \in Scenarios
    /\ CASE scenario = "sessions" -> SessionsTypeOK
         [] scenario \in {"signin", "lifecycle"} -> AccountsTypeOK
         [] scenario \in {"notices", "feedback"} -> MailTypeOK
         [] scenario \in {"videos", "bodies"} -> MediaTypeOK
         [] scenario = "progress" -> ProgressTypeOK
         [] scenario = "access" -> CourseStreamTypeOK
         [] scenario = "rendering" -> RenderTypeOK
         [] OTHER -> SpeechTypeOK

=============================================================================
