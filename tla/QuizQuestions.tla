--------------------------- MODULE QuizQuestions ---------------------------
(***************************************************************************)
(* The questions of one lesson's quiz: versioned rows that are inserted    *)
(* and superseded, never rewritten, because attempts pin (id, version)     *)
(* pairs.  Edit, regenerate and delete requests load the current row and   *)
(* write later (a regeneration awaits the language model in between), so   *)
(* they meet each other and a newly generated set of questions.  Order and *)
(* display settings are left out: nothing here depends on them.            *)
(***************************************************************************)
EXTENDS Naturals, FiniteSets

CONSTANTS
    Questions,      \* question ids
    MaxVersion,     \* bound on versions per question (exploration only)
    Editors,        \* teacher requests on one question in flight
    Sittings,       \* quiz attempts that may be started
    NoId            \* NULL generation_task_id

ASSUME VersionAssumption == MaxVersion \in Nat \ {0}

VARIABLES
    quizRow,    \* the quizzes row
    rows,       \* quiz_questions, by primary key <<id, version>>
    pins,       \* per attempt: the pointers of its questions_snapshot
    editor      \* per editor: the request it serves and the row it loaded

questionVars == <<quizRow, rows, pins, editor>>

Keys == Questions \X (1..MaxVersion)
QuizRow(ids) == [exists : BOOLEAN, status : {"draft", "published"}, task : ids]
QuestionRow == [content : {"written", "edited", "generated"}, live : BOOLEAN]
NoRequest == [op |-> "none", key |-> <<>>]
Pending == {NoRequest} \cup [op : {"edit", "regenerate", "delete"}, key : Keys]

Ids(table) == {key[1] : key \in DOMAIN table}
Unused(table) == Questions \ Ids(table)
Fresh(table) == CHOOSE q \in Unused(table) : TRUE      \* uuid4

(* Rows whose superseded_at is NULL.                                       *)
Current(table) == {key \in DOMAIN table : table[key].live}

Insert(table, key, content) ==
    [k \in DOMAIN table \cup {key} |->
        IF k = key THEN [content |-> content, live |-> TRUE] ELSE table[k]]

Retire(table, keys) ==
    [k \in DOMAIN table |->
        [table[k] EXCEPT !.live = @ /\ k \notin keys]]

(* The version a writer gives its row: the loaded one plus one.            *)
NextVersion_Latest(table, key) ==
    1 + Cardinality({k \in DOMAIN table : k[1] = key[1]})

NextVersion(table, key) == key[2] + 1

(* supersede_with_new_version on the row loaded as `key`.                  *)
Superseding_InPlace(table, key, content) ==
    [table EXCEPT ![key].content = content]

Superseding(table, key, content) ==
    Retire(Insert(table, <<key[1], NextVersion(table, key)>>, content), {key})

(* replace_questions_sync: rows visible as current to its UPDATE are       *)
(* retired and the generated questions inserted under fresh ids.           *)
Replacing(table, targets, fresh) ==
    [k \in DOMAIN table \cup {<<q, 1>> : q \in fresh} |->
        IF k[1] \in fresh THEN [content |-> "generated", live |-> TRUE]
        ELSE [table[k] EXCEPT !.live = @ /\ k \notin targets]]

(* resolve_snapshot: pointers find their rows by primary key, superseded   *)
(* or not; a pointer without a row is a BrokenSnapshotError.               *)
BrokenSnapshot(table, pointers) == ~(pointers \subseteq DOMAIN table)
Resolved(table, pointers) == [key \in pointers |-> table[key].content]

-----------------------------------------------------------------------------
(* get_or_create_quiz: INSERT ... ON CONFLICT DO NOTHING.                  *)
EnsureQuiz(row) == [row EXCEPT !.exists = TRUE]

OpenQuiz ==
    /\ ~quizRow.exists
    /\ quizRow' = EnsureQuiz(quizRow)
    /\ UNCHANGED <<rows, pins, editor>>

Publish ==
    /\ quizRow.status = "draft"
    /\ Current(rows) # {}
    /\ quizRow' = [EnsureQuiz(quizRow) EXCEPT !.status = "published"]
    /\ UNCHANGED <<rows, pins, editor>>

Unpublish ==
    /\ quizRow.status = "published"
    /\ quizRow' = [quizRow EXCEPT !.status = "draft"]
    /\ UNCHANGED <<rows, pins, editor>>

CreateQuestion ==
    /\ Unused(rows) # {}
    /\ quizRow' = EnsureQuiz(quizRow)
    /\ rows' = Insert(rows, <<Fresh(rows), 1>>, "written")
    /\ UNCHANGED <<pins, editor>>

(* Only the current version is addressable (404 otherwise).                *)
LoadQuestion(e, op, key) ==
    /\ editor[e].op = "none"
    /\ key \in Current(rows)
    /\ editor' = [editor EXCEPT ![e] = [op |-> op, key |-> key]]
    /\ UNCHANGED <<quizRow, rows, pins>>

(* The primary key (id, version) refuses the second successor of a row:    *)
(* the request ends in an error and writes nothing.                        *)
WriteVersion(e) ==
    LET key == editor[e].key
        next == <<key[1], NextVersion(rows, key)>>
    IN  /\ next \in Keys
        /\ rows' = IF next \in DOMAIN rows THEN rows
                   ELSE Superseding(rows, key, "edited")
        /\ editor' = [editor EXCEPT ![e] = NoRequest]
        /\ UNCHANGED <<quizRow, pins>>

UpdateQuestion(e) == editor[e].op = "edit" /\ WriteVersion(e)

RegenerateQuestion(e) ==
    editor[e].op = "regenerate" /\ WriteVersion(e)

(* The model answered with garbage (502): nothing was written.             *)
RegenerateFails(e) ==
    /\ editor[e].op = "regenerate"
    /\ editor' = [editor EXCEPT ![e] = NoRequest]
    /\ UNCHANGED <<quizRow, rows, pins>>

DeleteQuestion(e) ==
    /\ editor[e].op = "delete"
    /\ rows' = Retire(rows, {editor[e].key})
    /\ editor' = [editor EXCEPT ![e] = NoRequest]
    /\ UNCHANGED <<quizRow, pins>>

(* start_attempt pins the versions current at that moment.                 *)
PinQuestions(a) ==
    /\ pins[a] = {}
    /\ quizRow.status = "published"
    /\ Current(rows) # {}
    /\ pins' = [pins EXCEPT ![a] = Current(rows)]
    /\ UNCHANGED <<quizRow, rows, editor>>

EditorNext(e) ==
    \/ \E op \in {"edit", "regenerate", "delete"}, key \in Keys :
            LoadQuestion(e, op, key)
    \/ UpdateQuestion(e) \/ DeleteQuestion(e)
    \/ RegenerateQuestion(e) \/ RegenerateFails(e)

AuthoringNext ==
    \/ OpenQuiz \/ Publish \/ Unpublish
    \/ CreateQuestion
    \/ \E e \in Editors : EditorNext(e)
    \/ \E a \in Sittings : PinQuestions(a)

QuestionsInit ==
    /\ quizRow = [exists |-> FALSE, status |-> "draft", task |-> NoId]
    /\ rows = [k \in {} |-> [content |-> "written", live |-> TRUE]]
    /\ pins = [a \in Sittings |-> {}]
    /\ editor = [e \in Editors |-> NoRequest]

-----------------------------------------------------------------------------
QuestionsTypeOK(ids) ==
    /\ quizRow \in QuizRow(ids)
    /\ DOMAIN rows \subseteq Keys /\ \A k \in DOMAIN rows : rows[k] \in QuestionRow
    /\ pins \in [Sittings -> SUBSET Keys]
    /\ editor \in [Editors -> Pending]

(* However edits, regenerations, deletions and generations overlap, a      *)
(* question never has two current versions: a writer that loaded an old    *)
(* version cannot put a second successor beside the newer one.             *)
OneCurrentVersion ==
    \A k1, k2 \in Current(rows) : k1[1] = k2[1] => k1 = k2

(* What an attempt pinned can always be resolved, to the same content:     *)
(* rows are neither removed nor rewritten.                                 *)
SnapshotsResolve ==
    [][\A a \in Sittings :
            /\ ~BrokenSnapshot(rows', pins[a])
            /\ Resolved(rows', pins[a]) = Resolved(rows, pins[a])]_questionVars

=============================================================================
