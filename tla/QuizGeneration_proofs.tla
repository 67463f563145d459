----------------------- MODULE QuizGeneration_proofs -----------------------
(* For any number of teachers' requests and generations on one quiz: a      *)
(* question has one current version, what an attempt pinned stays, a        *)
(* generation is charged in full exactly if it delivered, and no trial slot *)
(* is lost on one that did not.                                             *)
EXTENDS QuizGeneration, CreditLedger_proofs

(* The table of questions, as the primary key and the writers keep it: no   *)
(* version without its predecessors, and only the last one may be current.  *)
TableType(T) == DOMAIN T \subseteq Keys /\ T \in [DOMAIN T -> QuestionRow]
NoGaps(T) ==
    \A q \in Questions, w \in 1..MaxVersion :
        <<q, w>> \in DOMAIN T => \A u \in 1..w : <<q, u>> \in DOMAIN T
LastIsCurrent(T) ==
    \A q \in Questions, v, w \in 1..MaxVersion :
        /\ <<q, v>> \in DOMAIN T /\ <<q, w>> \in DOMAIN T
        /\ T[<<q, v>>].live
        => w <= v
Versioned(T) == TableType(T) /\ NoGaps(T) /\ LastIsCurrent(T)

(* T2 has all rows of T, with what they say.                                *)
Keeps(T, T2) ==
    /\ DOMAIN T \subseteq DOMAIN T2
    /\ \A k \in DOMAIN T : T2[k].content = T[k].content

Contents == {"written", "edited", "generated"}

(* A writer's loaded row, and an attempt's pinned rows, are never removed.  *)
EditorsType ==
    /\ editor \in [Editors -> Pending]
    /\ \A e \in Editors : editor[e].op # "none" => editor[e].key \in DOMAIN rows
PinsType ==
    /\ pins \in [Sittings -> SUBSET Keys]
    /\ \A a \in Sittings : pins[a] \subseteq DOMAIN rows

Inv == Versioned(rows) /\ EditorsType /\ PinsType

-----------------------------------------------------------------------------
(* A new question's row has the type of a row.                             *)
LEMMA NewRowType ==
    ASSUME NEW c \in Contents
    PROVE  [content |-> c, live |-> TRUE] \in QuestionRow
  BY DEF Contents, QuestionRow

(* While an id is unused, the fresh id is one of those.                    *)
LEMMA FreshUnused ==
    ASSUME NEW T, Unused(T) # {}
    PROVE  Fresh(T) \in Unused(T)
  BY DEF Fresh

(* A fresh id can be inserted with version 1.                               *)
LEMMA InsertFresh ==
    ASSUME NEW T, Versioned(T), NEW q \in Unused(T), NEW c \in Contents
    PROVE  Versioned(Insert(T, <<q, 1>>, c)) /\ Keeps(T, Insert(T, <<q, 1>>, c))
  <1> DEFINE S == Insert(T, <<q, 1>>, c)
  <1>0. MaxVersion \in Nat \ {0}
    BY VersionAssumption
  <1>1. q \in Questions /\ <<q, 1>> \in Keys /\ \A k \in DOMAIN T : k[1] # q
    BY <1>0 DEF Unused, Ids, Keys
  <1>2. /\ DOMAIN S = DOMAIN T \cup {<<q, 1>>}
        /\ S[<<q, 1>>] = [content |-> c, live |-> TRUE]
        /\ \A k \in DOMAIN T : S[k] = T[k]
    BY <1>1 DEF Insert
  <1>3. S = [k \in DOMAIN S |-> S[k]]
    BY DEF Insert
  <1>4. TableType(S)
    <2>1. \A k \in DOMAIN S : S[k] \in QuestionRow
      <3>1. S[<<q, 1>>] \in QuestionRow
        BY <1>2, NewRowType
      <3>2. \A k \in DOMAIN T : S[k] \in QuestionRow
        BY <1>2 DEF Versioned, TableType
      <3>. QED
        BY <1>2, <3>1, <3>2
    <2>. QED
      BY <1>1, <1>2, <1>3, <2>1 DEF Versioned, TableType
  <1>5. \A w \in 1..MaxVersion : <<q, w>> \in DOMAIN S => w = 1
    BY <1>1, <1>2
  <1>6. NoGaps(S)
    BY <1>0, <1>2, <1>5 DEF Versioned, NoGaps
  <1>7. LastIsCurrent(S)
    <2> SUFFICES ASSUME NEW p \in Questions, NEW v \in 1..MaxVersion,
                        NEW w \in 1..MaxVersion,
                        <<p, v>> \in DOMAIN S, <<p, w>> \in DOMAIN S, S[<<p, v>>].live
                 PROVE  w <= v
      BY DEF LastIsCurrent
    <2>1. CASE p = q
      BY <1>5, <2>1
    <2>2. CASE p # q
      BY <1>2, <2>2 DEF Versioned, LastIsCurrent
    <2>. QED
      BY <2>1, <2>2
  <1>. QED
    BY <1>2, <1>4, <1>6, <1>7 DEF Versioned, Keeps

(* Retiring rows only takes rows out of the current ones.                   *)
LEMMA RetireKeeps ==
    ASSUME NEW T, Versioned(T), NEW keys
    PROVE  Versioned(Retire(T, keys)) /\ Keeps(T, Retire(T, keys))
  <1> DEFINE S == Retire(T, keys)
  <1>1. /\ DOMAIN S = DOMAIN T
        /\ S = [k \in DOMAIN S |-> S[k]]
        /\ \A k \in DOMAIN T :
              /\ S[k] = [T[k] EXCEPT !.live = T[k].live /\ k \notin keys]
              /\ T[k] \in QuestionRow
    BY DEF Retire, Versioned, TableType
  <1>2. \A k \in DOMAIN T : /\ S[k] \in QuestionRow
                            /\ S[k].content = T[k].content
                            /\ S[k].live = (T[k].live /\ k \notin keys)
    BY <1>1 DEF QuestionRow
  <1>3. TableType(S)
    BY <1>1, <1>2 DEF Versioned, TableType
  <1>4. NoGaps(S) /\ LastIsCurrent(S)
    BY <1>1, <1>2 DEF Versioned, NoGaps, LastIsCurrent
  <1>. QED
    BY <1>1, <1>2, <1>3, <1>4 DEF Versioned, Keeps

(* The successor of a row that has none yet is the last of its question.    *)
LEMMA SupersedingKeeps ==
    ASSUME NEW T, Versioned(T), NEW q \in Questions, NEW v \in 1..MaxVersion,
           <<q, v>> \in DOMAIN T, NEW c \in Contents,
           <<q, v + 1>> \in Keys, <<q, v + 1>> \notin DOMAIN T
    PROVE  LET S == Superseding(T, <<q, v>>, c) IN Versioned(S) /\ Keeps(T, S)
  <1> DEFINE I == Insert(T, <<q, v + 1>>, c)
             S == Superseding(T, <<q, v>>, c)
  <1>0. MaxVersion \in Nat \ {0} /\ v + 1 \in 1..MaxVersion
    BY VersionAssumption DEF Keys
  <1>1. \A w \in 1..MaxVersion : <<q, w>> \in DOMAIN T => w <= v
    <2> SUFFICES ASSUME NEW w \in 1..MaxVersion, <<q, w>> \in DOMAIN T, ~(w <= v)
                 PROVE  FALSE
      OBVIOUS
    <2>1. v + 1 \in 1..w
      BY <1>0
    <2>. QED
      BY <2>1 DEF Versioned, NoGaps
  <1>2. /\ DOMAIN I = DOMAIN T \cup {<<q, v + 1>>}
        /\ I[<<q, v + 1>>] = [content |-> c, live |-> TRUE]
        /\ \A k \in DOMAIN T : I[k] = T[k]
        /\ \A k \in DOMAIN T : T[k] \in QuestionRow
    BY DEF Insert, Versioned, TableType
  <1>3. S = Retire(I, {<<q, v>>})
    BY DEF Superseding, NextVersion
  <1>4. \A k \in DOMAIN I : I[k] \in QuestionRow
    <2>1. I[<<q, v + 1>>] \in QuestionRow
      BY <1>2, NewRowType
    <2>. QED
      BY <1>2, <2>1
  <1>5. DOMAIN S = DOMAIN I /\ S = [k \in DOMAIN S |-> S[k]]
    BY <1>3 DEF Retire
  <1>6. \A k \in DOMAIN I : /\ S[k] \in QuestionRow
                            /\ S[k].content = I[k].content
                            /\ S[k].live = (I[k].live /\ k # <<q, v>>)
    <2> SUFFICES ASSUME NEW k \in DOMAIN I
                 PROVE  /\ S[k] \in QuestionRow
                        /\ S[k].content = I[k].content
                        /\ S[k].live = (I[k].live /\ k # <<q, v>>)
      OBVIOUS
    <2>1. S[k] = [I[k] EXCEPT !.live = I[k].live /\ k \notin {<<q, v>>}]
      BY <1>3 DEF Retire
    <2>2. (k \notin {<<q, v>>}) = (k # <<q, v>>)
      OBVIOUS
    <2>3. I[k] \in QuestionRow
      BY <1>4
    <2>. QED
      BY <2>1, <2>2, <2>3 DEF QuestionRow
  <1>7. TableType(S)
    BY <1>2, <1>5, <1>6 DEF Versioned, TableType
  <1>8. NoGaps(S)
    <2> SUFFICES ASSUME NEW p \in Questions, NEW w \in 1..MaxVersion,
                        <<p, w>> \in DOMAIN S, NEW u \in 1..w
                 PROVE  <<p, u>> \in DOMAIN S
      BY DEF NoGaps
    <2>1. CASE <<p, w>> \in DOMAIN T
      BY <1>2, <1>5, <2>1 DEF Versioned, NoGaps
    <2>2. CASE <<p, w>> = <<q, v + 1>>
      <3>1. u = v + 1 \/ u \in 1..v
        BY <1>0, <2>2
      <3>. QED
        BY <1>2, <1>5, <2>2, <3>1 DEF Versioned, NoGaps
    <2>. QED
      BY <1>2, <1>5, <2>1, <2>2
  <1>9. LastIsCurrent(S)
    <2> SUFFICES ASSUME NEW p \in Questions, NEW u \in 1..MaxVersion,
                        NEW w \in 1..MaxVersion,
                        <<p, u>> \in DOMAIN S, <<p, w>> \in DOMAIN S, S[<<p, u>>].live
                 PROVE  w <= u
      BY DEF LastIsCurrent
    <2>1. CASE p # q
      <3>1. <<p, u>> \in DOMAIN T /\ <<p, w>> \in DOMAIN T
        BY <1>2, <1>5, <2>1
      <3>2. I[<<p, u>>] = T[<<p, u>>] /\ I[<<p, u>>].live
        BY <1>2, <1>5, <1>6, <3>1
      <3>. QED
        BY <3>1, <3>2 DEF Versioned, LastIsCurrent
    <2>2. CASE p = q
      <3>1. w <= v + 1
        <4>1. <<q, w>> \in DOMAIN T \/ w = v + 1
          BY <1>2, <1>5, <2>2
        <4>. QED
          BY <1>0, <1>1, <4>1
      <3>2. CASE u = v + 1
        BY <3>1, <3>2
      <3>3. CASE u # v + 1
        <4>0. <<q, u>> \in DOMAIN T
          BY <1>2, <1>5, <2>2, <3>3
        <4>1. <<q, u>> \in DOMAIN T /\ T[<<q, u>>].live /\ u # v
          <5>1. <<q, u>> \in DOMAIN I /\ I[<<q, u>>] = T[<<q, u>>]
            BY <1>2, <4>0
          <5>2. I[<<q, u>>].live /\ <<q, u>> # <<q, v>>
            BY <1>6, <2>2, <5>1
          <5>. QED
            BY <4>0, <5>1, <5>2
        <4>2. v <= u /\ u <= v
          BY <1>1, <4>1 DEF Versioned, LastIsCurrent
        <4>. QED
          BY <4>1, <4>2
      <3>. QED
        BY <3>2, <3>3
    <2>. QED
      BY <2>1, <2>2
  <1>. QED
    BY <1>2, <1>5, <1>6, <1>7, <1>8, <1>9 DEF Versioned, Keeps

(* A generation retires what its UPDATE saw and inserts under fresh ids.    *)
LEMMA ReplacingKeeps ==
    ASSUME NEW T, Versioned(T), NEW targets, NEW q \in Unused(T)
    PROVE  LET S == Replacing(T, targets, {q}) IN Versioned(S) /\ Keeps(T, S)
  <1> DEFINE S == Replacing(T, targets, {q})
  <1>0. MaxVersion \in Nat \ {0}
    BY VersionAssumption
  <1>1. q \in Questions /\ <<q, 1>> \in Keys /\ \A k \in DOMAIN T : k[1] # q
    BY <1>0 DEF Unused, Ids, Keys
  <1>2. \A k \in DOMAIN T : T[k] \in QuestionRow
    BY DEF Versioned, TableType
  <1>3. /\ DOMAIN S = DOMAIN T \cup {<<q, 1>>}
        /\ S = [k \in DOMAIN S |-> S[k]]
        /\ S[<<q, 1>>] = [content |-> "generated", live |-> TRUE]
        /\ \A k \in DOMAIN T :
              S[k] = [T[k] EXCEPT !.live = T[k].live /\ k \notin targets]
    BY <1>1 DEF Replacing
  <1>4. \A k \in DOMAIN T : /\ S[k] \in QuestionRow
                            /\ S[k].content = T[k].content
                            /\ S[k].live = (T[k].live /\ k \notin targets)
    BY <1>2, <1>3 DEF QuestionRow
  <1>5. TableType(S)
    <2>1. S[<<q, 1>>] \in QuestionRow
      BY <1>3, NewRowType DEF Contents
    <2>2. \A k \in DOMAIN S : S[k] \in QuestionRow
      BY <1>3, <1>4, <2>1
    <2>. QED
      BY <1>1, <1>3, <2>2 DEF Versioned, TableType
  <1>6. \A w \in 1..MaxVersion : <<q, w>> \in DOMAIN S => w = 1
    BY <1>1, <1>3
  <1>7. NoGaps(S)
    <2> SUFFICES ASSUME NEW p \in Questions, NEW w \in 1..MaxVersion,
                        <<p, w>> \in DOMAIN S, NEW u \in 1..w
                 PROVE  <<p, u>> \in DOMAIN S
      BY DEF NoGaps
    <2>1. CASE p = q
      <3>1. w = 1 /\ u = 1
        BY <1>6, <2>1
      <3>. QED
        BY <2>1, <3>1
    <2>2. CASE p # q
      <3>1. <<p, w>> \in DOMAIN T
        BY <1>3, <2>2
      <3>. QED
        BY <1>3, <3>1 DEF Versioned, NoGaps
    <2>. QED
      BY <2>1, <2>2
  <1>8. LastIsCurrent(S)
    <2> SUFFICES ASSUME NEW p \in Questions, NEW v \in 1..MaxVersion,
                        NEW w \in 1..MaxVersion,
                        <<p, v>> \in DOMAIN S, <<p, w>> \in DOMAIN S, S[<<p, v>>].live
                 PROVE  w <= v
      BY DEF LastIsCurrent
    <2>1. CASE p = q
      BY <1>6, <2>1
    <2>2. CASE p # q
      BY <1>3, <1>4, <2>2 DEF Versioned, LastIsCurrent
    <2>. QED
      BY <2>1, <2>2
  <1>. QED
    BY <1>3, <1>4, <1>5, <1>7, <1>8 DEF Versioned, Keeps

-----------------------------------------------------------------------------
(* The empty quiz satisfies the invariant.                                 *)
LEMMA InitInv == QuestionsInit => Inv
  BY DEF QuestionsInit, Inv, Versioned, TableType, NoGaps, LastIsCurrent, EditorsType,
         PinsType, Pending, NoRequest

(* Steps that neither load nor write a question.                            *)
LEMMA QuietStep ==
    ASSUME Inv, UNCHANGED <<rows, pins, editor>>
    PROVE  Inv' /\ Keeps(rows, rows')
  BY DEF Inv, Versioned, TableType, NoGaps, LastIsCurrent, EditorsType, PinsType, Keeps

(* Steps that write well-kept rows and at most finish a request.            *)
LEMMA WritingStep ==
    ASSUME Inv, Versioned(rows'), Keeps(rows, rows'), UNCHANGED pins,
           \/ UNCHANGED editor
           \/ \E e \in Editors : editor' = [editor EXCEPT ![e] = NoRequest]
    PROVE  Inv' /\ Keeps(rows, rows')
  <1>1. PinsType'
    BY DEF Inv, PinsType, Keeps
  <1>2. EditorsType'
    <2>1. CASE UNCHANGED editor
      BY <2>1 DEF Inv, EditorsType, Keeps
    <2>2. ASSUME NEW e \in Editors, editor' = [editor EXCEPT ![e] = NoRequest]
          PROVE  EditorsType'
      BY <2>2 DEF Inv, EditorsType, Keeps, Pending, NoRequest
    <2>. QED
      BY <2>1, <2>2
  <1>. QED
    BY <1>1, <1>2 DEF Inv

(* A request writes the successor of the row it loaded, or is refused.      *)
LEMMA WriteVersionStep ==
    ASSUME Inv, NEW e \in Editors, editor[e].op # "none", WriteVersion(e)
    PROVE  Inv' /\ Keeps(rows, rows')
  <1>1. PICK q \in Questions, v \in 1..MaxVersion : editor[e].key = <<q, v>>
    BY DEF Inv, EditorsType, Versioned, TableType, Keys
  <1>2. /\ <<q, v>> \in DOMAIN rows /\ <<q, v + 1>> \in Keys
        /\ rows' = IF <<q, v + 1>> \in DOMAIN rows THEN rows
                   ELSE Superseding(rows, <<q, v>>, "edited")
        /\ editor' = [editor EXCEPT ![e] = NoRequest]
        /\ UNCHANGED pins
    BY <1>1 DEF WriteVersion, NextVersion, Inv, EditorsType
  <1>3. Versioned(rows') /\ Keeps(rows, rows')
    <2>1. CASE <<q, v + 1>> \in DOMAIN rows
      BY <1>2, <2>1 DEF Inv, Keeps
    <2>2. CASE <<q, v + 1>> \notin DOMAIN rows
      BY <1>2, <2>2, SupersedingKeeps DEF Inv, Contents
    <2>. QED
      BY <2>1, <2>2
  <1>. QED
    BY <1>2, <1>3, WritingStep

(* Every step of a teacher's request or of a starting attempt.              *)
LEMMA AuthoringStep ==
    ASSUME Inv, AuthoringNext
    PROVE  Inv' /\ Keeps(rows, rows')
  <1>1. CASE OpenQuiz \/ Publish \/ Unpublish
    BY <1>1, QuietStep DEF OpenQuiz, Publish, Unpublish
  <1>2. CASE CreateQuestion
    <2>1. Fresh(rows) \in Unused(rows)
      BY <1>2, FreshUnused DEF CreateQuestion
    <2>2. Versioned(rows') /\ Keeps(rows, rows')
      BY <1>2, <2>1, InsertFresh DEF CreateQuestion, Inv, Contents
    <2>. QED
      BY <1>2, <2>2, WritingStep DEF CreateQuestion
  <1>3. ASSUME NEW e \in Editors, NEW op \in {"edit", "regenerate", "delete"},
               NEW key \in Keys, LoadQuestion(e, op, key)
        PROVE  Inv' /\ Keeps(rows, rows')
    <2>1. [op |-> op, key |-> key] \in Pending /\ key \in DOMAIN rows
      BY <1>3 DEF LoadQuestion, Pending, Current
    <2>2. EditorsType'
      BY <1>3, <2>1 DEF LoadQuestion, Inv, EditorsType
    <2>. QED
      BY <1>3, <2>2 DEF LoadQuestion, Inv, Versioned, TableType, NoGaps, LastIsCurrent,
                        PinsType, Keeps
  <1>4. ASSUME NEW e \in Editors, UpdateQuestion(e) \/ RegenerateQuestion(e)
        PROVE  Inv' /\ Keeps(rows, rows')
    BY <1>4, WriteVersionStep DEF UpdateQuestion, RegenerateQuestion
  <1>5. ASSUME NEW e \in Editors, RegenerateFails(e)
        PROVE  Inv' /\ Keeps(rows, rows')
    <2>1. Versioned(rows') /\ Keeps(rows, rows')
      BY <1>5 DEF RegenerateFails, Inv, Keeps
    <2>. QED
      BY <1>5, <2>1, WritingStep DEF RegenerateFails
  <1>6. ASSUME NEW e \in Editors, DeleteQuestion(e)
        PROVE  Inv' /\ Keeps(rows, rows')
    <2>1. Versioned(rows') /\ Keeps(rows, rows')
      BY <1>6, RetireKeeps DEF DeleteQuestion, Inv
    <2>. QED
      BY <1>6, <2>1, WritingStep DEF DeleteQuestion
  <1>7. ASSUME NEW a \in Sittings, PinQuestions(a)
        PROVE  Inv' /\ Keeps(rows, rows')
    <2>1. Current(rows) \subseteq DOMAIN rows /\ DOMAIN rows \subseteq Keys
      BY DEF Current, Inv, Versioned, TableType
    <2>2. PinsType'
      BY <1>7, <2>1 DEF PinQuestions, Inv, PinsType
    <2>. QED
      BY <1>7, <2>2 DEF PinQuestions, Inv, Versioned, TableType, NoGaps, LastIsCurrent,
                        EditorsType, Keeps
  <1>. QED
    BY <1>1, <1>2, <1>3, <1>4, <1>5, <1>6, <1>7 DEF AuthoringNext, EditorNext

(* Every step of a generation: only its commit touches the questions.       *)
LEMMA GenerationStep ==
    ASSUME Inv, NEW l \in QLaunches, GenerateStep(l)
    PROVE  Inv' /\ Keeps(rows, rows')
  <1>1. CASE QuizCommit(l)
    <2>1. Fresh(rows) \in Unused(rows)
      BY <1>1, FreshUnused DEF QuizCommit
    <2>2. Versioned(rows') /\ Keeps(rows, rows')
      BY <1>1, <2>1, ReplacingKeeps DEF QuizCommit, Inv
    <2>. QED
      BY <1>1, <2>2, WritingStep DEF QuizCommit
  <1>2. CASE \/ QuizClick(l) \/ QuizBill(l) \/ QuizEnqueue(l) \/ QuizUnqueue(l)
             \/ QuizSaveTask(l) \/ QuizEndpointDies(l)
    <2>1. UNCHANGED <<rows, pins, editor>>
      BY <1>2 DEF QuizClick, QuizBill, QuizEnqueue, QuizUnqueue, QuizSaveTask,
                  QuizEndpointDies, questionVars
    <2>. QED
      BY <2>1, QuietStep
  <1>3. CASE \/ QuizStart(l) \/ QuizRetires(l) \/ QuizCharges(l) \/ QuizFails(l)
             \/ QuizFailUnlocks(l) \/ QuizRefunds(l) \/ QuizEnds(l) \/ QuizWorkerDies(l)
    <2>1. UNCHANGED <<rows, pins, editor>>
      BY <1>3 DEF QuizStart, QuizRetires, QuizCharges, QuizFails, QuizFailUnlocks,
                  QuizRefunds, QuizEnds, QuizWorkerDies, questionVars
    <2>. QED
      BY <2>1, QuietStep
  <1>. QED
    BY <1>1, <1>2, <1>3 DEF GenerateStep

(* Every step keeps the invariant and every version a question has had.    *)
LEMMA InvStep ==
    ASSUME Inv, [QuizNext]_quizVars
    PROVE  Inv' /\ Keeps(rows, rows')
  <1>1. CASE GenerateNext
    BY <1>1, GenerationStep DEF GenerateNext
  <1>2. CASE AuthoringNext
    BY <1>2, AuthoringStep
  <1>3. CASE UNCHANGED quizVars
    BY <1>3, QuietStep DEF quizVars, questionVars
  <1>. QED
    BY <1>1, <1>2, <1>3 DEF QuizNext

(* The versions, editors and pins are in order for ever.                   *)
LEMMA InvHolds == QuizSpec => []Inv
  <1>1. Inv /\ [QuizNext]_quizVars => Inv'
    BY InvStep
  <1>. QED
    BY InitInv, <1>1, PTL DEF QuizSpec

(* Rows in order have one current version per question.                    *)
LEMMA InvUnique == Inv => OneCurrentVersion
  <1> SUFFICES ASSUME Inv, NEW k1 \in Current(rows), NEW k2 \in Current(rows),
                      k1[1] = k2[1]
               PROVE  k1 = k2
    BY DEF OneCurrentVersion
  <1>1. /\ k1 \in DOMAIN rows /\ rows[k1].live /\ k2 \in DOMAIN rows /\ rows[k2].live
        /\ DOMAIN rows \subseteq Keys
    BY DEF Current, Inv, Versioned, TableType
  <1>2. PICK q \in Questions, v \in 1..MaxVersion, w \in 1..MaxVersion :
            k1 = <<q, v>> /\ k2 = <<q, w>>
    BY <1>1 DEF Keys
  <1>3. w <= v /\ v <= w
    BY <1>1, <1>2 DEF Inv, Versioned, LastIsCurrent
  <1>. QED
    BY <1>2, <1>3

(* However edits, regenerations, deletions and generations overlap, a       *)
(* question never has two current versions (quiz_service.py,                *)
(* supersede_with_new_version and replace_questions_sync), for every number *)
(* of questions, requests and launches.                                     *)
THEOREM CurrentVersionUnique == QuizSpec => []OneCurrentVersion
  BY InvHolds, InvUnique, PTL

(* A step keeps what an attempt pinned, with its content.                   *)
LEMMA PinsResolved ==
    ASSUME Inv, [QuizNext]_quizVars, NEW a \in Sittings
    PROVE  /\ ~BrokenSnapshot(rows', pins[a])
           /\ Resolved(rows', pins[a]) = Resolved(rows, pins[a])
<1>1. Keeps(rows, rows') /\ pins[a] \subseteq DOMAIN rows
  BY InvStep DEF Inv, PinsType
<1> QED BY <1>1 DEF Keeps, BrokenSnapshot, Resolved

(* What an attempt pinned can always be resolved, to the same content, for  *)
(* every number of attempts and whatever the teachers and the generator do  *)
(* (quiz_service.py, resolve_snapshot).                                     *)
THEOREM PinnedRowsStay == QuizSpec => SnapshotsResolve
<1>1. Inv /\ [QuizNext]_quizVars =>
         [\A a \in Sittings :
             /\ ~BrokenSnapshot(rows', pins[a])
             /\ Resolved(rows', pins[a]) = Resolved(rows, pins[a])]_questionVars
  BY PinsResolved
<1> QED BY InvHolds, <1>1, PTL DEF QuizSpec, SnapshotsResolve

-----------------------------------------------------------------------------
(* The bill of a generation.  The states of its hold: set aside by the      *)
(* request, and finalized by the task.                                      *)
HeldRow(row) ==
    /\ row.reserves = 1 /\ row.finals = 0
    /\ row.held = QEstimate /\ row.charged = 0 /\ row.released = 0
SettledRow(row) == row.finals > 0 /\ row.held = row.charged + row.released

AskedType == asked \in [QLaunches -> Asked] /\ job \in [QLaunches -> Job]
LockType == quizRow \in QuizRow(QLaunches \cup {NoId})

(* The request before and after its task exists.                            *)
Requested(l) ==
    /\ asked[l].pc \in {"idle", "checked"} => asked[l].via = "none"
    /\ asked[l].pc \in {"idle", "checked", "billed", "refused"} => job[l].pc = "none"
    /\ job[l].pc = "none" => l \notin made /\ ~job[l].disturbed
    /\ job[l].pc \in {"stored", "announcing"} => l \in made
    /\ asked[l].via # "credits" => ledger[l] = NoRows
    /\ asked[l].via = "credits" => opened
    /\ asked[l].via = "credits" /\ asked[l].pc = "billed" => HeldRow(ledger[l])

(* The task owns the hold until it settles.  A run no worker died in        *)
(* settles before it can fail late, so its questions decide the charge;     *)
(* after a crash the hold may be settled at any point of the next run.      *)
JobHolds(l) ==
    /\ HeldRow(ledger[l])
    /\ job[l].pc \notin {"announcing", "ended"}
    /\ l \in made /\ ~job[l].disturbed => job[l].pc = "stored"
JobSettled(l) ==
    /\ SettledRow(ledger[l])
    /\ ledger[l].charged > 0 => l \in made
    /\ ~job[l].disturbed =>
          /\ job[l].pc \in {"announcing", "failing", "refunding", "ended"}
          /\ l \in made => ledger[l].charged = QEstimate
Billed(l) ==
    asked[l].via = "credits" /\ job[l].pc # "none" => JobHolds(l) \/ JobSettled(l)

BillInv ==
    /\ AskedType /\ LedgerType /\ made \subseteq QLaunches
    /\ \A l \in QLaunches : Requested(l) /\ Billed(l)

(* What a step of launch l leaves of the others.                            *)
OthersKept(l) ==
    \A k \in QLaunches \ {l} :
        /\ asked'[k] = asked[k] /\ job'[k] = job[k] /\ ledger'[k] = ledger[k]
        /\ k \in made' <=> k \in made

(* The invariant of the other launches is kept if an account stays open.    *)
LEMMA OthersBilled ==
    ASSUME BillInv, NEW l \in QLaunches, OthersKept(l), opened' = opened,
           AskedType', LedgerType', made' \subseteq QLaunches,
           Requested(l)', Billed(l)'
    PROVE  BillInv'
<1> SUFFICES ASSUME NEW k \in QLaunches, k # l PROVE Requested(k)' /\ Billed(k)'
  BY DEF BillInv
<1>1. /\ asked'[k] = asked[k] /\ job'[k] = job[k] /\ ledger'[k] = ledger[k]
      /\ k \in made' <=> k \in made
  BY DEF OthersKept
<1>2. Requested(k) /\ Billed(k)
  BY DEF BillInv
<1>3. Requested(k)'
  BY <1>1, <1>2 DEF Requested
<1>4. Billed(k)'
  BY <1>1, <1>2 DEF Billed, JobHolds, JobSettled
<1> QED BY <1>3, <1>4

(* generate_quiz up to the task: the trial slot or the hold is taken once,  *)
(* and given back when the broker refuses.                                  *)
LEMMA RequestBilled ==
    ASSUME BillInv, NEW l \in QLaunches,
           \/ QuizClick(l) \/ QuizBill(l) \/ QuizEnqueue(l) \/ QuizUnqueue(l)
           \/ QuizSaveTask(l) \/ QuizEndpointDies(l)
    PROVE  BillInv'
<1>0. /\ AskedType /\ LedgerType /\ made \subseteq QLaunches
      /\ Requested(l) /\ Billed(l) /\ l \in Refs /\ QEstimate \in Nat
      /\ asked[l] \in Asked /\ job[l] \in Job
  BY QuizLaunchAssumption DEF BillInv, AskedType
<1>1. CASE QuizClick(l)
  <2>1. /\ asked' = [asked EXCEPT ![l] = asked'[l]] /\ asked'[l] \in Asked
        /\ asked[l].pc = "idle" /\ asked'[l].pc = "checked" /\ asked'[l].via = "none"
        /\ UNCHANGED <<ledgerVars, job, made>>
    BY <1>0, <1>1 DEF QuizClick, AskedType, Asked
  <2>2. OthersKept(l) /\ AskedType' /\ LedgerType'
    BY <1>0, <2>1 DEF OthersKept, AskedType, LedgerType, ledgerVars
  <2>3. Requested(l)' /\ Billed(l)'
    BY <1>0, <2>1 DEF Requested, Billed, ledgerVars
  <2> QED BY <1>0, <2>1, <2>2, <2>3, OthersBilled DEF ledgerVars
<1>2. CASE QuizBill(l)
  <2>0. asked[l].pc = "checked" /\ asked[l].via = "none" /\ ledger[l] = NoRows
        /\ job[l].pc = "none" /\ UNCHANGED <<job, made>>
    BY <1>0, <1>2 DEF QuizBill, Requested
  <2>1. CASE asked' = [asked EXCEPT ![l].pc = "billed", ![l].via = "trial"]
             /\ UNCHANGED ledgerVars
    <3>1. /\ asked' = [asked EXCEPT ![l] = asked'[l]] /\ asked'[l] \in Asked
          /\ asked'[l].pc = "billed" /\ asked'[l].via = "trial"
      BY <1>0, <2>1 DEF AskedType, Asked
    <3>2. OthersKept(l) /\ AskedType' /\ LedgerType'
      BY <1>0, <2>0, <2>1, <3>1 DEF OthersKept, AskedType, LedgerType, ledgerVars
    <3>3. Requested(l)' /\ Billed(l)'
      BY <1>0, <2>0, <2>1, <3>1 DEF Requested, Billed, ledgerVars
    <3> QED BY <1>0, <2>0, <2>1, <3>2, <3>3, OthersBilled DEF ledgerVars
  <2>2. CASE asked' = [asked EXCEPT ![l].pc = "billed", ![l].via = "credits"]
             /\ ReserveCredits(l, QEstimate)
    <3>1. /\ asked' = [asked EXCEPT ![l] = asked'[l]] /\ asked'[l] \in Asked
          /\ asked'[l].pc = "billed" /\ asked'[l].via = "credits"
      BY <1>0, <2>2 DEF AskedType, Asked
    <3> DEFINE next == Reserving(ledger[l], QEstimate)
    <3>2. /\ NoRows \in Row /\ NoRows.reserves = 0 /\ NoRows.finals = 0
          /\ NoRows.held = 0 /\ NoRows.charged = 0 /\ NoRows.released = 0
      BY DEF NoRows, Row
    <3>3. next = Reserving(NoRows, QEstimate)
      BY <2>0
    <3>3a. next \in Row /\ HeldRow(next)
      <4>1. /\ next \in Row /\ next.reserves = 1 /\ next.finals = 0
            /\ next.held = QEstimate /\ next.charged = 0 /\ next.released = 0
        <5>1. /\ Reserving(NoRows, QEstimate) \in Row
              /\ Reserving(NoRows, QEstimate).reserves = NoRows.reserves + 1
              /\ Reserving(NoRows, QEstimate).finals = NoRows.finals
              /\ Reserving(NoRows, QEstimate).held = NoRows.held + QEstimate
              /\ Reserving(NoRows, QEstimate).charged = NoRows.charged
              /\ Reserving(NoRows, QEstimate).released = NoRows.released
          BY <1>0, <3>2, ReservingRow
        <5> HIDE DEF next
        <5> QED BY <1>0, <3>2, <3>3, <5>1
      <4> HIDE DEF next
      <4> QED BY <4>1 DEF HeldRow
    <3>4. ledger' = [ledger EXCEPT ![l] = next] /\ opened /\ opened' = opened
      BY <2>2 DEF ReserveCredits, CanReserve
    <3>5. LedgerType'
      BY <1>0, <2>2, ReserveType
    <3> HIDE DEF next
    <3>6. ledger'[l] = next /\ OthersKept(l) /\ AskedType'
      BY <1>0, <2>0, <3>1, <3>4 DEF OthersKept, AskedType, LedgerType
    <3>7. Requested(l)' /\ Billed(l)'
      BY <1>0, <2>0, <3>1, <3>3a, <3>4, <3>6 DEF Requested, Billed
    <3> QED BY <1>0, <2>0, <3>4, <3>5, <3>6, <3>7, OthersBilled
  <2>3. CASE asked' = [asked EXCEPT ![l].pc = "refused"] /\ UNCHANGED ledgerVars
    <3>1. /\ asked' = [asked EXCEPT ![l] = asked'[l]] /\ asked'[l] \in Asked
          /\ asked'[l].pc = "refused" /\ asked'[l].via = "none"
      BY <1>0, <2>0, <2>3 DEF AskedType, Asked
    <3>2. OthersKept(l) /\ AskedType' /\ LedgerType'
      BY <1>0, <2>0, <2>3, <3>1 DEF OthersKept, AskedType, LedgerType, ledgerVars
    <3>3. Requested(l)' /\ Billed(l)'
      BY <1>0, <2>0, <2>3, <3>1 DEF Requested, Billed, ledgerVars
    <3> QED BY <1>0, <2>0, <2>3, <3>2, <3>3, OthersBilled DEF ledgerVars
  <2> QED BY <1>2, <2>1, <2>2, <2>3 DEF QuizBill
<1>3. CASE QuizEnqueue(l)
  <2>1. /\ asked' = [asked EXCEPT ![l] = asked'[l]] /\ asked'[l] \in Asked
        /\ asked[l].pc = "billed" /\ asked'[l].pc = "sent"
        /\ asked'[l].via = asked[l].via
        /\ job' = [job EXCEPT ![l] = job'[l]] /\ job'[l] \in Job
        /\ job'[l].pc = "queued" /\ job'[l].disturbed = job[l].disturbed
        /\ UNCHANGED <<ledgerVars, made>>
    BY <1>0, <1>3 DEF QuizEnqueue, AskedType, Asked, Job
  <2>2. OthersKept(l) /\ AskedType' /\ LedgerType'
    BY <1>0, <2>1 DEF OthersKept, AskedType, LedgerType, ledgerVars
  <2>3. Requested(l)' /\ Billed(l)'
    BY <1>0, <2>1 DEF Requested, Billed, JobHolds, ledgerVars
  <2> QED BY <1>0, <2>1, <2>2, <2>3, OthersBilled DEF ledgerVars
<1>4. CASE QuizUnqueue(l)
  <2>1. /\ asked' = [asked EXCEPT ![l] = asked'[l]] /\ asked'[l] \in Asked
        /\ asked[l].pc = "billed" /\ asked'[l].pc = "refused"
        /\ asked'[l].via = asked[l].via
        /\ UNCHANGED <<job, made>>
    BY <1>0, <1>4 DEF QuizUnqueue, AskedType, Asked
  <2>2. /\ LedgerType' /\ opened' = opened
        /\ \A k \in QLaunches \ {l} : ledger'[k] = ledger[k]
        /\ asked[l].via # "credits" => ledger' = ledger
    <3>1. CASE asked[l].via = "credits" /\ ReleaseCredits(l, QEstimate)
      BY <1>0, <3>1, ReleaseType, QuizLaunchAssumption DEF ReleaseCredits, LedgerType
    <3>2. CASE asked[l].via # "credits" /\ UNCHANGED ledgerVars
      BY <1>0, <3>2 DEF LedgerType, ledgerVars
    <3> QED BY <1>4, <3>1, <3>2 DEF QuizUnqueue
  <2>3. OthersKept(l) /\ AskedType'
    BY <1>0, <2>1, <2>2 DEF OthersKept, AskedType
  <2>4. Requested(l)' /\ Billed(l)'
    BY <1>0, <2>1, <2>2 DEF Requested, Billed
  <2> QED BY <1>0, <2>1, <2>2, <2>3, <2>4, OthersBilled
<1>5. CASE QuizSaveTask(l) \/ QuizEndpointDies(l)
  <2>1. /\ asked' = [asked EXCEPT ![l] = asked'[l]] /\ asked'[l] \in Asked
        /\ asked'[l].pc \in {"answered", "dead"} /\ asked'[l].via = asked[l].via
        /\ UNCHANGED <<ledgerVars, job, made>>
    BY <1>0, <1>5 DEF QuizSaveTask, QuizEndpointDies, AskedType, Asked
  <2>2. OthersKept(l) /\ AskedType' /\ LedgerType'
    BY <1>0, <2>1 DEF OthersKept, AskedType, LedgerType, ledgerVars
  <2>3. Requested(l)' /\ Billed(l)'
    BY <1>0, <2>1 DEF Requested, Billed, JobHolds, JobSettled, ledgerVars
  <2> QED BY <1>0, <2>1, <2>2, <2>3, OthersBilled DEF ledgerVars
<1> QED BY <1>1, <1>2, <1>3, <1>4, <1>5

(* _settle: an open hold is finalized, any other bill is left alone.        *)
LEMMA SettleEffect ==
    ASSUME LedgerType, NEW l \in QLaunches, NEW success \in BOOLEAN,
           asked[l].via = "credits" => opened,
           QuizSettled(l, success)
    PROVE  /\ LedgerType' /\ opened' = opened
           /\ \A k \in QLaunches \ {l} : ledger'[k] = ledger[k]
           /\ asked[l].via # "credits" \/ ledger[l].finals # 0 => ledger' = ledger
           /\ asked[l].via = "credits" /\ HeldRow(ledger[l]) =>
                 /\ SettledRow(ledger'[l])
                 /\ ledger'[l].charged = IF success THEN QEstimate ELSE 0
<1>0. l \in Refs /\ QEstimate \in Nat /\ ledger[l] \in Row
  BY QuizLaunchAssumption DEF LedgerType
<1> DEFINE wanted == IF success THEN QEstimate ELSE 0
<1>1. CASE asked[l].via = "credits" /\ CanFinalize(l)
           /\ FinalizeGeneration(l, QEstimate, wanted)
  <2>1. wanted \in Nat /\ wanted <= QEstimate
    BY <1>0
  <2>2. Least(NonNeg(wanted), QEstimate) = wanted
    BY <1>0, <2>1 DEF Least, NonNeg
  <2> DEFINE next == Finalizing(ledger[l], QEstimate, wanted)
  <2>3. ledger' = [ledger EXCEPT ![l] = next] /\ opened' = opened
    BY <1>1, <2>2 DEF FinalizeGeneration
  <2>4. LedgerType'
    <3> HIDE DEF wanted
    <3> QED BY <1>0, <1>1, <2>1, FinalizeType
  <2>5. /\ next.finals > ledger[l].finals /\ next.held = ledger[l].held
        /\ next.charged = ledger[l].charged + wanted
        /\ next.released = ledger[l].released + (QEstimate - wanted)
    <3> HIDE DEF wanted
    <3> QED BY <1>0, <2>1, FinalizingRow
  <2> HIDE DEF next
  <2>6. ledger'[l] = next /\ \A k \in QLaunches \ {l} : ledger'[k] = ledger[k]
    BY <1>0, <2>3, QuizLaunchAssumption DEF LedgerType
  <2>7. ASSUME HeldRow(ledger[l])
        PROVE  SettledRow(next) /\ next.charged = wanted
    <3> HIDE DEF wanted
    <3> QED BY <1>0, <2>1, <2>5, <2>7, RowColumns DEF HeldRow, SettledRow
  <2>8. ledger[l].finals = 0
    BY <1>1 DEF CanFinalize
  <2> QED BY <1>1, <2>3, <2>4, <2>6, <2>7, <2>8
<1>2. CASE ~(asked[l].via = "credits" /\ CanFinalize(l)) /\ UNCHANGED ledgerVars
  <2>1. LedgerType' /\ opened' = opened /\ ledger' = ledger
    BY <1>2 DEF LedgerType, ledgerVars
  <2>2. ~(asked[l].via = "credits" /\ HeldRow(ledger[l]))
    BY <1>2 DEF CanFinalize, HeldRow
  <2> QED BY <2>1, <2>2
<1> QED BY <1>1, <1>2 DEF QuizSettled

(* A step of a task keeps the types, and moves only its own record.         *)
LEMMA JobKept ==
    ASSUME Inv, AskedType, LockType, NEW l \in QLaunches,
           \/ QuizStart(l) \/ QuizRetires(l) \/ QuizCommit(l) \/ QuizCharges(l)
           \/ QuizFails(l) \/ QuizFailUnlocks(l) \/ QuizRefunds(l) \/ QuizEnds(l)
           \/ QuizWorkerDies(l)
    PROVE  /\ AskedType' /\ asked' = asked
           /\ \A k \in QLaunches \ {l} : job'[k] = job[k]
<1>0. /\ job[l] \in Job /\ quizRow.task \in QLaunches \cup {NoId}
      /\ Current(rows) \subseteq Keys /\ NoJob \in Job
  BY DEF AskedType, LockType, QuizRow, Current, Inv, Versioned, TableType, Job, NoJob
<1>1. /\ asked' = asked
      /\ \E next \in Job : job' = [job EXCEPT ![l] = next]
  <2>1. CASE QuizStart(l)
    <3>1. [job[l] EXCEPT !.pc = "generating", !.seen = quizRow.task] \in Job
      BY <1>0 DEF Job
    <3>2. job' = [job EXCEPT ![l] = [job[l] EXCEPT !.pc = "generating", !.seen = quizRow.task]]
      BY <2>1 DEF QuizStart, AskedType
    <3> QED BY <2>1, <3>1, <3>2 DEF QuizStart
  <2>2. CASE QuizRetires(l)
    <3>1. [job[l] EXCEPT !.pc = "persisting", !.targets = Current(rows)] \in Job
      BY <1>0 DEF Job
    <3>2. job' = [job EXCEPT ![l] = [job[l] EXCEPT !.pc = "persisting", !.targets = Current(rows)]]
      BY <2>2 DEF QuizRetires, AskedType
    <3> QED BY <2>2, <3>1, <3>2 DEF QuizRetires
  <2>3. CASE QuizWorkerDies(l)
    <3>1. [NoJob EXCEPT !.pc = "queued", !.disturbed = TRUE] \in Job
      BY <1>0 DEF Job
    <3> QED BY <2>3, <3>1 DEF QuizWorkerDies
  <2>4. CASE \E pc \in {"stored", "announcing", "failing", "refunding", "ended"} :
               Goes(l, pc) /\ asked' = asked
    <3>1. PICK pc \in {"stored", "announcing", "failing", "refunding", "ended"} :
               Goes(l, pc) /\ asked' = asked
      BY <2>4
    <3>2. [job[l] EXCEPT !.pc = pc] \in Job
      BY <1>0 DEF Job
    <3>3. job' = [job EXCEPT ![l] = [job[l] EXCEPT !.pc = pc]]
      BY <3>1 DEF Goes
    <3> QED BY <3>1, <3>2, <3>3
  <2> QED BY <2>1, <2>2, <2>3, <2>4 DEF QuizCommit, QuizCharges, QuizFails,
                                       QuizFailUnlocks, QuizRefunds, QuizEnds
<1> QED BY <1>1 DEF AskedType

(* generate_quiz_task, its failures, its end and its death.                 *)
LEMMA JobBilled ==
    ASSUME Inv, LockType, BillInv, NEW l \in QLaunches,
           \/ QuizStart(l) \/ QuizRetires(l) \/ QuizCommit(l) \/ QuizCharges(l)
           \/ QuizFails(l) \/ QuizFailUnlocks(l) \/ QuizRefunds(l) \/ QuizEnds(l)
           \/ QuizWorkerDies(l)
    PROVE  BillInv'
<1>0. /\ AskedType /\ LedgerType /\ made \subseteq QLaunches
      /\ Requested(l) /\ Billed(l) /\ QEstimate \in Nat
      /\ asked[l] \in Asked /\ job[l] \in Job /\ ledger[l] \in Row
  BY QuizLaunchAssumption DEF BillInv, AskedType, LedgerType
<1>k. /\ AskedType' /\ asked' = asked
      /\ \A k \in QLaunches \ {l} : job'[k] = job[k]
  BY <1>0, JobKept
<1>1. CASE QuizStart(l) \/ QuizRetires(l) \/ QuizFails(l) \/ QuizFailUnlocks(l) \/ QuizEnds(l)
  <2>1. /\ job[l].pc # "none" /\ job'[l].disturbed = job[l].disturbed
        /\ \/ job[l].pc = "queued" /\ job'[l].pc = "generating"
           \/ job[l].pc = "generating" /\ job'[l].pc \in {"persisting", "failing"}
           \/ job[l].pc = "persisting" /\ job'[l].pc = "failing"
           \/ job[l].pc = "failing" /\ job'[l].pc = "refunding"
           \/ job[l].pc = "announcing" /\ job'[l].pc \in {"failing", "ended"}
        /\ UNCHANGED <<ledgerVars, made>>
    BY <1>0, <1>1 DEF QuizStart, QuizRetires, QuizFails, QuizFailUnlocks, QuizEnds, Goes,
                      AskedType, Job
  <2>3. OthersKept(l) /\ LedgerType'
    BY <1>0, <1>k, <2>1 DEF OthersKept, LedgerType, ledgerVars
  <2>4. Requested(l)'
    BY <1>0, <1>k, <2>1 DEF Requested, ledgerVars
  <2>5. Billed(l)'
    BY <1>0, <1>k, <2>1 DEF Billed, JobHolds, JobSettled, ledgerVars
  <2> QED BY <1>0, <1>k, <2>1, <2>3, <2>4, <2>5, OthersBilled DEF ledgerVars
<1>2. CASE QuizWorkerDies(l)
  <2>1. /\ job[l].pc # "none" /\ job'[l].pc = "queued" /\ job'[l].disturbed
        /\ UNCHANGED <<ledgerVars, made>>
        /\ job[l].pc # "ended" \/ job[l].pc = "ended"
    BY <1>0, <1>2 DEF QuizWorkerDies, AskedType, Job, NoJob
  <2>3. OthersKept(l) /\ LedgerType'
    BY <1>0, <1>k, <2>1 DEF OthersKept, LedgerType, ledgerVars
  <2>4. Requested(l)'
    BY <1>0, <1>k, <2>1 DEF Requested, ledgerVars
  <2>5. Billed(l)'
    BY <1>0, <1>k, <2>1 DEF Billed, JobHolds, JobSettled, ledgerVars
  <2> QED BY <1>0, <1>k, <2>1, <2>3, <2>4, <2>5, OthersBilled DEF ledgerVars
<1>3. CASE QuizCommit(l)
  <2>1. /\ job[l].pc = "persisting" /\ job'[l].pc = "stored"
        /\ job'[l].disturbed = job[l].disturbed
        /\ UNCHANGED ledgerVars /\ made' = made \cup {l}
    BY <1>0, <1>3 DEF QuizCommit, Goes, AskedType, Job
  <2>3. OthersKept(l) /\ LedgerType'
    BY <1>0, <1>k, <2>1 DEF OthersKept, LedgerType, ledgerVars
  <2>4. Requested(l)'
    BY <1>0, <1>k, <2>1 DEF Requested, ledgerVars
  <2>5. Billed(l)'
    BY <1>0, <1>k, <2>1 DEF Billed, JobHolds, JobSettled, ledgerVars
  <2> QED BY <1>0, <1>k, <2>1, <2>3, <2>4, <2>5, OthersBilled DEF ledgerVars
<1>4. CASE QuizCharges(l) \/ QuizRefunds(l)
  <2>1. PICK success \in BOOLEAN :
          /\ QuizSettled(l, success) /\ made' = made
          /\ job'[l].disturbed = job[l].disturbed
          /\ \/ success /\ job[l].pc = "stored" /\ job'[l].pc = "announcing"
             \/ ~success /\ job[l].pc = "refunding" /\ job'[l].pc = "ended"
    <3>1. CASE QuizCharges(l)
      <4>1. /\ QuizSettled(l, TRUE) /\ made' = made
            /\ job[l].pc = "stored" /\ job'[l].pc = "announcing"
            /\ job'[l].disturbed = job[l].disturbed
        BY <1>0, <3>1 DEF QuizCharges, Goes, AskedType, Job
      <4> QED BY <4>1
    <3>2. CASE QuizRefunds(l)
      <4>1. /\ QuizSettled(l, FALSE) /\ made' = made
            /\ job[l].pc = "refunding" /\ job'[l].pc = "ended"
            /\ job'[l].disturbed = job[l].disturbed
        BY <1>0, <3>2 DEF QuizRefunds, Goes, AskedType, Job
      <4> QED BY <4>1
    <3> QED BY <1>4, <3>1, <3>2
  <2>2. /\ LedgerType' /\ opened' = opened
        /\ \A k \in QLaunches \ {l} : ledger'[k] = ledger[k]
        /\ asked[l].via # "credits" \/ ledger[l].finals # 0 => ledger' = ledger
        /\ asked[l].via = "credits" /\ HeldRow(ledger[l]) =>
              /\ SettledRow(ledger'[l])
              /\ ledger'[l].charged = IF success THEN QEstimate ELSE 0
    BY <1>0, <2>1, SettleEffect DEF Requested
  <2>3. OthersKept(l)
    BY <1>0, <1>k, <2>1, <2>2 DEF OthersKept
  <2>4. Requested(l)'
    BY <1>0, <1>k, <2>1, <2>2 DEF Requested
  <2>5. ASSUME asked[l].via = "credits" PROVE JobSettled(l)'
    <3>1. CASE JobHolds(l)
      <4>1. /\ SettledRow(ledger'[l])
            /\ ledger'[l].charged = IF success THEN QEstimate ELSE 0
        BY <2>2, <2>5, <3>1 DEF JobHolds
      <4> QED BY <1>0, <2>1, <3>1, <4>1 DEF JobHolds, JobSettled, Requested
    <3>2. CASE JobSettled(l)
      <4>1. ledger' = ledger
        BY <1>0, <2>2, <3>2 DEF JobSettled, SettledRow
      <4> QED BY <1>0, <2>1, <3>2, <4>1 DEF JobSettled
    <3> QED BY <1>0, <2>1, <2>5, <3>1, <3>2 DEF Billed
  <2>6. Billed(l)'
    BY <1>k, <2>5 DEF Billed
  <2> QED BY <1>0, <1>k, <2>1, <2>2, <2>3, <2>4, <2>6, OthersBilled
<1> QED BY <1>1, <1>2, <1>3, <1>4

(* Teachers' requests, attempts and generations keep the type of the quiz   *)
(* row: its lock is a launch's id or free.                                  *)
LEMMA LockStep ==
    ASSUME LockType, [QuizNext]_quizVars
    PROVE  LockType'
<1>0. quizRow \in [exists : BOOLEAN, status : {"draft", "published"},
                  task : QLaunches \cup {NoId}]
  BY DEF LockType, QuizRow
<1>1. CASE UNCHANGED quizVars
  BY <1>1 DEF quizVars, questionVars, LockType
<1>2. ASSUME NEW l \in QLaunches, GenerateStep(l)
      PROVE  LockType'
  <2>1. CASE QuizClick(l) \/ QuizStart(l) \/ QuizSaveTask(l) \/ QuizFailUnlocks(l)
    BY <1>0, <2>1 DEF QuizClick, QuizStart, QuizSaveTask, QuizFailUnlocks, Unlocked,
                      EnsureQuiz, LockType, QuizRow
  <2>2. CASE QuizCommit(l)
    BY <1>0, <2>2 DEF QuizCommit, Unlocked, LockType, QuizRow
  <2>3. CASE UNCHANGED quizRow
    BY <2>3 DEF LockType
  <2> QED BY <1>2, <2>1, <2>2, <2>3
          DEF GenerateStep, QuizBill, QuizEnqueue, QuizUnqueue, QuizEndpointDies,
              QuizRetires, QuizCharges, QuizFails, QuizRefunds, QuizEnds, QuizWorkerDies,
              questionVars
<1>3. CASE AuthoringNext
  <2>1. CASE OpenQuiz \/ Publish \/ Unpublish \/ CreateQuestion
    BY <1>0, <2>1 DEF OpenQuiz, Publish, Unpublish, CreateQuestion, EnsureQuiz,
                      LockType, QuizRow
  <2>2. CASE UNCHANGED quizRow
    BY <2>2 DEF LockType
  <2> QED BY <1>3, <2>1, <2>2
          DEF AuthoringNext, EditorNext, LoadQuestion, UpdateQuestion, WriteVersion,
              DeleteQuestion, RegenerateQuestion, RegenerateFails, PinQuestions
<1> QED BY <1>1, <1>2, <1>3 DEF QuizNext, GenerateNext

(* Every step keeps every bill.                                             *)
LEMMA BillStep ==
    ASSUME Inv, LockType, BillInv, [QuizNext]_quizVars
    PROVE  BillInv'
<1>1. ASSUME NEW l \in QLaunches, GenerateStep(l)
      PROVE  BillInv'
  BY <1>1, RequestBilled, JobBilled DEF GenerateStep
<1>2. CASE UNCHANGED <<ledgerVars, asked, job, made>>
  BY <1>2 DEF BillInv, AskedType, LedgerType, Requested, Billed, JobHolds, JobSettled,
              ledgerVars
<1>3. CASE UNCHANGED quizVars
  BY <1>2, <1>3 DEF quizVars
<1> QED BY <1>1, <1>2, <1>3 DEF QuizNext, GenerateNext

(* An account that has its credits and no journal yet has no bill.          *)
LEMMA BillStart == AccountFunded /\ QuestionsInit /\ GenerateInit => LockType /\ BillInv
<1> SUFFICES ASSUME AccountFunded, QuestionsInit, GenerateInit
             PROVE  LockType /\ BillInv
  OBVIOUS
<1>1. LockType
  BY DEF QuestionsInit, LockType, QuizRow
<1>2. AskedType /\ made = {}
  BY DEF GenerateInit, AskedType, Asked, Job, NoJob
<1>3. LedgerType
  BY DEF AccountFunded, LedgerType, NoRows, Row
<1>4. \A l \in QLaunches : Requested(l) /\ Billed(l)
  BY <1>2, QuizLaunchAssumption
  DEF GenerateInit, AccountFunded, NoJob, Requested, Billed
<1> QED BY <1>1, <1>2, <1>3, <1>4 DEF BillInv

(* Every bill is then in order for ever.                                    *)
LEMMA BillHolds == AccountFunded /\ QuizSpec => [](Inv /\ LockType /\ BillInv)
<1>1. Inv /\ LockType /\ BillInv /\ [QuizNext]_quizVars => (LockType /\ BillInv)'
  BY LockStep, BillStep
<1> QED BY <1>1, BillStart, InvHolds, PTL DEF QuizSpec

(* Bills in order say what a generation that ended was charged.             *)
LEMMA BillTells == BillInv => QuizChargedIfMade
<1> SUFFICES ASSUME BillInv, NEW l \in QLaunches, job[l].pc = "ended",
                    asked[l].via = "credits"
             PROVE  /\ Outstanding(l) = 0
                    /\ ledger[l].charged > 0 => l \in made
                    /\ (l \in made /\ ~job[l].disturbed) => ledger[l].charged = QEstimate
  BY DEF QuizChargedIfMade
<1>1. JobSettled(l) /\ ledger[l] \in Row
  BY QuizLaunchAssumption DEF BillInv, Billed, JobHolds, LedgerType
<1>2. Outstanding(l) = 0
  BY <1>1, RowColumns DEF JobSettled, SettledRow, Outstanding
<1> QED BY <1>1, <1>2 DEF JobSettled

(* A generation billed in credits whose task has ended holds nothing, was   *)
(* charged only if its questions were stored, and in full if they were and  *)
(* no worker died (quiz_pipeline.py, generate_quiz_task and _settle), for   *)
(* every number of launches, crashes and late failures and every price.     *)
THEOREM ChargedIfMade == AccountFunded /\ QuizSpec => []QuizChargedIfMade
  BY BillTells, BillHolds, PTL

-----------------------------------------------------------------------------
(* Trial slots: the launches that are on their way or delivered.            *)
Using(l) ==
    /\ asked[l].via = "trial"
    /\ \/ asked[l].pc \in {"billed", "dead"}
       \/ job[l].pc \notin {"none", "ended"}
       \/ l \in made
Users == {l \in QLaunches : Using(l)}
SlotInv == quizSlots \in Nat /\ quizSlots <= Cardinality(Users)

(* A step takes or returns at most one slot, and only launch l joins or     *)
(* leaves the launches that use one.                                        *)
SlotMoves(l) ==
    /\ \A k \in QLaunches \ {l} : Using(k)' <=> Using(k)
    /\ \/ quizSlots' = quizSlots /\ (Using(l) => Using(l)')
       \/ quizSlots' = quizSlots + 1 /\ ~Using(l) /\ Using(l)'
       \/ quizSlots' = NonNeg(quizSlots - 1)

(* Slots stay within the launches that use them.                            *)
LEMMA SlotsFollow ==
    ASSUME SlotInv, IsFiniteSet(QLaunches), NEW l \in QLaunches, SlotMoves(l)
    PROVE  SlotInv'
<1>0. /\ IsFiniteSet(Users) /\ Cardinality(Users) \in Nat
      /\ IsFiniteSet(Users') /\ Cardinality(Users') \in Nat
  BY FS_Subset, FS_CardinalityType DEF Users
<1>1. \A k \in QLaunches \ {l} : k \in Users' <=> k \in Users
  BY DEF SlotMoves, Users
<1>2. CASE Using(l)'
  <2>1. Users' = Users \cup {l} /\ (l \in Users <=> Using(l))
    BY <1>1, <1>2 DEF Users
  <2>2. Cardinality(Users') = Cardinality(Users) + (IF Using(l) THEN 0 ELSE 1)
    BY <1>0, <2>1, FS_AddElement
  <2> QED BY <1>0, <2>2 DEF SlotMoves, SlotInv, NonNeg
<1>3. CASE ~Using(l)'
  <2>1. Users' = Users \ {l} /\ (l \in Users <=> Using(l))
    BY <1>1, <1>3 DEF Users
  <2>2. Cardinality(Users') = Cardinality(Users) - (IF Using(l) THEN 1 ELSE 0)
    BY <1>0, <2>1, FS_RemoveElement
  <2>3. (~Using(l) /\ quizSlots' = quizSlots) \/ quizSlots' = NonNeg(quizSlots - 1)
    BY <1>3 DEF SlotMoves
  <2> QED BY <1>0, <2>2, <2>3 DEF SlotInv, NonNeg
<1> QED BY <1>2, <1>3

(* What happens to the slots in a step of launch l.                         *)
LEMMA SlotStep ==
    ASSUME Inv, LockType, BillInv, NEW l \in QLaunches, GenerateStep(l)
    PROVE  SlotMoves(l)
<1>0. AskedType /\ Requested(l) /\ asked[l] \in Asked /\ job[l] \in Job
  BY DEF BillInv, AskedType
<1>1. CASE QuizClick(l) \/ QuizBill(l) \/ QuizEnqueue(l) \/ QuizUnqueue(l)
           \/ QuizSaveTask(l) \/ QuizEndpointDies(l)
  <2>1. /\ \A k \in QLaunches \ {l} : asked'[k] = asked[k] /\ job'[k] = job[k]
        /\ made' = made
    BY <1>0, <1>1 DEF QuizClick, QuizBill, QuizEnqueue, QuizUnqueue, QuizSaveTask,
                      QuizEndpointDies, AskedType
  <2>2. \A k \in QLaunches \ {l} : Using(k)' <=> Using(k)
    BY <2>1 DEF Using
  <2>3. CASE QuizClick(l) \/ QuizBill(l)
    <3>1. ~Using(l)
      BY <1>0, <2>3 DEF QuizClick, QuizBill, Requested, Using
    <3>2. \/ quizSlots' = quizSlots
          \/ /\ quizSlots' = quizSlots + 1
             /\ asked' = [asked EXCEPT ![l].pc = "billed", ![l].via = "trial"]
      BY <2>3 DEF QuizClick, QuizBill, TakeSlot
    <3>3. asked' = [asked EXCEPT ![l].pc = "billed", ![l].via = "trial"] => Using(l)'
      BY <1>0 DEF AskedType, Asked, Using
    <3> QED BY <2>2, <3>1, <3>2, <3>3 DEF SlotMoves
  <2>4. CASE QuizEnqueue(l) \/ QuizSaveTask(l) \/ QuizEndpointDies(l)
    <3>1. /\ quizSlots' = quizSlots /\ asked'[l].via = asked[l].via
          /\ \/ job'[l].pc = "queued"
             \/ job' = job /\ asked[l].pc # "billed" /\ asked[l].pc # "dead"
             \/ asked'[l].pc = "dead"
      BY <1>0, <2>4 DEF QuizEnqueue, QuizSaveTask, QuizEndpointDies, AskedType, Asked, Job
    <3>2. Using(l) => Using(l)'
      BY <2>1, <3>1 DEF Using
    <3> QED BY <2>2, <3>1, <3>2 DEF SlotMoves
  <2>5. CASE QuizUnqueue(l)
    <3>1. CASE asked[l].via = "credits" /\ quizSlots' = quizSlots
      BY <2>2, <3>1 DEF SlotMoves, Using
    <3>2. CASE SlotBack
      BY <2>2, <3>2 DEF SlotMoves, SlotBack
    <3> QED BY <2>5, <3>1, <3>2 DEF QuizUnqueue
  <2> QED BY <1>1, <2>3, <2>4, <2>5
<1>2. CASE \/ QuizStart(l) \/ QuizRetires(l) \/ QuizCommit(l) \/ QuizCharges(l)
           \/ QuizFails(l) \/ QuizFailUnlocks(l) \/ QuizRefunds(l) \/ QuizEnds(l)
           \/ QuizWorkerDies(l)
  <2>1. asked' = asked /\ \A k \in QLaunches \ {l} : job'[k] = job[k]
    BY <1>0, <1>2, JobKept
  <2>2. made' = made \/ made' = made \cup {l}
    BY <1>2 DEF QuizStart, QuizRetires, QuizCommit, QuizCharges, QuizFails, QuizFailUnlocks,
                QuizRefunds, QuizEnds, QuizWorkerDies
  <2>3. \A k \in QLaunches \ {l} : Using(k)' <=> Using(k)
    BY <2>1, <2>2 DEF Using
  <2>4. CASE QuizRefunds(l)
    <3>1. CASE SlotBack
      BY <2>3, <3>1 DEF SlotMoves, SlotBack
    <3>2. CASE asked[l].via # "trial" /\ quizSlots' = quizSlots
      BY <2>1, <2>3, <3>2 DEF SlotMoves, Using
    <3> QED BY <2>4, <3>1, <3>2 DEF QuizRefunds, QuizSettled
  <2>5. CASE ~QuizRefunds(l)
    <3>1. quizSlots' = quizSlots
      <4>1. CASE QuizCharges(l)
        BY <4>1 DEF QuizCharges, QuizSettled
      <4> QED BY <1>2, <2>5, <4>1 DEF QuizStart, QuizRetires, QuizCommit, QuizFails,
                                      QuizFailUnlocks, QuizEnds, QuizWorkerDies
    <3>2. job'[l].pc \notin {"none", "ended"} \/ l \in made
      <4>1. CASE QuizEnds(l)
        BY <1>0, <4>1 DEF QuizEnds, Requested
      <4>2. CASE QuizCharges(l)
        BY <1>0, <4>2 DEF QuizCharges, Goes, AskedType, Job
      <4>3. CASE QuizStart(l) \/ QuizRetires(l) \/ QuizCommit(l) \/ QuizFails(l)
                 \/ QuizFailUnlocks(l)
        BY <1>0, <4>3 DEF QuizStart, QuizRetires, QuizCommit, QuizFails, QuizFailUnlocks,
                          Goes, AskedType, Job
      <4>4. CASE QuizWorkerDies(l)
        BY <1>0, <4>4 DEF QuizWorkerDies, AskedType, Job, NoJob
      <4> QED BY <1>2, <2>5, <4>1, <4>2, <4>3, <4>4
    <3>3. Using(l) => Using(l)'
      BY <2>1, <2>2, <3>2 DEF Using
    <3> QED BY <2>3, <3>1, <3>3 DEF SlotMoves
  <2> QED BY <2>4, <2>5
<1> QED BY <1>1, <1>2 DEF GenerateStep

(* Nobody has a slot at first.                                              *)
LEMMA SlotsStart == IsFiniteSet(QLaunches) /\ GenerateInit => SlotInv
<1> SUFFICES ASSUME IsFiniteSet(QLaunches), GenerateInit PROVE SlotInv
  OBVIOUS
<1>1. GenerateInit => quizSlots = 0
  BY DEF GenerateInit
<1>2. IsFiniteSet(Users) /\ Cardinality(Users) \in Nat
  BY FS_Subset, FS_CardinalityType DEF Users
<1> QED BY <1>1, <1>2 DEF SlotInv

(* Every step keeps the slots within the launches that use them.            *)
LEMMA SlotsKept ==
    ASSUME IsFiniteSet(QLaunches), Inv, LockType, BillInv, SlotInv, [QuizNext]_quizVars
    PROVE  SlotInv'
<1>1. ASSUME NEW l \in QLaunches, GenerateStep(l)
      PROVE  SlotInv'
  BY <1>1, SlotStep, SlotsFollow
<1>2. CASE UNCHANGED <<asked, job, quizSlots, made>>
  BY <1>2 DEF SlotInv, Users, Using
<1>3. CASE UNCHANGED quizVars
  BY <1>2, <1>3 DEF quizVars
<1> QED BY <1>1, <1>2, <1>3 DEF QuizNext, GenerateNext

(* What the count says of the property.                                     *)
LEMMA SlotsTell == SlotInv => NoSlotForNothing
  BY DEF SlotInv, Users, Using, NoSlotForNothing

(* The trial counter shows no more slots than launches that are on their    *)
(* way, died between billing and sending, or delivered questions            *)
(* (quota_service.py, try_consume_slot and release_slot): refused,     *)
(* failed and redelivered generations cost no slot, for every plan and      *)
(* every number of launches and crashes.                                    *)
THEOREM SlotsEarned ==
    ASSUME IsFiniteSet(QLaunches)
    PROVE  AccountFunded /\ QuizSpec => []NoSlotForNothing
  BY SlotsStart, SlotsKept, SlotsTell, BillHolds, PTL DEF QuizSpec

-----------------------------------------------------------------------------
(* All of it together types every variable of the component.               *)

(* Slots and faults stay within their limits.                               *)
QuizCounted == quizSlots \in 0..QTrialLimit /\ quizFaults \in 0..MaxQuizFaults

QuizAll == Inv /\ LockType /\ BillInv /\ QuizCounted

(* A slot is taken below the limit and given back above zero.               *)
LEMMA QuizCountedStep ==
    ASSUME QuizCounted, [QuizNext]_quizVars
    PROVE  QuizCounted'
<1>0. QTrialLimit \in Nat /\ MaxQuizFaults \in Nat
  BY QuizLaunchAssumption
<1>1. quizSlots' \in 0..QTrialLimit
  <2>1. quizSlots' = quizSlots \/ TakeSlot \/ SlotBack
    BY DEF QuizNext, GenerateNext, GenerateStep, QuizClick, QuizBill, QuizEnqueue, QuizUnqueue,
           QuizSaveTask, QuizEndpointDies, QuizStart, QuizRetires, QuizCommit, QuizCharges, QuizFails,
           QuizFailUnlocks, QuizRefunds, QuizEnds, QuizWorkerDies, QuizSettled, quizVars
  <2> QED BY <1>0, <2>1 DEF TakeSlot, SlotBack, NonNeg, QuizCounted
<1>2. quizFaults' \in 0..MaxQuizFaults
  <2>1. quizFaults' = quizFaults \/ (quizFaults < MaxQuizFaults /\ quizFaults' = quizFaults + 1)
    BY DEF QuizNext, GenerateNext, GenerateStep, QuizClick, QuizBill, QuizEnqueue, QuizUnqueue,
           QuizSaveTask, QuizEndpointDies, QuizStart, QuizRetires, QuizCommit, QuizCharges, QuizFails,
           QuizFailUnlocks, QuizRefunds, QuizEnds, QuizWorkerDies, quizVars
  <2> QED BY <1>0, <2>1 DEF QuizCounted
<1> QED BY <1>1, <1>2 DEF QuizCounted

(* On an account that has its credits and no journal yet all of it holds.   *)
LEMMA QuizAllStart == AccountFunded /\ QuestionsInit /\ GenerateInit => QuizAll
<1>1. GenerateInit => QuizCounted
  BY QuizLaunchAssumption DEF GenerateInit, QuizCounted
<1> QED BY <1>1, InitInv, BillStart DEF QuizAll

(* Every step keeps all of it.                                             *)
LEMMA QuizAllStep ==
    ASSUME QuizAll, [QuizNext]_quizVars
    PROVE  QuizAll'
BY InvStep, LockStep, BillStep, QuizCountedStep DEF QuizAll

(* It types the quiz row, the questions, the requests and the runs.         *)
LEMMA QuizAllTyped ==
    QuizAll => QuestionsTypeOK(QLaunches \cup {NoId}) /\ GenerateTypeOK
<1> SUFFICES ASSUME QuizAll PROVE QuestionsTypeOK(QLaunches \cup {NoId}) /\ GenerateTypeOK
  OBVIOUS
<1>1. QuestionsTypeOK(QLaunches \cup {NoId})
  BY DEF QuizAll, Inv, Versioned, TableType, EditorsType, PinsType, LockType, QuestionsTypeOK
<1>2. GenerateTypeOK
  BY DEF QuizAll, BillInv, AskedType, QuizCounted, GenerateTypeOK
<1> QED BY <1>1, <1>2
=============================================================================
