---------------------------- MODULE Questionnaire ----------------------------
(* ask_user_question of rpiv-ask-user-question: one tab per question and, when
   there are several, a last tab to submit.  A key is routed by the mode the
   dialog is in (state/key-router.ts), the reducer changes the canonical state
   (state/state-reducer.ts), and a key that nothing claims goes to the free text
   of the row "Type something." (handleIgnoreInline of
   state/questionnaire-session.ts).  A question is "plain" (single choice, with
   that row), "preview" (single choice, its first option has a preview, so it
   takes notes and has no such row) or "multi" (check boxes and a row "Next"). *)
EXTENDS Integers, Sequences, Absence

CONSTANTS
  Questionnaires,  \* the sequences of kinds of question that may be asked
  Text             \* what a user may type

Empty   == "empty"
Options == 1..2

(* An answer, and what the dialog returns. *)
QuestionAnswer == [kind : {"option", "custom", "chat", "multi"}, choice : Int, text : Text \union {None},
                   picked : SUBSET Int, notes : Text \union {None}]
QuestionnaireResult == [answers : SUBSET (Int \X QuestionAnswer), cancelled : BOOLEAN]

ASSUME QuestionAssumption ==
  /\ \A q \in Questionnaires : q \in Seq({"plain", "preview", "multi"})
  /\ None \notin QuestionAnswer \union QuestionnaireResult
  /\ {Empty, None} \intersect Text = {}

VARIABLES
  questions,  \* the questionnaire
  ui,         \* QuestionnaireState without what has a variable of its own
  answers,    \* tab -> the answer recorded for it, or None
  notesByTab, \* tab -> the notes kept for it, or None
  inputText,  \* the value of inlineInput
  result      \* what done() was called with, or None

questionVars == <<questions, ui, answers, notesByTab, inputText, result>>

Tabs    == 1..Len(questions)
Submit  == Len(questions) + 1
Kind    == IF ui.currentTab \in Tabs THEN questions[ui.currentTab] ELSE "submit"

(* buildItemsForQuestion: the options, and the sentinel of the kind. *)
Rows == CASE Kind = "plain" -> <<"option", "option", "other">>
          [] Kind = "multi" -> <<"option", "option", "next">>
          [] Kind = "preview" -> <<"option", "option">>
          [] OTHER -> <<>>
isMulti == Len(questions) > 1
focusedOptionHasPreview == Kind = "preview" /\ ui.optionIndex = 1
ActivatesInput(i) == i \in DOMAIN Rows /\ Rows[i] = "other"

Mode == IF ui.collapsed THEN "collapsed"
        ELSE IF ui.notesVisible THEN "notes"
        ELSE IF ui.chatFocused THEN "chat"
        ELSE IF ui.inputMode THEN "input"
        ELSE Kind

QuestionnaireInit ==
  /\ questions \in Questionnaires
  /\ ui = [currentTab |-> 1, optionIndex |-> 1, inputMode |-> FALSE,
           notesVisible |-> FALSE, chatFocused |-> FALSE, collapsed |-> FALSE,
           multiSelectChecked |-> {}, submitChoiceIndex |-> 0, notesDraft |-> Empty]
  /\ answers = [t \in Tabs |-> None] /\ notesByTab = [t \in Tabs |-> None]
  /\ inputText = Empty /\ result = None

Open == result = None

-----------------------------------------------------------------------------
(* The reducer's parts. *)
SavedChecks(ans, t) ==
  IF t \in Tabs /\ questions[t] = "multi" /\ ans[t] # None THEN ans[t].picked ELSE {}

(* Mutant: the boxes of the tab left behind stay checked. *)
switchTabKeepsBoxes(t, ans) ==
  ui' = [ui EXCEPT !.currentTab = t, !.optionIndex = 1, !.inputMode = FALSE,
                   !.notesVisible = FALSE, !.chatFocused = FALSE, !.submitChoiceIndex = 0,
                   !.notesDraft = Empty]

switchTab(t, ans) ==
  ui' = [ui EXCEPT !.currentTab = t, !.optionIndex = 1, !.inputMode = FALSE,
                   !.notesVisible = FALSE, !.chatFocused = FALSE, !.submitChoiceIndex = 0,
                   !.multiSelectChecked = SavedChecks(ans, t),
                   !.notesDraft =
                      CASE t \in Tabs /\ notesByTab[t] # None -> notesByTab[t]
                        [] t \in Tabs /\ notesByTab[t] = None /\ ans[t] # None
                             /\ ans[t].notes # None -> ans[t].notes
                        [] OTHER -> Empty]

doneFor(ans, cancelled) ==
  /\ result' = [answers |-> {<<t, ans[t]>> : t \in {x \in Tabs : ans[x] # None}},
                cancelled |-> cancelled]
  /\ UNCHANGED ui

(* Mutant: the notes are left where they were taken. *)
AnswerWithoutNotes(kind, choice, text, picked) ==
  [kind |-> kind, choice |-> choice, text |-> text, picked |-> picked, notes |-> None]

(* confirm and multi_confirm: the notes kept for the tab are merged into the
   answer; the next tab follows, or the dialog is done. *)
Answer(kind, choice, text, picked) ==
  [kind |-> kind, choice |-> choice, text |-> text, picked |-> picked,
   notes |-> notesByTab[ui.currentTab]]

Commit(answer) ==
  LET ans == [answers EXCEPT ![ui.currentTab] = answer] IN
  /\ answers' = ans
  /\ IF answer.kind # "chat" /\ isMulti
     THEN switchTab(ui.currentTab + 1, ans) /\ UNCHANGED result
     ELSE doneFor(ans, FALSE)
  /\ UNCHANGED <<questions, notesByTab, inputText>>

(* nav and focus_options: a row that takes no text clears the text; nav onto
   "Type something." brings back the text answered before. *)
nav(i) ==
  LET prior == answers[ui.currentTab] IN
  /\ ui' = [ui EXCEPT !.optionIndex = i, !.inputMode = ActivatesInput(i)]
  /\ inputText' = CASE ~ActivatesInput(i) -> Empty
                    [] ActivatesInput(i) /\ prior # None /\ prior.kind = "custom"
                         /\ prior.text # None -> prior.text
                    [] OTHER -> inputText
  /\ UNCHANGED <<questions, answers, notesByTab, result>>

focus_chat ==
  /\ ui' = [ui EXCEPT !.chatFocused = TRUE]
  /\ UNCHANGED <<questions, answers, notesByTab, inputText, result>>

focus_options(i) ==
  /\ ui' = [ui EXCEPT !.chatFocused = FALSE, !.optionIndex = i,
                      !.inputMode = ActivatesInput(i)]
  /\ inputText' = IF ActivatesInput(i) THEN inputText ELSE Empty
  /\ UNCHANGED <<questions, answers, notesByTab, result>>

-----------------------------------------------------------------------------
(* The keys, by mode. *)
cancel ==
  /\ Open /\ Mode # "notes"
  /\ doneFor(answers, TRUE)
  /\ UNCHANGED <<questions, answers, notesByTab, inputText>>

toggle_collapsed ==
  /\ Open /\ ui' = [ui EXCEPT !.collapsed = ~@]
  /\ UNCHANGED <<questions, answers, notesByTab, inputText, result>>

(* A key no mode claims: the text takes it whenever a row that takes text is
   focused, the collapsed mode included. *)
handleIgnoreInline ==
  /\ Open /\ Mode \in {"collapsed", "input"} /\ ui.inputMode
  /\ \E t \in Text : inputText' = t
  /\ UNCHANGED <<questions, ui, answers, notesByTab, result>>

Up ==
  /\ Open
  /\ \/ Mode \in {"plain", "preview", "multi", "input"}
        /\ IF ui.optionIndex = 1 THEN focus_chat ELSE nav(ui.optionIndex - 1)
     \/ Mode = "chat" /\ focus_options(Len(Rows))

Down ==
  /\ Open
  /\ \/ Mode \in {"plain", "preview", "multi", "input"}
        /\ IF ui.optionIndex = Len(Rows) THEN focus_chat ELSE nav(ui.optionIndex + 1)
     \/ Mode = "chat" /\ focus_options(1)

submit_nav ==
  /\ Open /\ Mode = "submit"
  /\ ui' = [ui EXCEPT !.submitChoiceIndex = 1 - @]
  /\ UNCHANGED <<questions, answers, notesByTab, inputText, result>>

tab_switch ==
  /\ Open /\ isMulti /\ Mode \in {"chat", "plain", "preview", "multi", "submit"}
  /\ \/ switchTab((ui.currentTab % Submit) + 1, answers)
     \/ switchTab(((ui.currentTab + Submit - 2) % Submit) + 1, answers)
  /\ UNCHANGED <<questions, answers, notesByTab, inputText, result>>

notes_enter ==
  LET answer == answers[ui.currentTab] IN
  /\ Open /\ Mode = "preview" /\ focusedOptionHasPreview
  /\ ui' = [ui EXCEPT !.notesVisible = TRUE,
                      !.notesDraft = IF answer # None /\ answer.notes # None
                                     THEN answer.notes ELSE Empty]
  /\ UNCHANGED <<questions, answers, notesByTab, inputText, result>>

notes_forward ==
  /\ Open /\ Mode = "notes"
  /\ \E t \in Text \union {Empty} : ui' = [ui EXCEPT !.notesDraft = t]
  /\ UNCHANGED <<questions, answers, notesByTab, inputText, result>>

(* Enter and Escape both leave the notes and keep them: an empty draft removes
   them, from the answer as well when there is one. *)
notes_exit ==
  LET t     == ui.currentTab
      notes == IF ui.notesDraft = Empty THEN None ELSE ui.notesDraft
  IN /\ Open /\ Mode = "notes"
     /\ notesByTab' = [notesByTab EXCEPT ![t] = notes]
     /\ answers' = IF answers[t] = None THEN answers
                   ELSE [answers EXCEPT ![t].notes = notes]
     /\ ui' = [ui EXCEPT !.notesVisible = FALSE]
     /\ UNCHANGED <<questions, inputText, result>>

(* Enter on the chat row, on an option, in the text. *)
confirm ==
  /\ Open
  /\ \/ Mode = "chat" /\ Commit(Answer("chat", 0, None, {}))
     \/ /\ Mode = "input"
        /\ Commit(Answer("custom", 0, IF inputText = Empty THEN None ELSE inputText, {}))
     \/ /\ Mode \in {"plain", "preview"} /\ Rows[ui.optionIndex] = "option"
        /\ Commit(Answer("option", ui.optionIndex, None, {}))

(* Space or Enter on a box: the answer follows at once. *)
toggle ==
  LET i       == ui.optionIndex
      checked == IF i \in ui.multiSelectChecked
                 THEN ui.multiSelectChecked \ {i} ELSE ui.multiSelectChecked \union {i}
  IN /\ Open /\ Mode = "multi" /\ Rows[i] # "next"
     /\ ui' = [ui EXCEPT !.multiSelectChecked = checked]
     /\ answers' = [answers EXCEPT ![ui.currentTab] =
                      IF checked = {} THEN None ELSE Answer("multi", 0, None, checked)]
     /\ UNCHANGED <<questions, notesByTab, inputText, result>>

multi_confirm ==
  /\ Open /\ Mode = "multi" /\ Rows[ui.optionIndex] = "next"
  /\ Commit(Answer("multi", 0, None, ui.multiSelectChecked))

submit ==
  /\ Open /\ Mode = "submit"
  /\ doneFor(answers, ui.submitChoiceIndex = 1)
  /\ UNCHANGED <<questions, answers, notesByTab, inputText>>

QuestionnaireNext ==
  \/ cancel \/ toggle_collapsed \/ handleIgnoreInline \/ Up \/ Down \/ submit_nav
  \/ tab_switch \/ notes_enter \/ notes_forward \/ notes_exit
  \/ confirm \/ toggle \/ multi_confirm \/ submit

QuestionnaireSpec == QuestionnaireInit /\ [][QuestionnaireNext]_questionVars

-----------------------------------------------------------------------------
(* While it is open the dialog shows what will be sent.  The boxes on screen are the selection
   recorded for the tab, whatever tabs were visited in between, and an answer
   carries the notes kept for its tab, taken before the answer or after it. *)
ScreenMatchesAnswers == Open =>
  /\ ui.multiSelectChecked = SavedChecks(answers, ui.currentTab)
  /\ \A t \in Tabs : answers[t] # None => answers[t].notes = notesByTab[t]
=============================================================================
