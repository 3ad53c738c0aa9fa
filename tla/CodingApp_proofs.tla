-------------------------- MODULE CodingApp_proofs --------------------------
(***************************************************************************)
(* What the example application keeps about its conversation, its stored   *)
(* session and its undo stacks, for any number of files, runs, parallel    *)
(* calls, outside edits, lost saves and restarts.                          *)
(***************************************************************************)
EXTENDS CodingApp, SequenceTheorems, TLAPS

-----------------------------------------------------------------------------
(* The conversation.  Open calls are those of its last message, and there  *)
(* are some exactly when there is a checkpoint.                            *)

Closed(h) == \A i \in 1 .. Len(h) : h[i] # "open"

Conversation(h, paused) ==
    /\ h \in Seq(Message)
    /\ paused \in BOOLEAN
    /\ paused => /\ Len(h) > 0
                 /\ h[Len(h)] = "open"
                 /\ \A i \in 1 .. Len(h) - 1 : h[i] # "open"
    /\ ~paused => Closed(h)

\* What the session was before the run in progress.
Before == IF phase = "prompt" THEN Front(history) ELSE history

\* The inductive invariant: a prompt's conversation is closed, a resumed one
\* is still open, and the store agrees with what the run started from.
ConversationInv ==
    /\ phase \in {"idle", "prompt", "resume"}
    /\ unsaved \in BOOLEAN
    /\ Conversation(history, pending)
    /\ Conversation(store.messages, store.checkpoint)
    /\ store = [messages |-> store.messages, checkpoint |-> store.checkpoint]
    /\ phase = "prompt" => ~pending /\ Len(history) > 0
    /\ phase = "resume" => pending
    /\ ~unsaved => store = [messages |-> Before, checkpoint |-> pending]

-----------------------------------------------------------------------------
(* The stacks.  In both, what an entry wants to find of a file is what the *)
(* nearest entry above that has the file leaves when it is applied.        *)

Latest(s, f, i) ==
    /\ i \in 1 .. Len(s)
    /\ f \in DOMAIN s[i]
    /\ \A k \in 1 .. Len(s) : k > i => f \notin DOMAIN s[k]

Adjacent(s, f, i, j) ==
    /\ i \in 1 .. Len(s) /\ j \in 1 .. Len(s) /\ i < j
    /\ f \in DOMAIN s[i] /\ f \in DOMAIN s[j]
    /\ \A k \in 1 .. Len(s) : i < k /\ k < j => f \notin DOMAIN s[k]

Chained(s, isRedo, f) ==
    \A i, j \in 1 .. Len(s) :
        Adjacent(s, f, i, j) => Wanted(s[i], isRedo, f) = Target(s[j], isRedo, f)

Topped(s, isRedo, f, state) ==
    \A i \in 1 .. Len(s) : Latest(s, f, i) => Wanted(s[i], isRedo, f) = state

\* The state of a file without what the run in progress has recorded.
Base(f) == IF Recording /\ f \in DOMAIN current THEN current[f].before ELSE files[f]

\* A call of the run in progress has recorded its file before it writes.
ToolsInv ==
    /\ Recording <=> ~Idle
    /\ awaiting \subseteq IF Recording THEN DOMAIN current ELSE {}
    /\ \A t \in Tools :
         tool[t] # Free /\ ~tool[t].late =>
             /\ ~Idle
             /\ tool[t].at # "before" => tool[t].file \in DOMAIN current

RecordedInv ==
    Recording => \A f \in DOMAIN current \ (touched \cup awaiting) : current[f].after = files[f]

StacksInv ==
    \A isRedo \in BOOLEAN, f \in Files \ (touched \cup broken) :
        /\ Chained(Stack(isRedo), isRedo, f)
        /\ Topped(Stack(isRedo), isRedo, f, Base(f))

-----------------------------------------------------------------------------
(* Sequences *)

LEMMA FrontProperties ==
  ASSUME NEW S, NEW s \in Seq(S), s # <<>>
  PROVE  /\ Len(s) \in Nat /\ Len(s) > 0
         /\ Front(s) \in Seq(S)
         /\ Len(Front(s)) = Len(s) - 1
         /\ \A i \in 1 .. Len(s) - 1 : Front(s)[i] = s[i]
         /\ Last(s) = s[Len(s)] /\ Last(s) \in S
<1>1. Len(s) \in Nat /\ Len(s) > 0
  BY EmptySeq, LenProperties
<1>2. \A i \in 1 .. Len(s) : s[i] \in S
  BY ElementOfSeq
<1> DEFINE n == Len(s) - 1
<1>3. n \in Nat /\ \A i \in 1 .. n : s[i] \in S
  BY <1>1, <1>2
<1> HIDE DEF n
<1>4. /\ SubSeq(s, 1, n) \in Seq(S)
      /\ Len(SubSeq(s, 1, n)) = IF 1 <= n THEN n - 1 + 1 ELSE 0
      /\ \A i \in 1 .. n - 1 + 1 : SubSeq(s, 1, n)[i] = s[1 + i - 1]
  BY <1>3, SubSeqProperties
<1>5. Len(SubSeq(s, 1, n)) = n
  BY <1>3, <1>4
<1>6. \A i \in 1 .. n : SubSeq(s, 1, n)[i] = s[i]
  BY <1>3, <1>4
<1>7. Front(s) = SubSeq(s, 1, n)
  BY DEF Front, n
<1>8. /\ Front(s) \in Seq(S)
      /\ Len(Front(s)) = Len(s) - 1
      /\ \A i \in 1 .. Len(s) - 1 : Front(s)[i] = s[i]
  BY <1>4, <1>5, <1>6, <1>7 DEF n
<1>9. Last(s) = s[Len(s)] /\ Last(s) \in S
  BY <1>1, <1>2 DEF Last
<1> QED
  BY <1>1, <1>8, <1>9

LEMMA AppendFacts ==
  ASSUME NEW S, NEW s \in Seq(S), NEW e \in S
  PROVE  /\ Append(s, e) \in Seq(S) /\ Append(s, e) # <<>>
         /\ Len(s) \in Nat /\ Len(Append(s, e)) = Len(s) + 1
         /\ Append(s, e)[Len(s) + 1] = e
         /\ \A i \in 1 .. Len(s) : Append(s, e)[i] = s[i]
BY AppendProperties, LenProperties

-----------------------------------------------------------------------------
(* The conversation *)

\* What a step leaves of the conversation decides about the invariant.
LEMMA ConversationKept ==
  ASSUME ConversationInv, UNCHANGED <<phase, history, pending, store, unsaved>>
  PROVE  ConversationInv'
BY DEF ConversationInv, Before, Conversation, Closed

LEMMA FrontClosed ==
  ASSUME NEW h \in Seq(Message), h # <<>>, \A i \in 1 .. Len(h) - 1 : h[i] # "open"
  PROVE  Conversation(Front(h), FALSE)
BY FrontProperties DEF Conversation, Closed

\* Saving makes the store agree with the session, or remembers that it does not.
LEMMA SaveAgrees ==
  ASSUME NEW h, NEW cp, ConversationInv, Conversation(h, cp), Save(h, cp)
  PROVE  /\ unsaved' \in BOOLEAN
         /\ Conversation(store'.messages, store'.checkpoint)
         /\ store' = [messages |-> store'.messages, checkpoint |-> store'.checkpoint]
         /\ ~unsaved' => store' = [messages |-> h, checkpoint |-> cp]
<1>1. CASE store' = [messages |-> h, checkpoint |-> cp] /\ unsaved' = FALSE
  BY <1>1
<1>2. CASE unsaved' = TRUE /\ UNCHANGED store
  BY <1>2 DEF ConversationInv
<1> QED
  BY <1>1, <1>2 DEF Save

\* The next state of the invariant, when the run in progress, if any, is over.
LEMMA SettledAgain ==
  ASSUME phase' = "idle", Conversation(history', pending'),
         unsaved' \in BOOLEAN,
         Conversation(store'.messages, store'.checkpoint),
         store' = [messages |-> store'.messages, checkpoint |-> store'.checkpoint],
         ~unsaved' => store' = [messages |-> history', checkpoint |-> pending']
  PROVE  ConversationInv'
BY DEF ConversationInv, Before, Conversation, Closed

LEMMA ConversationInit == Init => ConversationInv
<1> SUFFICES ASSUME Init PROVE ConversationInv
  OBVIOUS
<1>1. Conversation(<<>>, FALSE)
  BY EmptySeq DEF Conversation, Closed
<1> QED
  BY <1>1 DEF Init, ConversationInv, Before

LEMMA ConversationPrompt == ConversationInv /\ RunPrompt => ConversationInv'
<1> SUFFICES ASSUME ConversationInv, RunPrompt PROVE ConversationInv'
  OBVIOUS
<1>1. history \in Seq(Message) /\ Closed(history) /\ ~pending
  BY DEF ConversationInv, Conversation, RunPrompt
<1>2. "user" \in Message
  BY DEF Message
<1>3. /\ history' \in Seq(Message) /\ history' # <<>>
      /\ Len(history) \in Nat /\ Len(history') = Len(history) + 1
      /\ history'[Len(history) + 1] = "user"
      /\ \A i \in 1 .. Len(history) : history'[i] = history[i]
  BY <1>1, <1>2, AppendFacts DEF RunPrompt
<1>4. Closed(history')
  BY <1>1, <1>3 DEF Closed
<1>5. Front(history') = history
  <2>1. /\ Front(history') \in Seq(Message) /\ Len(Front(history')) = Len(history)
        /\ \A i \in 1 .. Len(history) : Front(history')[i] = history[i]
    BY <1>3, FrontProperties
  <2> QED
    BY <1>1, <2>1, SeqEqual
<1> QED
  BY <1>1, <1>3, <1>4, <1>5 DEF ConversationInv, Before, Conversation, RunPrompt, Idle

LEMMA ConversationResume == ConversationInv /\ RunResume => ConversationInv'
BY DEF ConversationInv, Before, Conversation, Closed, RunResume, Idle

LEMMA ConversationSettles == ConversationInv /\ SettleResult => ConversationInv'
<1> SUFFICES ASSUME ConversationInv, SettleResult PROVE ConversationInv'
  OBVIOUS
<1>1. history \in Seq(Message) /\ Len(history) \in Nat /\ DOMAIN history = 1 .. Len(history)
  BY LenProperties DEF ConversationInv, Conversation
<1>2. \A i \in 1 .. Len(history) : history[i] \in Message
  BY <1>1, ElementOfSeq
<1>3. /\ Answered \in Seq(Message) /\ Len(Answered) = Len(history)
      /\ \A i \in 1 .. Len(history) : Answered[i] # "open"
  <2>1. Answered \in [1 .. Len(history) -> Message]
    BY <1>1, <1>2 DEF Answered, Message
  <2>2. \A i \in 1 .. Len(history) : Answered[i] # "open"
    BY <1>1 DEF Answered
  <2> QED
    BY <1>1, <2>1, <2>2, IsASeq, LenProperties
<1>4. "answer" \in Message
  BY DEF Message
<1>5. /\ history' \in Seq(Message) /\ Len(history') = Len(history) + 1
      /\ history'[Len(history) + 1] = "answer"
      /\ \A i \in 1 .. Len(history) : history'[i] = Answered[i]
  BY <1>1, <1>3, <1>4, AppendFacts DEF SettleResult
<1>6. Conversation(history', FALSE)
  BY <1>1, <1>3, <1>5 DEF Conversation, Closed
<1> QED
  BY <1>6, SaveAgrees, SettledAgain DEF SettleResult, RunOver

LEMMA ConversationPauses == ConversationInv /\ StashPause => ConversationInv'
<1> SUFFICES ASSUME ConversationInv, StashPause PROVE ConversationInv'
  OBVIOUS
<1>1. Conversation(history', TRUE)
  <2>1. CASE phase = "resume"
    BY <2>1 DEF ConversationInv, StashPause
  <2>2. CASE phase # "resume"
    <3>1. history \in Seq(Message) /\ Closed(history)
      BY <2>2 DEF ConversationInv, Conversation, StashPause, RunOver, Idle
    <3>2. "open" \in Message
      BY DEF Message
    <3>3. /\ history' \in Seq(Message)
          /\ Len(history) \in Nat /\ Len(history') = Len(history) + 1
          /\ history'[Len(history) + 1] = "open"
          /\ \A i \in 1 .. Len(history) : history'[i] = history[i]
      BY <2>2, <3>1, <3>2, AppendFacts DEF StashPause
    <3> QED
      BY <3>1, <3>3 DEF Conversation, Closed
  <2> QED
    BY <2>1, <2>2
<1> QED
  BY <1>1, SaveAgrees, SettledAgain DEF StashPause, RunOver

\* A run that comes to nothing leaves what was there before it.
LEMMA ConversationUndone ==
  ASSUME ConversationInv, phase # "idle", phase' = "idle", history' = Undone,
         UNCHANGED <<pending, store, unsaved>>
  PROVE  ConversationInv'
<1>1. history' = Before
  BY DEF Undone, Before
<1>2. Conversation(history', pending)
  <2>1. CASE phase = "prompt"
    <3>1. history \in Seq(Message) /\ history # <<>> /\ pending = FALSE /\ Closed(history)
      BY <2>1, EmptySeq DEF ConversationInv, Conversation
    <3>2. \A i \in 1 .. Len(history) - 1 : history[i] # "open"
      BY <3>1, LenProperties DEF Closed
    <3> QED
      BY <2>1, <3>1, <3>2, FrontClosed DEF Undone
  <2>2. CASE phase # "prompt"
    BY <2>2 DEF Undone, ConversationInv
  <2> QED
    BY <2>1, <2>2
<1> QED
  BY <1>1, <1>2, SettledAgain DEF ConversationInv

LEMMA ConversationCleared == ConversationInv /\ Clear => ConversationInv'
<1> SUFFICES ASSUME ConversationInv, Clear PROVE ConversationInv'
  OBVIOUS
<1>1. Conversation(<<>>, FALSE)
  BY EmptySeq DEF Conversation, Closed
<1> QED
  BY <1>1, SaveAgrees, SettledAgain DEF Clear, Idle

LEMMA ConversationRestarts == ConversationInv /\ Restart => ConversationInv'
BY SettledAgain DEF ConversationInv, Restart

LEMMA ConversationStep == ConversationInv /\ [Next]_vars => ConversationInv'
<1> SUFFICES ASSUME ConversationInv, [Next]_vars PROVE ConversationInv'
  OBVIOUS
<1>1. CASE UNCHANGED vars
  BY <1>1, ConversationKept DEF vars, appVars
<1>2. ASSUME NEW t \in Tools,
             \/ \E f \in Files : ToolStarts(t, f)
             \/ ToolRecordsBefore(t)
             \/ \E c \in Contents : ToolWrites(t, c)
             \/ ToolFails(t)
             \/ ToolFormats(t)
             \/ ToolRecordsAfter(t)
      PROVE  ConversationInv'
  BY <1>2, ConversationKept
     DEF ToolStarts, ToolRecordsBefore, ToolWrites, ToolFails, ToolFormats, ToolRecordsAfter, Step
<1>3. CASE RunFails \/ RunCancelled
  BY <1>3, ConversationUndone DEF RunFails, RunCancelled, RunOver, Idle
<1>4. CASE \/ \E isRedo \in BOOLEAN : UndoOrRedo(isRedo) \/ UndoFails(isRedo)
           \/ \E f \in Files, c \in FileState : OutsideEdit(f, c)
  BY <1>4, ConversationKept DEF UndoOrRedo, UndoFails, OutsideEdit, appVars
<1> QED
  BY <1>1, <1>2, <1>3, <1>4, ConversationPrompt, ConversationResume, ConversationSettles,
     ConversationPauses, ConversationCleared, ConversationRestarts DEF Next

\* Between runs the conversation has open calls, at its end, exactly when there
\* is a checkpoint to resume them, so that no provider is ever sent calls without
\* results (runtime.go:137-141, 148-260).
THEOREM OpenExactlyWhenPending == Spec => []OpenIffPending
<1>1. ConversationInv => OpenIffPending
  <2> SUFFICES ASSUME ConversationInv PROVE OpenIffPending
    OBVIOUS
  <2>1. history \in Seq(Message) /\ Len(history) \in Nat /\ DOMAIN history = 1 .. Len(history)
    BY LenProperties DEF ConversationInv, Conversation
  <2>2. pending => history # <<>> /\ Last(history) = "open"
    BY <2>1, EmptySeq DEF ConversationInv, Conversation, Last
  <2>3. ~pending /\ history # <<>> => Last(history) # "open"
    BY <2>1, EmptySeq DEF ConversationInv, Conversation, Closed, Last
  <2>4. phase = "prompt" => \A i \in DOMAIN history : history[i] # "open"
    BY <2>1 DEF ConversationInv, Conversation, Closed
  <2> QED
    BY <2>2, <2>3, <2>4 DEF OpenIffPending
<1> QED
  BY <1>1, ConversationInit, ConversationStep, PTL DEF Spec

\* What a restart would load is what the session shows, unless a save failed
\* (runtime.go:262-289, tui.go's /clear, and the runs that end without saving).
THEOREM StoreAgreesWithSession == Spec => []StoreAgrees
<1>1. ConversationInv => StoreAgrees
  BY DEF ConversationInv, StoreAgrees, Before, Idle
<1> QED
  BY <1>1, ConversationInit, ConversationStep, PTL DEF Spec

-----------------------------------------------------------------------------
(* Types of the snapshots *)

LEMMA ChangeSetElements ==
  ASSUME NEW cs \in ChangeSet
  PROVE  /\ DOMAIN cs \subseteq Files
         /\ cs \in [DOMAIN cs -> Change]
         /\ cs # None
         /\ \A f \in DOMAIN cs : cs[f] \in Change
BY SnapshotsAssumption DEF ChangeSet

LEMMA ChangeSetMade ==
  ASSUME NEW F \in SUBSET Files, NEW cs \in [F -> Change]
  PROVE  cs \in ChangeSet
BY DEF ChangeSet

LEMMA NoChangesEmpty ==
  /\ NoChanges \in ChangeSet
  /\ DOMAIN NoChanges = {}
  /\ \A cs \in ChangeSet : DOMAIN cs = {} => cs = NoChanges
<1>1. NoChanges \in [{} -> Change] /\ DOMAIN NoChanges = {}
  BY DEF NoChanges
<1>2. ASSUME NEW cs \in ChangeSet, DOMAIN cs = {} PROVE cs = NoChanges
  BY <1>2, ChangeSetElements DEF NoChanges
<1> QED
  BY <1>1, <1>2, ChangeSetMade

LEMMA ChangeFields ==
  ASSUME NEW ch \in Change
  PROVE  /\ ch.before \in FileState /\ ch.after \in FileState
         /\ ch = [before |-> ch.before, after |-> ch.after]
BY DEF Change

\* What the states written and wanted by an entry are.
LEMMA TargetTypes ==
  ASSUME NEW cs \in ChangeSet, NEW f \in DOMAIN cs, NEW isRedo \in BOOLEAN
  PROVE  Target(cs, isRedo, f) \in FileState /\ Wanted(cs, isRedo, f) \in FileState
BY ChangeSetElements, ChangeFields DEF Target, Wanted

LEMMA TypesCommit == SnapTypeOK /\ Commit => SnapTypeOK'
<1> SUFFICES ASSUME SnapTypeOK, Commit PROVE SnapTypeOK'
  OBVIOUS
<1>1. undo' \in Seq(ChangeSet) /\ redo' \in Seq(ChangeSet)
  <2>1. CASE Recording /\ current # NoChanges
    <3>1. current \in ChangeSet /\ undo \in Seq(ChangeSet)
      BY <2>1 DEF SnapTypeOK, Recording
    <3>2. Append(undo, current) \in Seq(ChangeSet) /\ <<>> \in Seq(ChangeSet)
      BY <3>1, AppendProperties, EmptySeq
    <3> QED
      BY <2>1, <3>2 DEF Commit
  <2>2. CASE ~(Recording /\ current # NoChanges)
    BY <2>2 DEF SnapTypeOK, Commit
  <2> QED
    BY <2>1, <2>2
<1> QED
  BY <1>1 DEF SnapTypeOK, Commit

LEMMA TypesDiscard == SnapTypeOK /\ Discard => SnapTypeOK'
BY ChangeSetElements DEF SnapTypeOK, Discard, Recording

LEMMA TypesBegin == SnapTypeOK /\ Begin => SnapTypeOK'
BY NoChangesEmpty DEF SnapTypeOK, Begin

LEMMA TypesRecordBefore ==
  ASSUME SnapTypeOK, NEW f \in Files, RecordBefore(f)
  PROVE  SnapTypeOK' /\ (Recording' <=> Recording)
<1>1. current' \in ChangeSet \cup {None} /\ (Recording' <=> Recording)
  <2>1. CASE Recording /\ f \notin DOMAIN current
    <3>1. current \in ChangeSet /\ DOMAIN current \cup {f} \subseteq Files
      BY <2>1, ChangeSetElements DEF SnapTypeOK, Recording
    <3>2. [before |-> files[f], after |-> Absent] \in Change
      BY DEF SnapTypeOK, Change, FileState
    <3>3. current' \in [DOMAIN current \cup {f} -> Change]
      BY <2>1, <3>1, <3>2, ChangeSetElements DEF RecordBefore
    <3> QED
      BY <2>1, <3>1, <3>3, ChangeSetMade, SnapshotsAssumption DEF Recording
  <2> QED
    BY <2>1 DEF RecordBefore, SnapTypeOK, Recording
<1>2. awaiting' \subseteq Files
  BY DEF RecordBefore, SnapTypeOK
<1> QED
  BY <1>1, <1>2 DEF SnapTypeOK, RecordBefore

LEMMA TypesRecordAfter ==
  ASSUME SnapTypeOK, NEW f \in Files, RecordAfter(f)
  PROVE  SnapTypeOK' /\ (Recording' <=> Recording)
<1>1. current' \in ChangeSet \cup {None} /\ (Recording' <=> Recording)
  <2>1. CASE Recording
    <3>1. current \in ChangeSet /\ DOMAIN current \cup {f} \subseteq Files
      BY <2>1, ChangeSetElements DEF SnapTypeOK, Recording
    <3>2. [before |-> files[f], after |-> files[f]] \in Change
      BY DEF SnapTypeOK, Change
    <3>3. f \in DOMAIN current => [current[f] EXCEPT !.after = files[f]] \in Change
      BY <3>1, ChangeSetElements DEF SnapTypeOK, Change
    <3>4. current' \in [DOMAIN current \cup {f} -> Change]
      BY <2>1, <3>1, <3>2, <3>3, ChangeSetElements DEF RecordAfter
    <3> QED
      BY <2>1, <3>1, <3>4, ChangeSetMade, SnapshotsAssumption DEF Recording
  <2> QED
    BY <2>1 DEF RecordAfter, SnapTypeOK, Recording
<1> QED
  BY <1>1 DEF SnapTypeOK, RecordAfter

LEMMA TypesWrite ==
  ASSUME SnapTypeOK, NEW f \in Files, NEW c \in FileState, NEW late \in BOOLEAN, Write(f, c, late)
  PROVE  SnapTypeOK'
BY DEF SnapTypeOK, Write

LEMMA StackTop ==
  ASSUME SnapTypeOK, NEW isRedo \in BOOLEAN, Stack(isRedo) # <<>>
  PROVE  /\ Stack(isRedo) \in Seq(ChangeSet) /\ Stack(~isRedo) \in Seq(ChangeSet)
         /\ Last(Stack(isRedo)) \in ChangeSet
         /\ Front(Stack(isRedo)) \in Seq(ChangeSet)
<1>1. Stack(isRedo) \in Seq(ChangeSet) /\ Stack(~isRedo) \in Seq(ChangeSet)
  BY DEF SnapTypeOK, Stack
<1> QED
  BY <1>1, FrontProperties

LEMMA TypesApply ==
  ASSUME SnapTypeOK, NEW isRedo \in BOOLEAN, Apply(isRedo)
  PROVE  SnapTypeOK'
<1> DEFINE cs == Last(Stack(isRedo))
<1>1. Stack(isRedo) # <<>>
  BY DEF Apply
<1>2. cs \in ChangeSet /\ Front(Stack(isRedo)) \in Seq(ChangeSet)
      /\ Stack(~isRedo) \in Seq(ChangeSet)
  BY <1>1, StackTop
<1>3. Append(Stack(~isRedo), cs) \in Seq(ChangeSet)
  BY <1>2, AppendProperties
<1>4. undo' \in Seq(ChangeSet) /\ redo' \in Seq(ChangeSet)
  BY <1>2, <1>3 DEF Apply, Moved, Stack
<1>5. files' \in [Files -> FileState]
  BY <1>2, TargetTypes DEF Apply, SnapTypeOK
<1> QED
  BY <1>4, <1>5 DEF SnapTypeOK, Apply

LEMMA TypesApplyFails ==
  ASSUME SnapTypeOK, NEW isRedo \in BOOLEAN, NEW done \in SUBSET Files, ApplyFails(isRedo, done)
  PROVE  SnapTypeOK'
<1> DEFINE cs == Last(Stack(isRedo))
<1>1. cs \in ChangeSet
  BY StackTop DEF ApplyFails
<1>2. files' \in [Files -> FileState]
  BY <1>1, TargetTypes DEF ApplyFails, SnapTypeOK
<1> QED
  BY <1>2 DEF SnapTypeOK, ApplyFails

-----------------------------------------------------------------------------
(* Stacks, one file at a time *)

LEMMA PushOther ==
  ASSUME NEW s \in Seq(ChangeSet), NEW cs \in ChangeSet, NEW isRedo \in BOOLEAN, NEW f,
         f \notin DOMAIN cs
  PROVE  /\ Chained(s, isRedo, f) => Chained(Append(s, cs), isRedo, f)
         /\ \A v : Topped(s, isRedo, f, v) => Topped(Append(s, cs), isRedo, f, v)
<1>1. /\ Len(s) \in Nat /\ Len(Append(s, cs)) = Len(s) + 1
      /\ Append(s, cs)[Len(s) + 1] = cs
      /\ \A i \in 1 .. Len(s) : Append(s, cs)[i] = s[i]
  BY AppendFacts
<1>2. ASSUME Chained(s, isRedo, f) PROVE Chained(Append(s, cs), isRedo, f)
  BY <1>1, <1>2 DEF Chained, Adjacent
<1>3. ASSUME NEW v, Topped(s, isRedo, f, v) PROVE Topped(Append(s, cs), isRedo, f, v)
  BY <1>1, <1>3 DEF Topped, Latest
<1> QED
  BY <1>2, <1>3

LEMMA PushSame ==
  ASSUME NEW s \in Seq(ChangeSet), NEW cs \in ChangeSet, NEW isRedo \in BOOLEAN, NEW f,
         f \in DOMAIN cs
  PROVE  /\ Chained(s, isRedo, f) /\ Topped(s, isRedo, f, Target(cs, isRedo, f))
              => Chained(Append(s, cs), isRedo, f)
         /\ Topped(Append(s, cs), isRedo, f, Wanted(cs, isRedo, f))
<1>1. /\ Len(s) \in Nat /\ Len(Append(s, cs)) = Len(s) + 1
      /\ Append(s, cs)[Len(s) + 1] = cs
      /\ \A i \in 1 .. Len(s) : Append(s, cs)[i] = s[i]
  BY AppendFacts
<1>2. ASSUME Chained(s, isRedo, f), Topped(s, isRedo, f, Target(cs, isRedo, f)),
             NEW i \in 1 .. Len(s) + 1, NEW j \in 1 .. Len(s) + 1,
             Adjacent(Append(s, cs), f, i, j)
      PROVE  Wanted(Append(s, cs)[i], isRedo, f) = Target(Append(s, cs)[j], isRedo, f)
  <2>1. CASE j = Len(s) + 1
    <3>1. Latest(s, f, i)
      BY <1>1, <1>2, <2>1 DEF Adjacent, Latest
    <3>2. Wanted(s[i], isRedo, f) = Target(cs, isRedo, f)
      BY <1>2, <3>1 DEF Topped, Latest
    <3> QED
      BY <1>1, <2>1, <3>1, <3>2 DEF Latest
  <2>2. CASE j # Len(s) + 1
    <3>1. Adjacent(s, f, i, j)
      BY <1>1, <1>2, <2>2 DEF Adjacent
    <3> QED
      BY <1>1, <1>2, <3>1 DEF Chained, Adjacent
  <2> QED
    BY <2>1, <2>2
<1>3. Topped(Append(s, cs), isRedo, f, Wanted(cs, isRedo, f))
  BY <1>1 DEF Topped, Latest
<1> QED
  BY <1>1, <1>2, <1>3 DEF Chained

LEMMA PopStack ==
  ASSUME NEW s \in Seq(ChangeSet), s # <<>>, NEW isRedo \in BOOLEAN, NEW f
  PROVE  /\ Chained(s, isRedo, f) => Chained(Front(s), isRedo, f)
         /\ f \in DOMAIN Last(s) /\ Chained(s, isRedo, f)
              => Topped(Front(s), isRedo, f, Target(Last(s), isRedo, f))
         /\ f \notin DOMAIN Last(s)
              => \A v : Topped(s, isRedo, f, v) => Topped(Front(s), isRedo, f, v)
<1>1. /\ Len(s) \in Nat /\ Len(s) > 0 /\ Last(s) = s[Len(s)]
      /\ Len(Front(s)) = Len(s) - 1
      /\ \A i \in 1 .. Len(s) - 1 : Front(s)[i] = s[i]
  BY FrontProperties
<1>2. ASSUME Chained(s, isRedo, f) PROVE Chained(Front(s), isRedo, f)
  BY <1>1, <1>2 DEF Chained, Adjacent
<1>3. ASSUME f \in DOMAIN Last(s), Chained(s, isRedo, f), NEW i \in 1 .. Len(s) - 1,
             Latest(Front(s), f, i)
      PROVE  Wanted(Front(s)[i], isRedo, f) = Target(Last(s), isRedo, f)
  <2>1. Adjacent(s, f, i, Len(s))
    BY <1>1, <1>3 DEF Adjacent, Latest
  <2> QED
    BY <1>1, <1>3, <2>1 DEF Chained
<1>4. ASSUME f \notin DOMAIN Last(s), NEW v, Topped(s, isRedo, f, v),
             NEW i \in 1 .. Len(s) - 1, Latest(Front(s), f, i)
      PROVE  Wanted(Front(s)[i], isRedo, f) = v
  <2>1. Latest(s, f, i)
    BY <1>1, <1>4 DEF Latest
  <2> QED
    BY <1>1, <1>4, <2>1 DEF Topped
<1> QED
  BY <1>1, <1>2, <1>3, <1>4 DEF Topped

LEMMA EmptyStack ==
  ASSUME NEW isRedo, NEW f
  PROVE  Chained(<<>>, isRedo, f) /\ \A v : Topped(<<>>, isRedo, f, v)
<1>1. Len(<<>>) = 0
  OBVIOUS
<1> QED
  BY <1>1 DEF Chained, Topped

-----------------------------------------------------------------------------
(* The snapshots *)

SnapInv ==
    /\ awaiting \subseteq IF Recording THEN DOMAIN current ELSE {}
    /\ RecordedInv
    /\ StacksInv

\* Steps that move no change set.
LEMMA StacksKept ==
  ASSUME StacksInv, UNCHANGED <<undo, redo>>,
         touched \subseteq touched', broken \subseteq broken',
         \A f \in Files \ (touched' \cup broken') : Base(f)' = Base(f)
  PROVE  StacksInv'
BY DEF StacksInv, Stack

LEMMA SnapBegin ==
  ASSUME SnapTypeOK, SnapInv, ~Recording, Begin
  PROVE  SnapInv' /\ Recording'
<1>1. DOMAIN current' = {} /\ Recording'
  BY NoChangesEmpty, ChangeSetElements DEF Begin, Recording
<1>2. \A f : Base(f)' = Base(f)
  BY <1>1 DEF Begin, Base
<1> QED
  BY <1>1, <1>2, StacksKept DEF SnapInv, RecordedInv, Begin

LEMMA SnapDiscard ==
  ASSUME SnapTypeOK, SnapInv, Discard
  PROVE  SnapInv' /\ ~Recording'
<1>1. ~Recording'
  BY DEF Discard, Recording
<1>2. \A f \in Files \ (touched' \cup broken') : Base(f)' = Base(f)
  BY <1>1 DEF Discard, Base
<1> QED
  BY <1>1, <1>2, StacksKept DEF SnapInv, RecordedInv, Discard

LEMMA SnapRecordBefore ==
  ASSUME SnapTypeOK, SnapInv, NEW f \in Files, RecordBefore(f)
  PROVE  /\ SnapInv' /\ (Recording' <=> Recording)
         /\ Recording => DOMAIN current \subseteq DOMAIN current' /\ f \in DOMAIN current'
<1>1. CASE Recording /\ f \notin DOMAIN current
  <2>1. /\ current' = [g \in DOMAIN current \cup {f} |->
                         IF g = f THEN [before |-> files[f], after |-> Absent] ELSE current[g]]
        /\ awaiting' = awaiting \cup {f}
        /\ UNCHANGED <<files, undo, redo, broken, touched>>
    BY <1>1 DEF RecordBefore
  <2>2. Recording' /\ DOMAIN current' = DOMAIN current \cup {f}
    BY <1>1, <2>1, TypesRecordBefore
  <2>3. \A g \in Files : Base(g)' = Base(g)
    BY <1>1, <2>1, <2>2 DEF Base
  <2>4. RecordedInv'
    BY <1>1, <2>1, <2>2 DEF RecordedInv, SnapInv
  <2> QED
    BY <1>1, <2>1, <2>2, <2>3, <2>4, StacksKept DEF SnapInv
<1>2. CASE ~(Recording /\ f \notin DOMAIN current)
  <2>1. UNCHANGED snapVars
    BY <1>2 DEF RecordBefore, snapVars
  <2> QED
    BY <1>2, <2>1, StacksKept DEF SnapInv, RecordedInv, Recording, Base, snapVars
<1> QED
  BY <1>1, <1>2

LEMMA SnapRecordAfter ==
  ASSUME SnapTypeOK, SnapInv, NEW f \in Files, RecordAfter(f)
  PROVE  /\ SnapInv' /\ (Recording' <=> Recording)
         /\ Recording => DOMAIN current \subseteq DOMAIN current'
<1>1. CASE Recording
  <2>1. /\ DOMAIN current' = DOMAIN current \cup {f} /\ Recording'
        /\ \A g \in DOMAIN current \ {f} : current'[g] = current[g]
        /\ awaiting' = awaiting \ {f}
        /\ UNCHANGED <<files, undo, redo, broken, touched>>
    BY <1>1, TypesRecordAfter DEF RecordAfter
  <2>2. /\ current'[f].after = files[f]
        /\ current'[f].before = IF f \in DOMAIN current THEN current[f].before ELSE files[f]
    <3>1. CASE f \in DOMAIN current
      <4>1. current[f] \in Change
        BY <1>1, <3>1, ChangeSetElements DEF SnapTypeOK, Recording
      <4>2. current'[f] = [current[f] EXCEPT !.after = files[f]]
        BY <1>1, <3>1 DEF RecordAfter
      <4> QED
        BY <3>1, <4>1, <4>2 DEF Change
    <3>2. CASE f \notin DOMAIN current
      BY <1>1, <3>2 DEF RecordAfter
    <3> QED
      BY <3>1, <3>2
  <2>3. \A g \in Files : Base(g)' = Base(g)
    BY <1>1, <2>1, <2>2 DEF Base
  <2>4. RecordedInv'
    BY <1>1, <2>1, <2>2 DEF RecordedInv, SnapInv
  <2> QED
    BY <1>1, <2>1, <2>3, <2>4, StacksKept DEF SnapInv
<1>2. CASE ~Recording
  BY <1>2, StacksKept DEF SnapInv, RecordAfter, RecordedInv, Recording, Base
<1> QED
  BY <1>1, <1>2

\* A call of the run in progress writes a file it has recorded, anybody else
\* a file that is not spoken of any more.
LEMMA SnapWrite ==
  ASSUME SnapTypeOK, SnapInv, NEW f \in Files, NEW c, NEW late \in BOOLEAN, Write(f, c, late),
         ~late => Recording /\ f \in DOMAIN current
  PROVE  SnapInv' /\ (Recording' <=> Recording)
<1>1. \A g \in Files \ (touched' \cup broken') : Base(g)' = Base(g)
  BY DEF Write, Base, Recording, SnapTypeOK
<1>2. RecordedInv'
  BY DEF SnapInv, RecordedInv, Write, Recording, SnapTypeOK
<1>3. awaiting' \subseteq IF Recording' THEN DOMAIN current' ELSE {}
  BY DEF SnapInv, Write, Recording
<1> QED
  BY <1>1, <1>2, <1>3, StacksKept DEF SnapInv, Write, Recording

LEMMA SnapCommit ==
  ASSUME SnapTypeOK, SnapInv, Commit
  PROVE  SnapInv' /\ ~Recording'
<1>1. ~Recording' /\ awaiting' = {}
  BY DEF Commit, Recording
<1>2. CASE Recording /\ current # NoChanges
  <2>1. /\ undo' = Append(undo, current) /\ redo' = <<>>
        /\ UNCHANGED <<files, touched>> /\ broken' = broken \cup awaiting
    BY <1>2 DEF Commit
  <2>2. current \in ChangeSet /\ undo \in Seq(ChangeSet)
    BY <1>2 DEF SnapTypeOK, Recording
  <2>3. ASSUME NEW f \in Files \ (touched' \cup broken')
        PROVE  Chained(undo', FALSE, f) /\ Topped(undo', FALSE, f, files[f])
    <3>1. Chained(undo, FALSE, f) /\ Topped(undo, FALSE, f, Base(f))
      BY <2>1, <2>3 DEF SnapInv, StacksInv, Stack
    <3>2. CASE f \in DOMAIN current
      <4>1. Base(f) = Target(current, FALSE, f)
        BY <1>2, <3>2 DEF Base, Target
      <4>2. files[f] = Wanted(current, FALSE, f)
        BY <1>2, <2>1, <2>3, <3>2 DEF SnapInv, RecordedInv, Wanted
      <4> QED
        BY <2>1, <2>2, <3>1, <3>2, <4>1, <4>2, PushSame
    <3>3. CASE f \notin DOMAIN current
      <4>1. Base(f) = files[f]
        BY <3>3 DEF Base
      <4> QED
        BY <2>1, <2>2, <3>1, <3>3, <4>1, PushOther
    <3> QED
      BY <3>2, <3>3
  <2>4. \A f : Base(f)' = files[f]
    BY <1>1, <2>1 DEF Base
  <2>5. StacksInv'
    BY <2>1, <2>3, <2>4, EmptyStack DEF StacksInv, Stack
  <2> QED
    BY <1>1, <2>5 DEF SnapInv, RecordedInv
<1>3. CASE ~(Recording /\ current # NoChanges)
  <2>1. UNCHANGED <<files, undo, redo, touched>> /\ broken' = broken \cup awaiting
    BY <1>3 DEF Commit
  <2>2. \A f : Base(f) = files[f]
    BY <1>3, NoChangesEmpty DEF Base
  <2>3. \A f : Base(f)' = files[f]
    BY <1>1, <2>1 DEF Base
  <2> QED
    BY <1>1, <2>1, <2>2, <2>3, StacksKept DEF SnapInv, RecordedInv
<1> QED
  BY <1>2, <1>3

LEMMA SnapApply ==
  ASSUME SnapTypeOK, SnapInv, ~Recording, NEW isRedo \in BOOLEAN, Apply(isRedo)
  PROVE  SnapInv' /\ ~Recording'
<1> DEFINE s == Stack(isRedo)
           t == Stack(~isRedo)
           cs == Last(s)
<1>1. /\ s # <<>> /\ s \in Seq(ChangeSet) /\ t \in Seq(ChangeSet) /\ cs \in ChangeSet
      /\ DOMAIN cs \subseteq Files
  BY StackTop, ChangeSetElements DEF Apply
<1>2. /\ Stack(isRedo)' = Front(s)
      /\ Stack(~isRedo)' = Append(t, cs)
  BY DEF Apply, Moved, Stack
<1>3. /\ \A f \in DOMAIN cs : files[f] = Wanted(cs, isRedo, f)
      /\ files' = [f \in Files |-> IF f \in DOMAIN cs THEN Target(cs, isRedo, f) ELSE files[f]]
      /\ UNCHANGED <<current, awaiting, broken, touched>>
  BY DEF Apply, CurrentState
<1>4. /\ ~Recording'
      /\ \A f : Base(f) = files[f]
      /\ \A f : Base(f)' = files'[f]
  BY <1>3 DEF Recording, Base
<1>5. ASSUME NEW f \in Files \ (touched \cup broken)
      PROVE  /\ Chained(Front(s), isRedo, f) /\ Topped(Front(s), isRedo, f, files'[f])
             /\ Chained(Append(t, cs), ~isRedo, f) /\ Topped(Append(t, cs), ~isRedo, f, files'[f])
  <2>1. /\ Chained(s, isRedo, f) /\ Topped(s, isRedo, f, files[f])
        /\ Chained(t, ~isRedo, f) /\ Topped(t, ~isRedo, f, files[f])
    BY <1>4, <1>5 DEF SnapInv, StacksInv
  <2>2. CASE f \in DOMAIN cs
    <3>1. /\ files'[f] = Target(cs, isRedo, f)
          /\ files'[f] = Wanted(cs, ~isRedo, f)
          /\ files[f] = Target(cs, ~isRedo, f)
      BY <1>3, <2>2 DEF Target, Wanted
    <3>2. Chained(Front(s), isRedo, f) /\ Topped(Front(s), isRedo, f, files'[f])
      BY <1>1, <2>1, <2>2, <3>1, PopStack
    <3>3. Chained(Append(t, cs), ~isRedo, f) /\ Topped(Append(t, cs), ~isRedo, f, files'[f])
      BY <1>1, <2>1, <2>2, <3>1, PushSame
    <3> QED
      BY <3>2, <3>3
  <2>3. CASE f \notin DOMAIN cs
    <3>1. files'[f] = files[f]
      BY <1>3, <2>3
    <3> QED
      BY <1>1, <2>1, <2>3, <3>1, PopStack, PushOther
  <2> QED
    BY <2>2, <2>3
<1>6. StacksInv'
  BY <1>2, <1>3, <1>4, <1>5 DEF StacksInv
<1> QED
  BY <1>3, <1>4, <1>6 DEF SnapInv, RecordedInv

LEMMA SnapApplyFails ==
  ASSUME SnapTypeOK, SnapInv, ~Recording, NEW isRedo \in BOOLEAN, NEW done \in SUBSET Files,
         ApplyFails(isRedo, done)
  PROVE  SnapInv' /\ ~Recording'
<1>1. \A f \in Files \ (touched' \cup broken') : Base(f)' = Base(f)
  BY DEF ApplyFails, Base, Recording
<1> QED
  BY <1>1, StacksKept DEF SnapInv, RecordedInv, ApplyFails, Recording

-----------------------------------------------------------------------------
(* The application: types, and which call may write what *)

AppInv == TypeOK /\ ConversationInv /\ SnapInv /\ ToolsInv

LEMMA ConversationTypes ==
  ASSUME ConversationInv
  PROVE  /\ phase \in {"idle", "prompt", "resume"}
         /\ history \in Seq(Message) /\ pending \in BOOLEAN /\ unsaved \in BOOLEAN
         /\ store \in [messages : Seq(Message), checkpoint : BOOLEAN]
BY DEF ConversationInv, Conversation

LEMMA ToolTypes ==
  ASSUME TypeOK, NEW t \in Tools, tool[t].at # "free"
  PROVE  /\ tool[t] \in [at : {"before", "inner", "format", "after"}, file : Files, late : BOOLEAN]
         /\ tool[t] # Free /\ tool[t].file \in Files /\ tool[t].late \in BOOLEAN
BY DEF TypeOK, Tool, Free

LEMMA AppInit == Init => AppInv
<1> SUFFICES ASSUME Init PROVE AppInv
  OBVIOUS
<1>1. <<>> \in Seq(Message) /\ <<>> \in Seq(ChangeSet)
  BY EmptySeq
<1>2. TypeOK
  <2>1. SnapTypeOK
    BY <1>1 DEF Init, SnapInit, SnapTypeOK
  <2>2. tool \in [Tools -> Tool]
    BY DEF Init, Tool
  <2>3. store \in [messages : Seq(Message), checkpoint : BOOLEAN]
    BY <1>1 DEF Init
  <2>4. phase = "idle" /\ history = <<>> /\ pending = FALSE /\ unsaved = FALSE
    BY DEF Init
  <2>5. runs \in 0 .. MaxRuns /\ calls \in 0 .. MaxCalls /\ faults \in 0 .. MaxFaults
    BY CodingAppAssumption DEF Init
  <2> QED
    BY <1>1, <2>1, <2>2, <2>3, <2>4, <2>5 DEF TypeOK
<1>3. SnapInv
  BY EmptyStack DEF Init, SnapInit, SnapInv, RecordedInv, StacksInv, Stack, Recording
<1>4. ToolsInv
  BY DEF Init, SnapInit, ToolsInv, Recording, Idle
<1> QED
  BY <1>2, <1>3, <1>4, ConversationInit DEF AppInv

\* A call begins, goes on or ends, at one place of the code.
LEMMA ToolsStep ==
  ASSUME TypeOK, NEW t \in Tools, NEW at, NEW next \in Tool, Step(t, at, next),
         calls' \in 0 .. MaxCalls, SnapTypeOK', ToolsInv, SnapInv',
         Recording' <=> Recording,
         Recording => DOMAIN current \subseteq DOMAIN current',
         next # Free /\ ~next.late =>
             ~Idle /\ (next.at # "before" => next.file \in DOMAIN current')
  PROVE  TypeOK' /\ ToolsInv'
<1>1. /\ tool' = [tool EXCEPT ![t] = next]
      /\ UNCHANGED <<phase, history, pending, store, unsaved, runs, faults>>
  BY DEF Step
<1>2. TypeOK'
  BY <1>1 DEF TypeOK, Tool
<1>3. ToolsInv'
  <2>1. ASSUME NEW u \in Tools, tool'[u] # Free, ~tool'[u].late
        PROVE  ~Idle' /\ (tool'[u].at # "before" => tool'[u].file \in DOMAIN current')
    <3>1. CASE u = t
      BY <1>1, <2>1, <3>1 DEF Idle, TypeOK
    <3>2. CASE u # t
      <4>1. tool'[u] = tool[u]
        BY <1>1, <3>2 DEF TypeOK
      <4>2. ~Idle /\ Recording /\ (tool[u].at # "before" => tool[u].file \in DOMAIN current)
        BY <2>1, <4>1 DEF ToolsInv
      <4> QED
        BY <1>1, <4>1, <4>2 DEF Idle
    <3> QED
      BY <3>1, <3>2
  <2>2. awaiting' \subseteq IF Recording' THEN DOMAIN current' ELSE {}
    BY DEF SnapInv
  <2>3. Recording' <=> ~Idle'
    BY <1>1 DEF ToolsInv, Idle
  <2> QED
    BY <2>1, <2>2, <2>3 DEF ToolsInv
<1> QED
  BY <1>2, <1>3

LEMMA ToolStartsInv ==
  ASSUME AppInv, NEW t \in Tools, NEW f \in Files, ToolStarts(t, f)
  PROVE  TypeOK' /\ SnapInv' /\ ToolsInv'
<1>1. SnapTypeOK' /\ SnapInv' /\ UNCHANGED current
  BY StacksKept DEF AppInv, TypeOK, SnapTypeOK, SnapInv, ToolStarts, snapVars, RecordedInv, Recording, Base
<1>2. At("before", f, FALSE) \in Tool /\ At("before", f, FALSE) # Free
      /\ At("before", f, FALSE).at = "before"
  BY DEF At, Tool, Free
<1>3. calls' \in 0 .. MaxCalls /\ ~Idle
  BY CodingAppAssumption DEF AppInv, TypeOK, ToolStarts, Step
<1> QED
  BY <1>1, <1>2, <1>3, ToolsStep DEF AppInv, ToolStarts, Recording

LEMMA ToolRecordsBeforeInv ==
  ASSUME AppInv, NEW t \in Tools, ToolRecordsBefore(t)
  PROVE  TypeOK' /\ SnapInv' /\ ToolsInv'
<1> DEFINE next == [tool[t] EXCEPT !.at = "inner"]
<1>1. /\ tool[t] \in [at : {"before", "inner", "format", "after"}, file : Files, late : BOOLEAN]
      /\ tool[t] # Free /\ tool[t].file \in Files
  BY ToolTypes DEF AppInv, ToolRecordsBefore, Step
<1>2. /\ next \in Tool /\ next # Free
      /\ next.at = "inner" /\ next.file = tool[t].file /\ next.late = tool[t].late
  BY <1>1 DEF Tool, Free
<1>3. SnapTypeOK'
  BY <1>1, TypesRecordBefore DEF AppInv, TypeOK, ToolRecordsBefore
<1>4. /\ SnapInv' /\ (Recording' <=> Recording)
      /\ Recording => DOMAIN current \subseteq DOMAIN current' /\ tool[t].file \in DOMAIN current'
  BY <1>1, SnapRecordBefore DEF AppInv, TypeOK, ToolRecordsBefore
<1>5. ~next.late => ~Idle /\ next.file \in DOMAIN current'
  BY <1>1, <1>2, <1>4 DEF AppInv, ToolsInv
<1>6. calls' \in 0 .. MaxCalls
  BY DEF AppInv, TypeOK, ToolRecordsBefore, Step
<1>7. Step(t, "before", next)
  BY DEF ToolRecordsBefore
<1> HIDE DEF next
<1> QED
  BY <1>2, <1>3, <1>4, <1>5, <1>6, <1>7, ToolsStep DEF AppInv

\* The tool, or the formatter, which may also leave the file alone.
LEMMA ToolWritesInv ==
  ASSUME AppInv, NEW t \in Tools, NEW from \in {"inner", "format"}, NEW to \in {"format", "after"},
         Step(t, from, [tool[t] EXCEPT !.at = to]),
         (\E c \in Contents : Write(tool[t].file, c, tool[t].late)) \/ UNCHANGED snapVars
  PROVE  TypeOK' /\ SnapInv' /\ ToolsInv'
<1> DEFINE next == [tool[t] EXCEPT !.at = to]
<1>1. /\ tool[t] \in [at : {"before", "inner", "format", "after"}, file : Files, late : BOOLEAN]
      /\ tool[t] # Free /\ tool[t].file \in Files /\ tool[t].late \in BOOLEAN /\ tool[t].at = from
  BY ToolTypes DEF AppInv, Step
<1>2. /\ next \in Tool /\ next # Free
      /\ next.at = to /\ next.file = tool[t].file /\ next.late = tool[t].late
  BY <1>1 DEF Tool, Free
<1>3. ~tool[t].late => ~Idle /\ Recording /\ tool[t].file \in DOMAIN current
  BY <1>1 DEF AppInv, ToolsInv
<1>4. Contents \subseteq FileState
  BY DEF FileState
<1>5. SnapTypeOK' /\ SnapInv' /\ UNCHANGED current
  <2>1. CASE \E c \in Contents : Write(tool[t].file, c, tool[t].late)
    BY <1>1, <1>3, <1>4, <2>1, TypesWrite, SnapWrite DEF AppInv, TypeOK, Write
  <2>2. CASE UNCHANGED snapVars
    BY <2>2, StacksKept DEF AppInv, TypeOK, SnapTypeOK, SnapInv, snapVars, RecordedInv, Recording, Base
  <2> QED
    BY <2>1, <2>2
<1>6. calls' \in 0 .. MaxCalls
  BY DEF AppInv, TypeOK, Step
<1> HIDE DEF next
<1>7. Step(t, from, next)
  BY DEF next
<1> QED
  BY <1>2, <1>3, <1>5, <1>6, <1>7, ToolsStep DEF AppInv, Recording

LEMMA ToolFailsInv ==
  ASSUME AppInv, NEW t \in Tools, ToolFails(t)
  PROVE  TypeOK' /\ SnapInv' /\ ToolsInv'
<1>1. SnapTypeOK' /\ SnapInv' /\ UNCHANGED current
  BY StacksKept DEF AppInv, TypeOK, SnapTypeOK, SnapInv, ToolFails, snapVars, RecordedInv, Recording, Base
<1>2. PICK at \in {"before", "inner"} : Step(t, at, Free)
  BY DEF ToolFails
<1>3. calls' \in 0 .. MaxCalls
  BY <1>2 DEF AppInv, TypeOK, Step
<1>4. Free \in Tool
  BY DEF Tool
<1> QED
  BY <1>1, <1>2, <1>3, <1>4, ToolsStep DEF AppInv, Recording

LEMMA ToolRecordsAfterInv ==
  ASSUME AppInv, NEW t \in Tools, ToolRecordsAfter(t)
  PROVE  TypeOK' /\ SnapInv' /\ ToolsInv'
<1>1. tool[t].file \in Files
  BY ToolTypes DEF AppInv, ToolRecordsAfter, Step
<1>2. SnapTypeOK'
  BY <1>1, TypesRecordAfter DEF AppInv, TypeOK, ToolRecordsAfter
<1>3. /\ SnapInv' /\ (Recording' <=> Recording)
      /\ Recording => DOMAIN current \subseteq DOMAIN current'
  BY <1>1, SnapRecordAfter DEF AppInv, TypeOK, ToolRecordsAfter
<1>4. calls' \in 0 .. MaxCalls
  BY DEF AppInv, TypeOK, ToolRecordsAfter, Step
<1>5. Free \in Tool
  BY DEF Tool
<1> QED
  BY <1>2, <1>3, <1>4, <1>5, ToolsStep DEF AppInv, ToolRecordsAfter

\* The run is over: every call that still runs is late.
LEMMA RunOverInv ==
  ASSUME AppInv, ConversationInv', RunOver, Commit \/ Discard, faults' \in 0 .. MaxFaults
  PROVE  TypeOK' /\ SnapInv' /\ ToolsInv'
<1>1. SnapTypeOK' /\ SnapInv' /\ ~Recording'
  <2>1. CASE Commit
    BY <2>1, TypesCommit, SnapCommit DEF AppInv, TypeOK
  <2>2. CASE Discard
    BY <2>2, TypesDiscard, SnapDiscard DEF AppInv, TypeOK
  <2> QED
    BY <2>1, <2>2
<1>2. \A t \in Tools : Orphans[t] \in Tool /\ (Orphans[t] = Free \/ Orphans[t].late)
  <2> SUFFICES ASSUME NEW t \in Tools PROVE Orphans[t] \in Tool /\ (Orphans[t] = Free \/ Orphans[t].late)
    OBVIOUS
  <2>1. CASE tool[t] = Free
    BY <2>1 DEF Orphans, Tool
  <2>2. CASE tool[t] # Free
    <3>1. tool[t] \in [at : {"before", "inner", "format", "after"}, file : Files, late : BOOLEAN]
      BY <2>2 DEF AppInv, TypeOK, Tool
    <3> QED
      BY <2>2, <3>1 DEF Orphans, Tool
  <2> QED
    BY <2>1, <2>2
<1>3. tool' = Orphans /\ tool' \in [Tools -> Tool]
  BY <1>2 DEF RunOver, Orphans
<1>4. TypeOK'
  BY <1>1, <1>3, ConversationTypes DEF AppInv, TypeOK, RunOver, ConversationInv, Conversation
<1>5. ToolsInv'
  BY <1>1, <1>2, <1>3 DEF ToolsInv, RunOver, Idle, SnapInv
<1> QED
  BY <1>1, <1>4, <1>5

\* A run begins: there is no recording, hence no call that is not late.
LEMMA RunBeginsInv ==
  ASSUME AppInv, ConversationInv', Idle, phase' \in {"prompt", "resume"}, Begin,
         runs < MaxRuns, runs' = runs + 1, UNCHANGED <<tool, calls, faults>>
  PROVE  TypeOK' /\ SnapInv' /\ ToolsInv'
<1>1. ~Recording
  BY DEF AppInv, ToolsInv
<1>2. SnapTypeOK' /\ SnapInv' /\ Recording'
  BY <1>1, TypesBegin, SnapBegin DEF AppInv, TypeOK
<1>3. runs' \in 0 .. MaxRuns
  BY CodingAppAssumption DEF AppInv, TypeOK
<1>4. TypeOK'
  BY <1>2, <1>3, ConversationTypes DEF AppInv, TypeOK, ConversationInv, Conversation
<1>5. ToolsInv'
  BY <1>2 DEF AppInv, ToolsInv, Idle, SnapInv
<1> QED
  BY <1>2, <1>4, <1>5

\* Between runs, or while somebody else edits: the calls go on as they were.
LEMMA OutsideInv ==
  ASSUME AppInv, ConversationInv', SnapTypeOK', SnapInv', Recording' <=> Recording,
         Recording => UNCHANGED current,
         UNCHANGED <<phase, tool, runs, calls>>, faults' \in 0 .. MaxFaults
  PROVE  TypeOK' /\ ToolsInv'
<1>1. TypeOK'
  BY ConversationTypes DEF AppInv, TypeOK, ConversationInv, Conversation
<1>2. ToolsInv'
  BY DEF AppInv, ToolsInv, Idle, SnapInv
<1> QED
  BY <1>1, <1>2

LEMMA RestartInv ==
  ASSUME AppInv, ConversationInv', Restart
  PROVE  TypeOK' /\ SnapInv' /\ ToolsInv'
<1>1. <<>> \in Seq(ChangeSet) /\ ~Recording'
  BY EmptySeq DEF Restart, Recording
<1>2. SnapTypeOK'
  BY <1>1 DEF AppInv, TypeOK, SnapTypeOK, Restart
<1>3. SnapInv'
  BY <1>1, EmptyStack DEF SnapInv, RecordedInv, StacksInv, Stack, Restart
<1>4. tool' \in [Tools -> Tool] /\ \A t \in Tools : tool'[t] = Free
  BY DEF Restart, Tool
<1>5. faults' \in 0 .. MaxFaults
  BY CodingAppAssumption DEF AppInv, TypeOK, Restart
<1>6. TypeOK'
  BY <1>2, <1>4, <1>5, ConversationTypes DEF AppInv, TypeOK, ConversationInv, Conversation, Restart
<1>7. ToolsInv'
  BY <1>1, <1>4 DEF ToolsInv, Restart, Idle
<1> QED
  BY <1>3, <1>6, <1>7

LEMMA AppKept ==
  ASSUME AppInv, ConversationInv', UNCHANGED snapVars, UNCHANGED <<phase, tool, runs, calls>>,
         faults' \in 0 .. MaxFaults
  PROVE  TypeOK' /\ SnapInv' /\ ToolsInv'
<1>1. SnapTypeOK' /\ SnapInv' /\ (Recording' <=> Recording) /\ UNCHANGED current
  BY StacksKept DEF AppInv, TypeOK, SnapTypeOK, SnapInv, snapVars, RecordedInv, Recording, Base
<1> QED
  BY <1>1, OutsideInv

LEMMA AppStep == AppInv /\ [Next]_vars => AppInv'
<1> SUFFICES ASSUME AppInv, [Next]_vars PROVE TypeOK' /\ SnapInv' /\ ToolsInv'
  BY ConversationStep DEF AppInv
<1>0. ConversationInv'
  BY ConversationStep DEF AppInv
<1>1. \A n \in 0 .. MaxFaults : n < MaxFaults => n + 1 \in 0 .. MaxFaults
  BY CodingAppAssumption
<1>2. faults \in 0 .. MaxFaults
  BY DEF AppInv, TypeOK
<1>3. ~Recording <=> Idle
  BY DEF AppInv, ToolsInv
<1>4. CASE UNCHANGED vars
  BY <1>0, <1>2, <1>4, AppKept DEF vars, appVars
<1>5. CASE RunPrompt \/ RunResume
  BY <1>0, <1>5, RunBeginsInv DEF RunPrompt, RunResume
<1>6. ASSUME NEW t \in Tools,
             \/ \E f \in Files : ToolStarts(t, f)
             \/ ToolRecordsBefore(t)
             \/ ToolFails(t)
             \/ ToolRecordsAfter(t)
      PROVE  TypeOK' /\ SnapInv' /\ ToolsInv'
  BY <1>6, ToolStartsInv, ToolRecordsBeforeInv, ToolFailsInv, ToolRecordsAfterInv
<1>7. ASSUME NEW t \in Tools, (\E c \in Contents : ToolWrites(t, c)) \/ ToolFormats(t)
      PROVE  TypeOK' /\ SnapInv' /\ ToolsInv'
  <2>1. CASE \E c \in Contents : ToolWrites(t, c)
    BY <2>1, ToolWritesInv DEF ToolWrites
  <2>2. CASE ToolFormats(t)
    BY <2>2, ToolWritesInv DEF ToolFormats
  <2> QED
    BY <1>7, <2>1, <2>2
<1>8. CASE SettleResult \/ StashPause \/ RunFails \/ RunCancelled
  <2>1. RunOver /\ (Commit \/ Discard)
    BY <1>8 DEF SettleResult, StashPause, RunFails, RunCancelled
  <2>2. faults' \in 0 .. MaxFaults
    BY <1>1, <1>2, <1>8 DEF SettleResult, StashPause, RunFails, RunCancelled, Save
  <2> QED
    BY <1>0, <2>1, <2>2, RunOverInv
<1>9. ASSUME NEW isRedo \in BOOLEAN, UndoOrRedo(isRedo)
      PROVE  TypeOK' /\ SnapInv' /\ ToolsInv'
  <2>1. SnapTypeOK' /\ SnapInv' /\ ~Recording'
    BY <1>3, <1>9, TypesApply, SnapApply DEF AppInv, TypeOK, UndoOrRedo
  <2>2. UNCHANGED <<phase, tool, runs, calls, faults>>
    BY <1>9 DEF UndoOrRedo, appVars
  <2> QED
    BY <1>0, <1>2, <1>3, <1>9, <2>1, <2>2, OutsideInv DEF UndoOrRedo
<1>10. ASSUME NEW isRedo \in BOOLEAN, UndoFails(isRedo)
       PROVE  TypeOK' /\ SnapInv' /\ ToolsInv'
  <2>1. SnapTypeOK' /\ SnapInv' /\ ~Recording'
    BY <1>3, <1>10, TypesApplyFails, SnapApplyFails DEF AppInv, TypeOK, UndoFails
  <2>2. UNCHANGED <<phase, tool, runs, calls>> /\ faults' \in 0 .. MaxFaults
    BY <1>1, <1>2, <1>10 DEF UndoFails
  <2> QED
    BY <1>0, <1>3, <1>10, <2>1, <2>2, OutsideInv DEF UndoFails
<1>11. CASE Clear
  <2>1. UNCHANGED snapVars /\ UNCHANGED <<phase, tool, runs, calls>> /\ faults' \in 0 .. MaxFaults
    BY <1>1, <1>2, <1>11 DEF Clear, Save
  <2> QED
    BY <1>0, <2>1, AppKept
<1>12. ASSUME NEW f \in Files, NEW c \in FileState, OutsideEdit(f, c)
       PROVE  TypeOK' /\ SnapInv' /\ ToolsInv'
  <2>1. SnapTypeOK' /\ SnapInv' /\ (Recording' <=> Recording) /\ UNCHANGED current
    BY <1>12, TypesWrite, SnapWrite DEF AppInv, TypeOK, OutsideEdit, Write
  <2>2. UNCHANGED <<phase, tool, runs, calls>> /\ faults' \in 0 .. MaxFaults
    BY <1>1, <1>2, <1>12 DEF OutsideEdit
  <2> QED
    BY <1>0, <2>1, <2>2, OutsideInv
<1>13. CASE Restart
  BY <1>0, <1>13, RestartInv
<1> QED
  BY <1>4, <1>5, <1>6, <1>7, <1>8, <1>9, <1>10, <1>11, <1>12, <1>13 DEF Next

\* Every variable of the application and of its snapshots keeps its type.
THEOREM Typing == Spec => []TypeOK
<1>1. AppInv => TypeOK
  BY DEF AppInv
<1> QED
  BY <1>1, AppInit, AppStep, PTL DEF Spec

\* Between runs, a file only the prompts of this session have changed is as the
\* next /undo and the next /redo want it, for any number of files, parallel calls
\* and change sets: each entry of a stack wants what the nearest entry above it
\* restores, and the topmost wants what is on disk (mutations.go:59-119, 154-207).
THEOREM UndoAndRedoApply == Spec => []StacksApply
<1>1. AppInv => StacksApply
  <2> SUFFICES ASSUME AppInv, Idle, NEW isRedo \in BOOLEAN, Stack(isRedo) # <<>>,
                      NEW f \in DOMAIN Last(Stack(isRedo)) \ (touched \cup broken)
               PROVE  files[f] = Wanted(Last(Stack(isRedo)), isRedo, f)
    BY DEF StacksApply
  <2> DEFINE s == Stack(isRedo)
  <2>1. /\ s \in Seq(ChangeSet) /\ Last(s) \in ChangeSet
        /\ Len(s) \in Nat /\ Len(s) > 0 /\ Last(s) = s[Len(s)]
    BY StackTop, FrontProperties DEF AppInv, TypeOK
  <2>2. f \in Files \ (touched \cup broken)
    BY <2>1, ChangeSetElements
  <2>3. Latest(s, f, Len(s))
    BY <2>1 DEF Latest
  <2>4. Wanted(s[Len(s)], isRedo, f) = Base(f)
    BY <2>1, <2>2, <2>3 DEF AppInv, SnapInv, StacksInv, Topped
  <2>5. Base(f) = files[f]
    BY DEF AppInv, ToolsInv, Base
  <2> QED
    BY <2>1, <2>4, <2>5
<1> QED
  BY <1>1, AppInit, AppStep, PTL DEF Spec

=============================================================================
