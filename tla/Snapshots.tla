----------------------------- MODULE Snapshots -----------------------------
(***************************************************************************)
(* The snapshot manager of the example application                         *)
(* (examples/gage-coding/mutations.go): what write_file and edit change    *)
(* during a prompt is recorded file by file in a change set; /undo and     *)
(* /redo move whole change sets between two stacks and write the recorded  *)
(* states back.  Every operation holds the manager's mutex; the tool's own *)
(* write and the formatter's come between two of them.                     *)
(***************************************************************************)
EXTENDS Naturals, Sequences, SequencesExt, FiniteSets, Functions

CONSTANTS
    Files,      \* the files of the workspace
    Contents,   \* what a file may hold
    Absent,     \* fileState{}: there is no such file
    None        \* no change set is being recorded

VARIABLES
    files,      \* the files on disk
    current,    \* the change set being recorded: [path -> before, after]
    undo,       \* change sets, the latest last
    redo,
    awaiting,   \* history: files of current whose state now is not recorded
    broken,     \* history: files in a change set that never got that state
    touched     \* history: files changed by somebody else than a running prompt

snapVars == <<files, current, undo, redo, awaiting, broken, touched>>

FileState == Contents \cup {Absent}
Change    == [before : FileState, after : FileState]
ChangeSet == UNION {[F -> Change] : F \in SUBSET Files}
NoChanges == [f \in {} |-> Absent]

ASSUME SnapshotsAssumption == Absent \notin Contents /\ None \notin ChangeSet

SnapTypeOK ==
    /\ files \in [Files -> FileState]
    /\ current \in ChangeSet \cup {None}
    /\ undo \in Seq(ChangeSet)
    /\ redo \in Seq(ChangeSet)
    /\ \A S \in {awaiting, broken, touched} : S \subseteq Files

SnapInit ==
    /\ files \in [Files -> FileState]
    /\ current = None
    /\ undo = <<>>
    /\ redo = <<>>
    /\ awaiting = {}
    /\ broken = {}
    /\ touched = {}

-----------------------------------------------------------------------------
Recording == current # None

Begin ==
    /\ current' = NoChanges
    /\ awaiting' = {}
    /\ UNCHANGED <<files, undo, redo, broken, touched>>

\* What was recorded is forgotten; the files stay as they are.
Discard ==
    /\ current' = None
    /\ awaiting' = {}
    /\ touched' = IF Recording THEN touched \cup DOMAIN current ELSE touched
    /\ UNCHANGED <<files, undo, redo, broken>>

Commit ==
    /\ IF Recording /\ current # NoChanges
       THEN undo' = Append(undo, current) /\ redo' = <<>>
       ELSE UNCHANGED <<undo, redo>>
    /\ broken' = broken \cup awaiting
    /\ current' = None
    /\ awaiting' = {}
    /\ UNCHANGED <<files, touched>>

\* Mutant of RecordBefore: a second tool records the file again.
RecordBeforeAgain(f) ==
    /\ current' = IF Recording
                  THEN [g \in DOMAIN current \cup {f} |->
                          IF g = f THEN [before |-> files[f], after |-> Absent] ELSE current[g]]
                  ELSE current
    /\ awaiting' = IF Recording THEN awaiting \cup {f} ELSE awaiting
    /\ UNCHANGED <<files, undo, redo, broken, touched>>

\* Only the first call of a prompt for a file counts.  The state after is the
\* zero value, no such file, until RecordAfter fills it in.
RecordBefore(f) ==
    /\ IF Recording /\ f \notin DOMAIN current
       THEN /\ current' = [g \in DOMAIN current \cup {f} |->
                             IF g = f THEN [before |-> files[f], after |-> Absent] ELSE current[g]]
            /\ awaiting' = awaiting \cup {f}
       ELSE UNCHANGED <<current, awaiting>>
    /\ UNCHANGED <<files, undo, redo, broken, touched>>

\* A file RecordBefore has not seen in this prompt is taken as it is now.
RecordAfter(f) ==
    /\ IF Recording
       THEN current' = [g \in DOMAIN current \cup {f} |->
                          IF g # f THEN current[g]
                          ELSE IF f \in DOMAIN current THEN [current[f] EXCEPT !.after = files[f]]
                          ELSE [before |-> files[f], after |-> files[f]]]
       ELSE UNCHANGED current
    /\ awaiting' = awaiting \ {f}
    /\ UNCHANGED <<files, undo, redo, broken, touched>>

\* A tool or its formatter writes; late: the prompt it belonged to is over.
Write(f, c, late) ==
    /\ files' = [files EXCEPT ![f] = c]
    /\ touched' = IF late THEN touched \cup {f} ELSE touched
    /\ awaiting' = IF late THEN awaiting ELSE awaiting \cup {f}
    /\ UNCHANGED <<current, undo, redo, broken>>

-----------------------------------------------------------------------------
(* applyTop *)

\* The states apply writes, and those checkCurrentState wants to find.
Target(cs, isRedo, f) == IF isRedo THEN cs[f].after ELSE cs[f].before
Wanted(cs, isRedo, f) == IF isRedo THEN cs[f].before ELSE cs[f].after

CurrentState(cs, isRedo) == \A f \in DOMAIN cs : files[f] = Wanted(cs, isRedo, f)

Stack(isRedo) == IF isRedo THEN redo ELSE undo

Moved(isRedo) ==
    LET cs == Last(Stack(isRedo))
    IN  IF isRedo
        THEN redo' = Front(redo) /\ undo' = Append(undo, cs)
        ELSE undo' = Front(undo) /\ redo' = Append(redo, cs)

Apply(isRedo) ==
    /\ Stack(isRedo) # <<>>
    /\ CurrentState(Last(Stack(isRedo)), isRedo)
    /\ LET cs == Last(Stack(isRedo))
       IN  files' = [f \in Files |-> IF f \in DOMAIN cs THEN Target(cs, isRedo, f) ELSE files[f]]
    /\ Moved(isRedo)
    /\ UNCHANGED <<current, awaiting, broken, touched>>

\* A write fails: the files before it, in the map's order, are written, the
\* change set stays where it is.
ApplyFails(isRedo, done) ==
    /\ Stack(isRedo) # <<>>
    /\ CurrentState(Last(Stack(isRedo)), isRedo)
    /\ LET cs == Last(Stack(isRedo))
       IN  /\ done \subseteq DOMAIN cs
           /\ done # DOMAIN cs
           /\ files' = [f \in Files |-> IF f \in done THEN Target(cs, isRedo, f) ELSE files[f]]
    /\ touched' = touched \cup done
    /\ UNCHANGED <<current, undo, redo, awaiting, broken>>

\* "refusing to apply snapshot: ... changed since it was recorded"
Refused(isRedo) ==
    /\ Stack(isRedo) # <<>>
    /\ ~CurrentState(Last(Stack(isRedo)), isRedo)
=============================================================================
