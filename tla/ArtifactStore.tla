---------------------------- MODULE ArtifactStore ----------------------------
(***************************************************************************)
(* What client publication promises to whoever pins the public client set: *)
(* the set is replaced as one atomic step, and the operator's own files    *)
(* change only when the operator edits them.  Nothing else is visible: not *)
(* staging, not journals, not crashes, not recovery.                       *)
(***************************************************************************)
CONSTANTS Payloads,     \* rendered client sets
          LegacySet,    \* the files of a pre-generation client directory
          Unpublished,  \* nothing can be pinned
          Notes,        \* contents of the operator's own files
          NoNotes       \* the operator has no files

VARIABLES published, notes

vars == <<published, notes>>

Init ==
    \/ published = Unpublished /\ notes = NoNotes
    \/ published = LegacySet /\ notes \in Notes

Publish ==
    /\ published' \in Payloads
    /\ notes' = notes

Edit ==
    /\ published # Unpublished
    /\ notes' \in Notes
    /\ published' = published

Next == Publish \/ Edit

Spec == Init /\ [][Next]_vars
==============================================================================
