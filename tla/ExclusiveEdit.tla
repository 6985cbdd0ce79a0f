--------------------------- MODULE ExclusiveEdit ---------------------------
(***************************************************************************)
(* What transparent access promises to the holders of documents: a         *)
(* document has at most one editor at a time, only its editor changes it,  *)
(* and no change takes away what was there before.  The promise for a      *)
(* document ends when its lock is broken under an editor that still works. *)
(***************************************************************************)
CONSTANTS
    Editors,    \* who may edit
    Docs,       \* what may be edited
    Edits,      \* what a content is made of
    Nobody      \* no editor

VARIABLES
    editor,     \* the editor of each document, or Nobody
    content,    \* what each document contains
    broken      \* documents whose lock was broken

vars == <<editor, content, broken>>

Init ==
    /\ editor = [d \in Docs |-> Nobody]
    /\ content = [d \in Docs |-> {}]
    /\ broken = {}

Take(e, d) ==
    /\ editor[d] = Nobody
    /\ editor' = [editor EXCEPT ![d] = e]
    /\ UNCHANGED <<content, broken>>

\* The editor stores a content that extends the present one.
Extend(d) ==
    /\ editor[d] # Nobody
    /\ \E c \in SUBSET Edits :
        /\ content[d] \subseteq c
        /\ content' = [content EXCEPT ![d] = c]
    /\ UNCHANGED <<editor, broken>>

Leave(d) ==
    /\ editor[d] # Nobody
    /\ editor' = [editor EXCEPT ![d] = Nobody]
    /\ UNCHANGED <<content, broken>>

\* The lock is taken away from an editor that still works.
Break(d) ==
    /\ editor[d] # Nobody
    /\ editor' = [editor EXCEPT ![d] = Nobody]
    /\ broken' = broken \cup {d}
    /\ UNCHANGED content

\* From then on nothing is promised of the document's content.
Overwrite(d) ==
    /\ d \in broken
    /\ \E c \in SUBSET Edits : content' = [content EXCEPT ![d] = c]
    /\ UNCHANGED <<editor, broken>>

Next ==
    \E d \in Docs :
        \/ \E e \in Editors : Take(e, d)
        \/ Extend(d) \/ Leave(d) \/ Break(d) \/ Overwrite(d)

Spec == Init /\ [][Next]_vars
=============================================================================
