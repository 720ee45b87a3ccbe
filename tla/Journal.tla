------------------------------- MODULE Journal -------------------------------
(***************************************************************************)
(* What the session recorder promises (docs/resume.md): each conversation  *)
(* has a saved copy; a copy is only ever the conversation as it was, up to *)
(* some point; opening a copy gives it back.  Nothing taken back from the  *)
(* conversation, by a rewind, a refused prompt or a retry, comes back by   *)
(* being saved late.                                                       *)
(***************************************************************************)
EXTENDS Naturals, Sequences, SequencesExt

CONSTANTS
    Conversations,
    Nowhere         \* not one of them: what is open before anything is saved

VARIABLES
    talk,   \* the conversation on screen
    saved,  \* conversation |-> its copy
    open    \* the conversation that is open

vars == <<talk, saved, open>>

Init ==
    /\ talk = <<>>
    /\ saved = [c \in Conversations |-> <<>>]
    /\ open = Nowhere

\* The conversation goes on: some first part of it stays, and what follows is new, not
\* said in it nor saved before.
Speak(to) ==
    /\ \E kept \in 0 .. Len(talk) :
        /\ kept <= Len(to) /\ \A i \in 1 .. kept : to[i] = talk[i]
        /\ \A i \in kept + 1 .. Len(to) :
            to[i] \notin Range(talk) /\ \A c \in Conversations : to[i] \notin Range(saved[c])
    /\ talk' = to

Say == UNCHANGED <<open, saved>> /\ Speak(talk')

\* The open conversation is saved, all of it; one that has no copy gets one.
Save ==
    /\ open' \in Conversations
    /\ open' = open \/ (open = Nowhere /\ saved[open'] = <<>>)
    /\ saved' = [saved EXCEPT ![open'] = talk']
    /\ Speak(talk')

\* A crash: the copy being written keeps some first part of what was saved last.
Die ==
    /\ talk' = <<>> /\ open' = Nowhere
    /\ \A c \in Conversations : IsPrefix(saved'[c], saved[c])
    /\ \A c \in Conversations \ {open} : saved'[c] = saved[c]

New == talk' = <<>> /\ open' = Nowhere /\ UNCHANGED saved

Open(c) == open' = c /\ talk' = saved[c] /\ UNCHANGED saved

Next == Say \/ Save \/ Die \/ New \/ \E c \in Conversations : Open(c)

Spec == Init /\ [][Next]_vars
=============================================================================
