----------------------------- MODULE StateFile ------------------------------
(***************************************************************************)
(* What the store of the observed state promises its user (the interface   *)
(* Store of controlplane/vm/store.go): saving replaces one whole state by  *)
(* another, never by a mixture, and the state of a save that has returned  *)
(* without error survives everything.                                      *)
(***************************************************************************)
CONSTANTS
    States,  \* the states that can be saved
    NoState  \* no file yet

VARIABLES
    content,  \* what Load would read now
    safe,     \* what Load may read after a power cut now
    saving,   \* the state a call of Save is writing, or NoState
    result    \* "ok" or "error", as the last Save returned, or "none"

Init ==
    /\ content \in States \cup {NoState}
    /\ safe = {content}
    /\ saving = NoState
    /\ result = "none"

Begin(v) ==
    /\ saving = NoState
    /\ saving' = v
    /\ result' = "none"
    /\ UNCHANGED <<content, safe>>

\* The new state takes the place of the old one at once.  A power cut may
\* still bring back one of those that were not known to be gone.
Replace ==
    /\ saving # NoState
    /\ content' = saving
    /\ \E kept \in SUBSET safe : safe' = kept \cup {saving}
    /\ UNCHANGED <<saving, result>>

\* Save returns nil: nothing but the new state can be read any more.
Acknowledge ==
    /\ saving # NoState
    /\ content = saving
    /\ safe' = {content}
    /\ saving' = NoState
    /\ result' = "ok"
    /\ UNCHANGED content

\* Save returns an error, or the daemon is killed in it: whichever of the two
\* states is there stays.
Abandon ==
    /\ saving # NoState
    /\ saving' = NoState
    /\ result' \in {"error", "none"}
    /\ UNCHANGED <<content, safe>>

\* The file system writes by itself what it has in memory.
Settle ==
    /\ safe' = {content}
    /\ UNCHANGED <<content, saving, result>>

PowerCut ==
    /\ content' \in safe
    /\ safe' = {content'}
    /\ saving' = NoState
    /\ UNCHANGED result

Next ==
    \/ \E v \in States : Begin(v)
    \/ Replace \/ Acknowledge \/ Abandon \/ Settle \/ PowerCut

Spec == Init /\ [][Next]_<<content, safe, saving, result>>

=============================================================================
