--------------------------- MODULE WriteOnceStore ---------------------------
(***************************************************************************)
(* What the writer of claim/evidence artifacts promises: one place that    *)
(* holds at most one artifact.  Storing is acknowledged only when the      *)
(* place then holds exactly what was stored, and happens only in a place   *)
(* that was free: neither another artifact nor anything else that is there *)
(* is replaced by storing.  Storing may fail and leave debris, which is    *)
(* then in the way like any other content.  Only the user, whose file it   *)
(* is, removes or changes content; each such change flips "changed", which *)
(* no other step does.                                                     *)
(***************************************************************************)
CONSTANTS
    Artifacts,  \* what writers store; debris and edited artifacts are other contents
    Nothing     \* the place is free: not an artifact

VARIABLES
    content,      \* what the place holds
    acknowledged, \* the artifacts reported as stored since the user's last change
    changed       \* the parity of the user's changes

vars == <<content, acknowledged, changed>>

\* Whatever is there before the first command is in the way as well.
Init == content \notin Artifacts /\ acknowledged = {} /\ changed = FALSE

Store(a) ==
    /\ content = Nothing
    /\ content' = a
    /\ acknowledged' = {a}
    /\ UNCHANGED changed

StoreAgain(a) ==
    /\ content = a
    /\ acknowledged' = acknowledged \cup {a}
    /\ UNCHANGED <<content, changed>>

LeaveDebris ==
    /\ content = Nothing
    /\ content' \notin Artifacts \cup {Nothing}
    /\ UNCHANGED <<acknowledged, changed>>

UserChanges == acknowledged' = {} /\ changed' = ~changed

Next ==
    \/ \E a \in Artifacts : Store(a) \/ StoreAgain(a)
    \/ LeaveDebris
    \/ UserChanges

Spec == Init /\ [][Next]_vars
=============================================================================
