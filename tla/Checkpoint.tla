----------------------------- MODULE Checkpoint -----------------------------
(***************************************************************************)
(* What the persistence of a session promises, whatever the mechanism: the *)
(* disk holds, for every session, an image the machine really had at one   *)
(* instant. Images reach the disk whole or not at all, only from the       *)
(* session that is open, and only while this page owns the database.       *)
(***************************************************************************)
CONSTANTS
    Sessions,     \* the sessions in the database
    Images,       \* memory, card and machine state: [mem, state] records
    None,         \* no session, no image, no state
    Restored(_)   \* the machines that opening a stored image may yield

VARIABLES
    disk,     \* the image stored for each session
    current,  \* the open session
    live,     \* the machine of the open session
    shot,     \* the image on its way to the disk
    owner     \* this page owns the database

vars == <<disk, current, live, shot, owner>>

Stateless(image) == [image EXCEPT !.state = None]

Init ==
    /\ disk \in [Sessions -> Images]
    /\ current = None /\ live = None /\ shot = None
    /\ owner = TRUE

Open(s) ==
    /\ current = None /\ owner
    /\ current' = s
    /\ live' \in Restored(disk[s])
    /\ UNCHANGED <<disk, shot, owner>>

Run ==
    /\ current # None
    /\ live' \in Images
    /\ UNCHANGED <<disk, current, shot, owner>>

\* The one instant at which an image is taken, with or without machine state.
Capture ==
    /\ current # None /\ owner /\ shot = None
    /\ \E image \in {live, Stateless(live)} : shot' = [sid |-> current, image |-> image]
    /\ UNCHANGED <<disk, current, live, owner>>

Commit ==
    /\ shot # None /\ owner
    /\ disk' = [disk EXCEPT ![shot.sid] = shot.image]
    /\ shot' = None
    /\ UNCHANGED <<current, live, owner>>

Drop ==
    /\ shot # None
    /\ shot' = None
    /\ UNCHANGED <<disk, current, live, owner>>

Close ==
    /\ current # None
    /\ current' = None /\ live' = None
    /\ UNCHANGED <<disk, shot, owner>>

ResetState(s) ==
    /\ s # current /\ owner /\ shot = None
    /\ disk' = [disk EXCEPT ![s] = Stateless(@)]
    /\ UNCHANGED <<current, live, shot, owner>>

Crash ==
    /\ disk' \in {disk} \cup (IF shot = None THEN {}
                              ELSE {[disk EXCEPT ![shot.sid] = shot.image]})
    /\ current' = None /\ live' = None /\ shot' = None
    /\ owner' = TRUE

LoseOwnership ==
    /\ owner /\ shot = None
    /\ owner' = FALSE
    /\ UNCHANGED <<disk, current, live, shot>>

\* Another page writes the disk. The pages of a card that is not mounted are
\* part of the image as they are on disk, so the image may change with them.
Foreign ==
    /\ ~owner
    /\ disk' \in [Sessions -> Images]
    /\ IF current = None THEN live' = None ELSE live' \in Images
    /\ UNCHANGED <<current, shot, owner>>

Next ==
    \/ \E s \in Sessions : Open(s) \/ ResetState(s)
    \/ Run \/ Capture \/ Commit \/ Drop \/ Close
    \/ Crash \/ LoseOwnership \/ Foreign

Spec == Init /\ [][Next]_vars
=============================================================================
