------------------------- MODULE OwnershipContract -------------------------
(***************************************************************************)
(* What the move-only handles promise ("move-only raii state; the          *)
(* destructor is the only cleanup, and the c api never leaks past this     *)
(* type", src/include/detail/backend.hpp): an engine's state exists        *)
(* exactly as long as one object owns it, a move hands it on, and only a   *)
(* call through an object that owns none goes wrong.                       *)
(***************************************************************************)
CONSTANTS Slots, Engines, NoObject, Empty

VARIABLES
    owner,      \* what each variable holds: no object, an empty one, or the
                \* owner of an engine's state
    existing,   \* the engine states there are
    answer      \* of the last operation: "ok", "refused", "fault"

OInit ==
    /\ owner = [s \in Slots |-> NoObject]
    /\ existing = {}
    /\ answer = "ok"

Create(s, e) ==
    /\ owner[s] = NoObject /\ e \notin existing
    /\ owner' = [owner EXCEPT ![s] = e] /\ existing' = existing \cup {e}
    /\ answer' = "ok"

\* Without memory an object without a state, or no object and the end of the program.
OutOfMemory(s) ==
    /\ owner[s] = NoObject /\ UNCHANGED existing
    /\ \/ owner' = [owner EXCEPT ![s] = Empty] /\ answer' = "ok"
       \/ UNCHANGED owner /\ answer' = "fault"

\* To a new object d, or to one whose own state then goes.
Move(d, s) ==
    /\ owner[s] # NoObject /\ d # s
    /\ owner' = [owner EXCEPT ![d] = owner[s], ![s] = Empty]
    /\ existing' = existing \ {owner[d]}
    /\ answer' = "ok"

MoveToItself(s) == owner[s] # NoObject /\ answer' = "ok" /\ UNCHANGED <<owner, existing>>

Drop(s) ==
    /\ owner[s] # NoObject
    /\ owner' = [owner EXCEPT ![s] = NoObject] /\ existing' = existing \ {owner[s]}
    /\ answer' = "ok"

Call(s) ==
    /\ owner[s] # NoObject
    /\ IF owner[s] = Empty THEN answer' = "fault" ELSE answer' \in {"ok", "refused"}
    /\ UNCHANGED <<owner, existing>>

Restart ==
    /\ answer = "fault" /\ answer' = "ok"
    /\ owner' = [s \in Slots |-> NoObject] /\ existing' = {}

ONext ==
    \/ Restart
    \/ /\ answer # "fault"
       /\ \E s \in Slots :
            \/ \E e \in Engines : Create(s, e)
            \/ OutOfMemory(s)
            \/ \E d \in Slots : Move(d, s)
            \/ MoveToItself(s) \/ Drop(s) \/ Call(s)

OSpec == OInit /\ [][ONext]_<<owner, existing, answer>>
=============================================================================
