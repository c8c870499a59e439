----------------------------- MODULE SlotCache ------------------------------
(***************************************************************************)
(* What ExpertCache promises its callers, without the policy: a table from *)
(* keys to slots, references that pin an entry to its slot, and requests   *)
(* that may be refused.  ExpertCache implements it (the property           *)
(* ImplementsSlotCache there), and SlabRemap is written against it, so     *)
(* that its results hold for every eviction policy.                        *)
(***************************************************************************)
EXTENDS Integers

CONSTANTS
    Key,     \* what is cached: an expert of a layer
    Slot,    \* the slots
    NoSlot,  \* the slot of a key that has none, no member of Slot
    MaxRefs  \* bound: references held on one key at a time

VARIABLES
    seat,  \* key -> its slot
    refs   \* key -> references the callers hold

seatVars == <<seat, refs>>

Seated(k) == seat[k] # NoSlot

SeatInit ==
    /\ seat = [k \in Key |-> NoSlot]
    /\ refs = [k \in Key |-> 0]

\* A hit takes one more reference on the key and leaves its slot alone.
Reuse(k) ==
    /\ Seated(k) /\ refs[k] < MaxRefs
    /\ refs' = [refs EXCEPT ![k] = @ + 1]
    /\ UNCHANGED seat

\* A slot can be given away unless a key that is in use has it.
Grantable(s) == \A j \in Key : seat[j] = s => refs[j] = 0

\* A key without a slot gets s; an idle key that had it is evicted.
Granted(k, s) ==
    /\ ~Seated(k) /\ Grantable(s)
    /\ seat' = [j \in Key |-> IF j = k THEN s
                              ELSE IF seat[j] = s THEN NoSlot ELSE seat[j]]

\* A miss takes the first reference on the key it seats.
Grant(k, s) == Granted(k, s) /\ refs' = [refs EXCEPT ![k] = 1]

\* The reference on a miss may be returned in the same call.
GrantUnused(k, s) == Granted(k, s) /\ UNCHANGED refs

\* References end.
Drop ==
    /\ refs' \in [Key -> 0 .. MaxRefs]
    /\ \A k \in Key : refs'[k] <= refs[k]
    /\ UNCHANGED seat

\* Before first use, some keys may be given slots of their own.
Preload ==
    /\ \A k \in Key : ~Seated(k)
    /\ seat' \in [Key -> Slot \cup {NoSlot}]
    /\ \A j, k \in Key : seat'[j] = seat'[k] => j = k \/ seat'[j] = NoSlot
    /\ UNCHANGED refs

SeatNext ==
    \/ \E k \in Key : Reuse(k) \/ \E s \in Slot : Grant(k, s) \/ GrantUnused(k, s)
    \/ Drop \/ Preload

SeatSpec == SeatInit /\ [][SeatNext]_seatVars
-----------------------------------------------------------------------------
SeatTypeOK ==
    /\ seat \in [Key -> Slot \cup {NoSlot}]
    /\ refs \in [Key -> 0 .. MaxRefs]

\* No slot is given to two keys.
OneKeyPerSlot == \A j, k \in Key : Seated(j) /\ seat[j] = seat[k] => j = k

\* Only a key that has a slot is referenced.
RefsNeedASeat == \A k \in Key : refs[k] > 0 => Seated(k)

\* While a key is referenced its slot does not move and is not taken away.
HeldKeysStay ==
    [][\A k \in Key : refs[k] > 0 => seat'[k] = seat[k]]_seatVars
=============================================================================
