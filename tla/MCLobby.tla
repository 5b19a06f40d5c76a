------------------------------- MODULE MCLobby -------------------------------
(* Maps for TLC's instances of Lobby. *)
EXTENDS Lobby

Open(team, colour) ==
    [pid |-> 0, status |-> "open", computer |-> FALSE, team |-> team, colour |-> colour,
     download |-> 255]

\* Two playing slots and an observer's.
Melee == [slots |-> <<Open(0, 0), Open(1, 1), Open(3, 3)>>, forces |-> FALSE, fixed |-> FALSE,
          nuplayers |-> 2, observers |-> TRUE]

\* Two slots on one team, one on another.
Forces == [slots |-> <<Open(0, 0), Open(0, 1), Open(1, 2)>>, forces |-> TRUE, fixed |-> FALSE,
           nuplayers |-> 3, observers |-> FALSE]

\* The same with fixed settings, and a computer in the middle slot.
Fixed == [Forces EXCEPT !.slots[2] = [Open(1, 1) EXCEPT !.status = "occupied", !.computer = TRUE],
                        !.fixed = TRUE]

ThreeSlotMaps == {Melee, Forces, Fixed}

\* A playing slot and an observer's; MaxSlots is 2.
Small == [slots |-> <<Open(0, 0), Open(2, 2)>>, forces |-> FALSE, fixed |-> FALSE,
          nuplayers |-> 1, observers |-> TRUE]
SmallMaps == {Small}
=============================================================================
