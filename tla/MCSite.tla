------------------------------- MODULE MCSite -------------------------------
(***************************************************************************)
(* The parts of the site around a game, checked in one run.  They share no *)
(* state in the code either, so a behaviour is about one of them, its      *)
(* scene, and the others keep their initial state: the numbers of states   *)
(* add up instead of multiplying.                                          *)
(***************************************************************************)
EXTENDS Room, Accounts, Records, Uploads, Effects, Lounge, Shell, Desk, TLC

CONSTANTS u1, u2,    \* players in one part or another
          x1, x2,    \* calls, sessions, games, lobbies
          r1, r2     \* requests

VARIABLE scene

siteVars == <<roomVars, accountVars, recordVars, uploadVars, effectVars, loungeVars,
              shellVars, deskVars, scene>>

Scenes == {"room", "accounts", "records", "uploads", "effects", "lounge", "shell", "desk"}

-----------------------------------------------------------------------------
(* Values of the constants and bounds. *)
MCBudgets == {[play |-> 2, talk |-> 0, visit |-> 0], [play |-> 1, talk |-> 0, visit |-> 1],
              [play |-> 0, talk |-> 3, visit |-> 0]}
MCPlayersOf == [g \in {x1, x2} |-> {u1, u2}]
MCChances == {[faults |-> 1, leavers |-> 2, pages |-> {}], [faults |-> 0, leavers |-> 1, pages |-> {"highlights"}],
              [faults |-> 0, leavers |-> 0, pages |-> {"profile"}]}
MCShows == {[speak |-> 5, throw |-> 0], [speak |-> 0, throw |-> 4], [speak |-> 1, throw |-> 2]}
MCOutings == {[edit |-> 2, visit |-> 0, open |-> 0], [edit |-> 1, visit |-> 1, open |-> 0],
              [edit |-> 0, visit |-> 1, open |-> 2]}
MCTrips == {[calls |-> 2, faults |-> 0, loads |-> 0, events |-> 0],
            [calls |-> 1, faults |-> 1, loads |-> 0, events |-> 0],
            [calls |-> 1, faults |-> 0, loads |-> 1, events |-> 0],
            [calls |-> 1, faults |-> 0, loads |-> 0, events |-> 1]}
MCDeskBounds == {[writes |-> 2, visits |-> 3, strokes |-> 0], [writes |-> 1, visits |-> 3, strokes |-> 2]}

Symmetry == {f @@ g @@ h : f \in Permutations({u1, u2}), g \in Permutations({x1, x2}),
                           h \in Permutations({r1, r2})}

-----------------------------------------------------------------------------
(* A scene that is not played has one initial state.  Only the parameters of the
   rating are typed over. *)
ShellElsewhere == ~setupDone /\ trips = CHOOSE b \in Trips : TRUE
LoungeElsewhere == attending = Guests /\ outing = CHOOSE o \in Outings : TRUE
DeskElsewhere == subject = "rating" /\ bound = CHOOSE b \in DeskBounds : TRUE

Init ==
  /\ scene \in Scenes
  /\ RoomInit /\ (scene = "room" \/ left = CHOOSE b \in Budgets : TRUE)
  /\ AccountsInit
  /\ RecordsInit /\ (scene = "records" \/ chance = CHOOSE c \in Chances : TRUE)
  /\ UploadsInit
  /\ EffectsInit /\ (scene = "effects" \/ showing = CHOOSE s \in Shows : TRUE)
  /\ LoungeInit /\ (scene = "lounge" \/ LoungeElsewhere)
  /\ ShellInit /\ (scene = "shell" \/ ShellElsewhere)
  /\ DeskInit /\ (scene = "desk" \/ DeskElsewhere) /\ (bound.strokes > 0 => subject = "rating")

Next ==
  /\ \/ /\ scene = "room" /\ RoomNext
        /\ UNCHANGED <<accountVars, recordVars, uploadVars, effectVars, loungeVars, shellVars, deskVars>>
     \/ /\ scene = "accounts" /\ AccountsNext
        /\ UNCHANGED <<roomVars, recordVars, uploadVars, effectVars, loungeVars, shellVars, deskVars>>
     \/ /\ scene = "records" /\ RecordsNext
        /\ UNCHANGED <<roomVars, accountVars, uploadVars, effectVars, loungeVars, shellVars, deskVars>>
     \/ /\ scene = "uploads" /\ UploadsNext
        /\ UNCHANGED <<roomVars, accountVars, recordVars, effectVars, loungeVars, shellVars, deskVars>>
     \/ /\ scene = "effects" /\ EffectsNext
        /\ UNCHANGED <<roomVars, accountVars, recordVars, uploadVars, loungeVars, shellVars, deskVars>>
     \/ /\ scene = "lounge" /\ (RoomSideNext \/ ListSideNext)
        /\ UNCHANGED <<roomVars, accountVars, recordVars, uploadVars, effectVars, shellVars, deskVars>>
     \/ /\ scene = "shell" /\ ShellNext
        /\ UNCHANGED <<roomVars, accountVars, recordVars, uploadVars, effectVars, loungeVars, deskVars>>
     \/ /\ scene = "desk" /\ DeskNext
        /\ UNCHANGED <<roomVars, accountVars, recordVars, uploadVars, effectVars, loungeVars, shellVars>>
  /\ UNCHANGED scene

Spec == Init /\ [][Next]_siteVars
=============================================================================
