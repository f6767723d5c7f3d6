----------------------------- MODULE ConfigStore -----------------------------
(***************************************************************************)
(* What saving a configuration promises: a configuration whose save has    *)
(* completed is the one that runs after the next boot.                     *)
(*                                                                         *)
(* running is the configuration in memory, Down while there is none; store *)
(* is the one a boot would bring back, Torn from the moment a save begins  *)
(* until it completes, and when a save completed of a configuration that   *)
(* is not Storable.  Nothing is promised of a boot from a torn store.      *)
(***************************************************************************)
CONSTANTS
    Down,        \* no configuration in memory
    Torn,        \* nothing promised of the stored configuration
    Storable(_)  \* the configurations a save is faithful to

VARIABLES running, store

vars == <<running, store>>

Init == running = Down /\ store = Torn

(* The operator changes the configuration, as often as he likes.           *)
Edit ==
    /\ running # Down
    /\ running' # Down
    /\ UNCHANGED store

StartSave ==
    /\ running # Down
    /\ store' = Torn
    /\ UNCHANGED running

FinishSave ==
    /\ running # Down
    /\ store' = IF Storable(running) THEN running ELSE Torn
    /\ UNCHANGED running

(* Power is lost, or the controller is restarted.                          *)
Stop ==
    /\ running' = Down
    /\ UNCHANGED store

Boot ==
    /\ running = Down
    /\ running' # Down
    /\ store # Torn => running' = store
    /\ UNCHANGED store

Next == Edit \/ StartSave \/ FinishSave \/ Stop \/ Boot

Spec == Init /\ [][Next]_vars
=============================================================================
