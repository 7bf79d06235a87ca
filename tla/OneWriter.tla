----------------------------- MODULE OneWriter -----------------------------
(***************************************************************************)
(* What the gadget cycle lock promises about the disk images: they are     *)
(* with the car, or with this machine, or with nobody, and they pass from  *)
(* one to the other only through nobody's hands.  "both" is the state the  *)
(* lock exists to exclude ("two writers on one block device").  The drive  *)
(* is handed back again and again.                                         *)
(***************************************************************************)

VARIABLE holder  \* who has the images

Holders == {"car", "pi", "nobody"}

Init == holder \in Holders

TakeFromCar == holder = "car" /\ holder' = "nobody"
Mount == holder = "nobody" /\ holder' = "pi"
Unmount == holder = "pi" /\ holder' = "nobody"
GiveToCar == holder = "nobody" /\ holder' = "car"

Next == TakeFromCar \/ Mount \/ Unmount \/ GiveToCar

Spec == Init /\ [][Next]_holder
=============================================================================
