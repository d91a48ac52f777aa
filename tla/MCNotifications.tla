-------------------------- MODULE MCNotifications ---------------------------
(***************************************************************************)
(* Instances of Notifications for TLC: detections have a debounce period   *)
(* (five minutes in the code), a disk that runs low a shorter one (thirty  *)
(* seconds), a missing card none.                                          *)
(***************************************************************************)
EXTENDS Notifications

MCKinds == {"detected", "lowDisk", "card"}
MCTypeOf == [k \in MCKinds |-> IF k = "card" THEN "Storage" ELSE "Warning"]
MCDebounce == [k \in MCKinds |-> IF k = "detected" THEN 3
                                 ELSE IF k = "lowDisk" THEN 1 ELSE 0]
MCEnabled == {"Warning", "Storage"}
=============================================================================
