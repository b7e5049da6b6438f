------------------------------ MODULE ProjectVault ------------------------------
(***************************************************************************)
(* What a user may expect of a directory that projects are saved to: a     *)
(* version of the project that was reported as saved is given up only when *)
(* a newer one is kept, whatever fails and whenever the program dies. Only *)
(* a device that takes a part of what is written to it may break this.     *)
(***************************************************************************)

EXTENDS Integers

VARIABLES
  kept,      (* The versions of which a complete copy is on the disk.      *)
  reported,  (* The version the user was last told to be saved, or Nothing.*)
  damaged    (* The device has cut a file short.                           *)

vaultVars == <<kept, reported, damaged>>

Nothing == -2

VaultInit == kept = {} /\ reported = Nothing /\ damaged = FALSE

(* A copy of a version is complete.                                        *)
Keep == /\ \E v \in kept' : kept' = kept \union {v}
        /\ UNCHANGED <<reported, damaged>>

(* Copies of a version are removed or moved over.                          *)
GiveUp == /\ \E v \in kept : /\ kept' = kept \ {v}
                             /\ \E w \in kept : w > v
          /\ UNCHANGED <<reported, damaged>>

Report == /\ reported' \in kept /\ reported' >= reported
          /\ UNCHANGED <<kept, damaged>>

(* From here on nothing is promised.                                       *)
Damage == damaged'

VaultNext == Keep \/ GiveUp \/ Report \/ Damage

VaultSpec == VaultInit /\ [][VaultNext]_vaultVars
=============================================================================
