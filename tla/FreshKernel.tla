---------------------------- MODULE FreshKernel ----------------------------
(***************************************************************************)
(* What the control plane promises about the kernel, whatever its requests *)
(* do to each other: saves are numbered; the kernel is off or runs one     *)
(* save; it never changes from one save to another without being off in    *)
(* between; and it is never booted from a save that had been replaced      *)
(* before the kernel was last asked to stop.                               *)
(***************************************************************************)
EXTENDS Integers

CONSTANT Off

VARIABLES
    newest,  \* number of the last save
    floor,   \* number of the last save when the kernel was last stopped
    kernel   \* the save the kernel runs, or Off

avars == <<newest, floor, kernel>>

AInit == newest = 0 /\ floor = 0 /\ kernel = Off

Save == newest' = newest + 1 /\ UNCHANGED <<floor, kernel>>

Halt == kernel' = Off /\ floor' = newest /\ UNCHANGED newest

Launch ==
    /\ kernel = Off
    /\ kernel' \in floor .. newest
    /\ UNCHANGED <<newest, floor>>

ANext == Save \/ Halt \/ Launch

ASpec == AInit /\ [][ANext]_avars
=============================================================================
