----------------------------- MODULE SBInstance -----------------------------
(***************************************************************************)
(* The embedded sing-box kernel (internal/core/sbinstance.go) and the      *)
(* configuration file it boots from.                                       *)
(*                                                                         *)
(* An SBInstance guards `running` and `box` with the mutex `mu`.  Start    *)
(* and Stop hold it for their whole body; each is two steps here, because  *)
(* the file is written and `box` is read (DialOutbound) without the mutex, *)
(* so other goroutines can move between the read of the file and the boot, *)
(* and between the Close of the box and the clearing of the fields.        *)
(*                                                                         *)
(* A configuration is an opaque value.  What the code can tell of one: it  *)
(* is JSON (WellFormed), sing-box's options parser accepts it (Valid), the *)
(* kernel built from it starts (Bootable).                                 *)
(***************************************************************************)
EXTENDS Integers, FiniteSets

CONSTANTS
    Proc,        \* goroutines of the daemon that serve a request
    Config,      \* contents the configuration file can have
    WellFormed,  \* those json.Unmarshal accepts
    Valid,       \* those option.Options.UnmarshalJSONContext accepts
    Bootable,    \* those box.New and box.Start accept
    Absent,      \* the configuration file does not exist
    NoProc,      \* mu is free
    NoBox,       \* s.box = nil
    MaxFaults    \* bound: transient faults of the disk and of the kernel

ASSUME ConfigAssumption ==
    /\ Bootable \subseteq Valid
    /\ Valid \subseteq WellFormed
    /\ WellFormed \subseteq Config
    /\ Absent \notin Config
ASSUME ProcAssumption == NoProc \notin Proc
ASSUME FaultAssumption == MaxFaults \in Nat

VARIABLES
    mu,       \* holder of SBInstance.mu
    running,  \* SBInstance.running
    box,      \* SBInstance.box
    live,     \* how many kernels are started and not closed
    disk,     \* the configuration file: content, and two ghosts: how many
              \* writes it has seen and whether a sync was the last of them
    floor,    \* ghost: disk.ver when the kernel was last asked to stop
    faults    \* transient faults so far

instVars == <<mu, running, box, live, floor>>

File == [cfg : Config \cup {Absent}, ver : Nat, by : {"apply", "sync"}]
Box  == [cfg : Bootable, ver : Nat]

ASSUME BoxAssumption == NoBox \notin [cfg : Bootable, ver : Nat]

\* `running` is typed with the other flags, in ControlPlane.
InstTypeOK ==
    /\ mu \in Proc \cup {NoProc}
    /\ box \in Box \cup {NoBox}
    /\ live \in Int
    /\ disk \in File
    /\ floor \in Nat
    /\ faults \in 0 .. MaxFaults

InstInit ==
    /\ mu = NoProc
    /\ running = FALSE
    /\ box = NoBox
    /\ live = 0
    /\ \E c \in Config \cup {Absent} : disk = [cfg |-> c, ver |-> 0, by |-> "apply"]
    /\ floor = 0
    /\ faults = 0

\* One step fails or not for a reason outside the program: a full disk, a
\* busy port, an error while the kernel closes its listeners.
MayFail(failed) ==
    IF failed
    THEN faults < MaxFaults /\ faults' = faults + 1
    ELSE UNCHANGED faults

----------------------------------------------------------------------------
(* The configuration file. *)

\* atomicWriteFile: a temporary file and a rename, so no reader ever sees a
\* part of the body.  Removing the file is writing Absent.
WriteFile(c, by) == disk' = [cfg |-> c, ver |-> disk.ver + 1, by |-> by]

----------------------------------------------------------------------------
(* Stop. *)

\* Stop of a kernel that is not running returns nil.
StopNothing ==
    /\ mu = NoProc
    /\ ~running
    /\ floor' = disk.ver
    /\ UNCHANGED <<mu, running, box, live>>

\* Stop up to the end of box.Close().
StopClose(p) ==
    /\ mu = NoProc
    /\ running
    /\ mu' = p
    /\ live' = live - 1
    /\ UNCHANGED <<running, box, floor>>

\* Mutant: s.box is not reset.
StopClearMutant(p) ==
    /\ mu = p
    /\ running' = FALSE
    /\ floor' = disk.ver
    /\ mu' = NoProc
    /\ UNCHANGED <<box, live>>

\* The rest of Stop: whether Close failed or not, the fields are cleared.
StopClear(p) ==
    /\ mu = p
    /\ box' = NoBox
    /\ running' = FALSE
    /\ floor' = disk.ver
    /\ mu' = NoProc
    /\ UNCHANGED live

----------------------------------------------------------------------------
(* Start. *)

\* Start of a running kernel returns nil.
StartNothing ==
    /\ mu = NoProc
    /\ running
    /\ UNCHANGED instVars

\* Mutant: no early return for a running kernel.
StartReadMutant(p) ==
    /\ mu = NoProc
    /\ disk.cfg # Absent
    /\ mu' = p
    /\ UNCHANGED <<running, box, live, floor>>

\* Start up to the end of os.ReadFile, for a file that can be read.
StartRead(p) ==
    /\ mu = NoProc
    /\ ~running
    /\ disk.cfg # Absent
    /\ mu' = p
    /\ UNCHANGED <<running, box, live, floor>>

\* os.ReadFile fails: Start returns its error and nothing has changed.
StartNoFile ==
    /\ mu = NoProc
    /\ ~running
    /\ disk.cfg = Absent
    /\ UNCHANGED instVars

\* Mutant: box and running are assigned before the error of box.Start is
\* looked at.
StartBootMutant(p, got, ok) ==
    /\ mu = p
    /\ box' = got
    /\ running' = TRUE
    /\ live' = IF ok THEN live + 1 ELSE live
    /\ mu' = NoProc
    /\ UNCHANGED floor

\* The rest of Start, on the bytes `got` it has read: parse, box.New and
\* box.Start.  A kernel whose Start fails is closed again.
StartBoot(p, got, ok) ==
    /\ mu = p
    /\ IF ok
       THEN /\ box' = got
            /\ live' = live + 1
            /\ running' = TRUE
       ELSE UNCHANGED <<box, live, running>>
    /\ mu' = NoProc
    /\ UNCHANGED floor

----------------------------------------------------------------------------
(* The process ends: its kernel and its mutex go with it, the file stays. *)

Die ==
    /\ mu' = NoProc
    /\ running' = FALSE
    /\ box' = NoBox
    /\ live' = 0
    /\ floor' = disk.ver

\* The daemon comes up.  newHandler starts the kernel itself when the setting
\* kernel_autostart is on, before the first request can arrive; a failed start
\* is only logged.
AutoStart(ok) ==
    LET got == [cfg |-> disk.cfg, ver |-> disk.ver] IN
    /\ UNCHANGED <<mu, floor>>
    /\ IF ok
       THEN box' = got /\ live' = live + 1 /\ running' = TRUE
       ELSE UNCHANGED <<box, live, running>>
=============================================================================
