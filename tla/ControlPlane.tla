---------------------------- MODULE ControlPlane ----------------------------
(***************************************************************************)
(* The daemon's requests that touch the kernel or the configuration file:  *)
(*                                                                         *)
(*   update    PUT of a configuration (ConfigHandler.UpdateConfig,         *)
(*             UpdateRawConfig): validate, save, restart, roll back        *)
(*   install   the InstallDefault* handlers: read, merge, save, restart    *)
(*   sync      syncOutboundsToConfig: read, rebuild the outbounds, save;   *)
(*             no restart                                                  *)
(*   start, stop, restart    ServiceHandler                                *)
(*   rulesets  RuleSetUpdater.Update: stop, download, start                *)
(*   dial      SBInstance.DialOutbound, for an HTTP latency test           *)
(*                                                                         *)
(* net/http serves every request in a goroutine of its own and no lock     *)
(* covers a whole request: the steps of requests interleave freely, apart  *)
(* from the two critical sections of SBInstance.  The process can die at   *)
(* any step and is started again by its supervisor.                        *)
(***************************************************************************)
EXTENDS SBInstance

CONSTANTS
    Kinds,       \* the kinds of request this instance serves
    Merged,      \* what install makes of a configuration it has read
    Synced,      \* what sync makes of a configuration it has read
    MaxCrashes   \* bound: deaths of the process

AllKinds == {"update", "install", "sync", "start", "stop", "restart",
             "rulesets", "dial"}

ASSUME RequestAssumption ==
    /\ Kinds \subseteq AllKinds
    /\ Merged \in [WellFormed -> WellFormed]
    /\ Synced \in [WellFormed -> WellFormed]
    /\ MaxCrashes \in Nat

VARIABLES
    up,       \* the process is alive
    crashes,  \* how often it has died
    pc,       \* where each goroutine is
    job,      \* why it calls Stop or Start
    body,     \* the configuration it saves
    prev,     \* what it read from the file before
    wrote,    \* ghost: disk.ver of its last write
    got,      \* what os.ReadFile gave to its Start
    answer    \* what it answered

process == <<up, crashes>>
reqVars == <<job, body, prev, wrote, got>>
vars == <<mu, running, box, live, floor, disk, faults, up, crashes, pc, job,
          body, prev, wrote, got, answer>>

Label == {"idle", "read", "write", "stop", "stop_clear", "start",
          "start_boot", "rollback", "inst_read", "sync_read", "sync_write",
          "sync_groups", "sync_undo", "rs_load", "rs_update", "dial",
          "dial_use", "done", "lost"}
Job == {"none", "apply", "undo", "start", "stop", "restart", "rulesets"}
Answers == {"none", "ok", "rolled_back", "invalid", "error", "not_running",
            "panic"}

FlagTypeOK == up \in BOOLEAN /\ running \in BOOLEAN

ReqTypeOK ==
    /\ crashes \in 0 .. MaxCrashes
    /\ pc \in [Proc -> Label]
    /\ job \in [Proc -> Job]
    /\ body \in [Proc -> Config \cup {Absent}]
    /\ prev \in [Proc -> Config \cup {Absent}]
    /\ wrote \in [Proc -> Nat]
    /\ got \in [Proc -> [cfg : Config \cup {Absent}, ver : Nat]]
    /\ answer \in [Proc -> Answers]

\* Types of the kernel's state, the file and the requests.  The file is never
\* anything but a whole body that was saved, or absent.
TypeOK == FlagTypeOK /\ InstTypeOK /\ ReqTypeOK

\* No Start is under way.
NothingRead == [cfg |-> Absent, ver |-> 0]

Init ==
    /\ InstInit
    /\ up = FALSE
    /\ crashes = 0
    /\ pc = [p \in Proc |-> "idle"]
    /\ job = [p \in Proc |-> "none"]
    /\ body = [p \in Proc |-> Absent]
    /\ prev = [p \in Proc |-> Absent]
    /\ wrote = [p \in Proc |-> 0]
    /\ got = [p \in Proc |-> NothingRead]
    /\ answer = [p \in Proc |-> "none"]

----------------------------------------------------------------------------
(* Control flow of one goroutine. *)

Goto(p, l) == pc' = [pc EXCEPT ![p] = l] /\ UNCHANGED answer

Reply(p, a) ==
    /\ pc' = [pc EXCEPT ![p] = "done"]
    /\ answer' = [answer EXCEPT ![p] = a]

\* Where the caller of Stop goes when Stop returns.  Restart calls Start only
\* when Stop returned nil; a failed Restart sends applyConfigBytes to its
\* rollback the first time and out with an error the second time.
AfterStop(p, failed) ==
    IF failed
    THEN IF job[p] = "apply" THEN Goto(p, "rollback") ELSE Reply(p, "error")
    ELSE CASE job[p] = "stop"     -> Reply(p, "ok")
           [] job[p] = "rulesets" -> Goto(p, "rs_update")
           [] OTHER               -> Goto(p, "start")

\* Mutant: a Start that fails outside applyConfigBytes's first attempt is
\* tried again until it works.
AfterStartRetryMutant(p, failed) ==
    IF failed
    THEN IF job[p] = "apply" THEN Goto(p, "rollback") ELSE Goto(p, "start")
    ELSE Reply(p, IF job[p] = "undo" THEN "rolled_back" ELSE "ok")

\* Mutant: the error of the rollback's Restart is dropped.
AfterStartDropMutant(p, failed) ==
    IF failed /\ job[p] = "apply" THEN Goto(p, "rollback")
    ELSE IF failed /\ job[p] # "undo" THEN Reply(p, "error")
    ELSE Reply(p, IF job[p] = "undo" THEN "rolled_back" ELSE "ok")

\* Where the caller of Start goes when Start returns.
AfterStart(p, failed) ==
    IF failed
    THEN IF job[p] = "apply" THEN Goto(p, "rollback") ELSE Reply(p, "error")
    ELSE Reply(p, IF job[p] = "undo" THEN "rolled_back" ELSE "ok")

----------------------------------------------------------------------------
(* A request arrives. *)

\* UpdateConfig and UpdateRawConfig: a body the options parser refuses is
\* answered 400, any other goes to applyConfigBytes.
SubmitUpdate(p, c) ==
    /\ "update" \in Kinds
    /\ IF c \in Valid
       THEN /\ Goto(p, "read")
            /\ body' = [body EXCEPT ![p] = c]
       ELSE Reply(p, "invalid") /\ UNCHANGED body
    /\ UNCHANGED <<job, prev, wrote, got>>

\* The other handlers begin by reading the file or by calling the instance.
SubmitOther(p, k) ==
    /\ k \in Kinds
    /\ Goto(p, CASE k = "install"           -> "inst_read"
                 [] k = "sync"              -> "sync_read"
                 [] k = "rulesets"          -> "rs_load"
                 [] k = "dial"              -> "dial"
                 [] k = "start"             -> "start"
                 [] k \in {"stop", "restart"} -> "stop")
    /\ job' = [job EXCEPT ![p] =
                 IF k \in {"start", "stop", "restart"} THEN k ELSE "none"]
    /\ UNCHANGED <<body, prev, wrote, got>>

Submit(p) ==
    /\ up
    /\ pc[p] = "idle"
    /\ \/ \E c \in Config : SubmitUpdate(p, c)
       \/ \E k \in AllKinds \ {"update"} : SubmitOther(p, k)
    /\ UNCHANGED <<process, instVars, disk, faults>>

----------------------------------------------------------------------------
(* applyConfigBytes. *)

\* previousBody: a missing file is remembered as such, any other read error
\* ends the request.
ApplyRead(p) ==
    /\ pc[p] = "read"
    /\ \E failed \in BOOLEAN :
          /\ MayFail(failed)
          /\ IF failed
             THEN Reply(p, "error") /\ UNCHANGED prev
             ELSE Goto(p, "write") /\ prev' = [prev EXCEPT ![p] = disk.cfg]
    /\ UNCHANGED <<process, instVars, disk, job, body, wrote, got>>

\* Mutant: Start instead of Restart after the write.
ApplyWriteMutant(p) ==
    /\ pc[p] = "write"
    /\ WriteFile(body[p], "apply")
    /\ wrote' = [wrote EXCEPT ![p] = disk.ver + 1]
    /\ job' = [job EXCEPT ![p] = "apply"]
    /\ Goto(p, "start")
    /\ UNCHANGED <<process, instVars, faults, body, prev, got>>

ApplyWrite(p) ==
    /\ pc[p] = "write"
    /\ \E failed \in BOOLEAN :
          /\ MayFail(failed)
          /\ IF failed
             THEN Reply(p, "error") /\ UNCHANGED <<disk, wrote, job>>
             ELSE /\ WriteFile(body[p], "apply")
                  /\ wrote' = [wrote EXCEPT ![p] = disk.ver + 1]
                  /\ job' = [job EXCEPT ![p] = "apply"]
                  /\ Goto(p, "stop")
    /\ UNCHANGED <<process, instVars, body, prev, got>>

\* What the rollback puts back: the previous body, or no file at all when
\* there was none.
Previous(p) == prev[p]

\* Mutant: the rollback puts the file back and leaves the kernel alone.
RollbackMutant(p) ==
    /\ pc[p] = "rollback"
    /\ WriteFile(prev[p], "apply")
    /\ Reply(p, "rolled_back")
    /\ UNCHANGED <<process, instVars, faults, job, body, prev, wrote, got>>

\* The first Restart failed: put the previous file back and restart again.
Rollback(p) ==
    /\ pc[p] = "rollback"
    /\ \E failed \in BOOLEAN :
          /\ MayFail(failed)
          /\ IF failed
             THEN Reply(p, "error") /\ UNCHANGED <<disk, wrote, job>>
             ELSE /\ WriteFile(Previous(p), "apply")
                  /\ wrote' = [wrote EXCEPT ![p] = disk.ver + 1]
                  /\ job' = [job EXCEPT ![p] = "undo"]
                  /\ Goto(p, "stop")
    /\ UNCHANGED <<process, instVars, body, prev, got>>

----------------------------------------------------------------------------
(* The InstallDefault* handlers before applyConfigBytes: the download (rule *)
(* sets only), the read of the file and the merge.                          *)

InstallRead(p) ==
    /\ pc[p] = "inst_read"
    /\ \/ Reply(p, "error") /\ UNCHANGED body   \* download, read or parse failed
       \/ /\ disk.cfg \in WellFormed
          /\ body' = [body EXCEPT ![p] = Merged[disk.cfg]]
          /\ Goto(p, "read")
    /\ UNCHANGED <<process, instVars, disk, faults, job, prev, wrote, got>>

----------------------------------------------------------------------------
(* syncOutboundsToConfig.  Between the read and the write it reads the      *)
(* nodes, the subscriptions and the settings from the database; each read   *)
(* can fail, and then nothing has been written.                             *)

SyncRead(p) ==
    /\ pc[p] = "sync_read"
    /\ \/ Reply(p, "error") /\ UNCHANGED <<body, prev>>
       \/ /\ disk.cfg \in WellFormed
          /\ prev' = [prev EXCEPT ![p] = disk.cfg]
          /\ body' = [body EXCEPT ![p] = Synced[disk.cfg]]
          /\ Goto(p, "sync_write")
    /\ UNCHANGED <<process, instVars, disk, faults, job, wrote, got>>

SyncWrite(p) ==
    /\ pc[p] = "sync_write"
    /\ \E failed \in BOOLEAN :
          /\ MayFail(failed)
          /\ IF failed
             THEN Reply(p, "error") /\ UNCHANGED disk
             ELSE WriteFile(body[p], "sync") /\ Goto(p, "sync_groups")
    /\ UNCHANGED <<process, instVars, job, body, prev, wrote, got>>

\* SetURLTestManagedGroups, a database transaction of its own.
SyncGroups(p) ==
    /\ pc[p] = "sync_groups"
    /\ \E failed \in BOOLEAN :
          /\ MayFail(failed)
          /\ IF failed THEN Goto(p, "sync_undo") ELSE Reply(p, "ok")
    /\ UNCHANGED <<process, instVars, disk, job, body, prev, wrote, got>>

\* The groups could not be saved: write the previous file back.
SyncUndo(p) ==
    /\ pc[p] = "sync_undo"
    /\ \E failed \in BOOLEAN :
          /\ MayFail(failed)
          /\ IF failed THEN UNCHANGED disk ELSE WriteFile(prev[p], "sync")
    /\ Reply(p, "error")
    /\ UNCHANGED <<process, instVars, job, body, prev, wrote, got>>

----------------------------------------------------------------------------
(* RuleSetUpdater.Update.  The kernel is stopped when a remote rule set is  *)
(* selected, whether it was running or not, and started afterwards.         *)

RulesLoad(p) ==
    /\ pc[p] = "rs_load"
    /\ \/ Reply(p, "error") /\ UNCHANGED job    \* loadConfig failed
       \/ /\ disk.cfg \in WellFormed      \* a remote rule set is selected
          /\ job' = [job EXCEPT ![p] = "rulesets"]
          /\ Goto(p, "stop")
       \/ /\ disk.cfg \in WellFormed      \* local rule sets only
          /\ Reply(p, "ok") /\ UNCHANGED job
    /\ UNCHANGED <<process, instVars, disk, faults, body, prev, wrote, got>>

\* The downloads and the writes to the rule-set cache.
RulesUpdate(p) ==
    /\ pc[p] = "rs_update"
    /\ Goto(p, "start")
    /\ UNCHANGED <<process, instVars, disk, faults, job, body, prev, wrote,
                   got>>

----------------------------------------------------------------------------
(* The calls of SBInstance. *)

CallStop(p) ==
    /\ pc[p] = "stop"
    /\ \/ StopNothing /\ AfterStop(p, FALSE)
       \/ StopClose(p) /\ Goto(p, "stop_clear")
    /\ UNCHANGED <<process, disk, faults, job, body, prev, wrote, got>>

FinishStop(p) ==
    /\ pc[p] = "stop_clear"
    /\ StopClear(p)
    /\ \E failed \in BOOLEAN : MayFail(failed) /\ AfterStop(p, failed)
    /\ UNCHANGED <<process, disk, job, body, prev, wrote, got>>

CallStart(p) ==
    /\ pc[p] = "start"
    /\ \/ StartNothing /\ AfterStart(p, FALSE) /\ UNCHANGED got
       \/ StartNoFile /\ AfterStart(p, TRUE) /\ UNCHANGED got
       \/ /\ StartRead(p)
          /\ got' = [got EXCEPT ![p] = [cfg |-> disk.cfg, ver |-> disk.ver]]
          /\ Goto(p, "start_boot")
    /\ UNCHANGED <<process, disk, faults, job, body, prev, wrote>>

\* A configuration that is not Bootable never starts, one that is can still
\* fail to.
FinishStart(p) ==
    /\ pc[p] = "start_boot"
    /\ \/ /\ got[p].cfg \notin Bootable
          /\ StartBoot(p, got[p], FALSE)
          /\ AfterStart(p, TRUE)
          /\ UNCHANGED faults
       \/ /\ got[p].cfg \in Bootable
          /\ \E failed \in BOOLEAN :
                /\ MayFail(failed)
                /\ StartBoot(p, got[p], ~failed)
                /\ AfterStart(p, failed)
    /\ got' = [got EXCEPT ![p] = NothingRead]
    /\ UNCHANGED <<process, disk, job, body, prev, wrote>>

----------------------------------------------------------------------------
(* DialOutbound tests running and box under the mutex, releases it, and     *)
(* then reads s.box again without it.                                       *)

DialCheck(p) ==
    /\ pc[p] = "dial"
    /\ mu = NoProc
    /\ IF running THEN Goto(p, "dial_use") ELSE Reply(p, "not_running")
    /\ UNCHANGED <<process, instVars, disk, faults, job, body, prev, wrote,
                   got>>

\* The box is there, possibly closed already: the dial succeeds or fails.
DialUse(p) ==
    /\ pc[p] = "dial_use"
    /\ box # NoBox
    /\ Reply(p, "ok")
    /\ UNCHANGED <<process, instVars, disk, faults, job, body, prev, wrote,
                   got>>

\* Requests that were in flight get no answer when the process dies.
Orphaned == [p \in Proc |-> IF pc[p] \in {"idle", "done"} THEN pc[p] ELSE "lost"]

\* s.box is nil: the dereference panics in the transport's own goroutine,
\* where nothing recovers, and takes the process down.
DialPanic(p) ==
    /\ pc[p] = "dial_use"
    /\ box = NoBox
    /\ Die
    /\ up' = FALSE
    /\ pc' = [Orphaned EXCEPT ![p] = "done"]
    /\ answer' = [answer EXCEPT ![p] = "panic"]
    /\ UNCHANGED <<disk, faults, crashes, job, body, prev, wrote, got>>

----------------------------------------------------------------------------
(* The process. *)

\* SIGKILL, an OOM kill, a power cut after the rename reached the disk.
Crash ==
    /\ up
    /\ crashes < MaxCrashes
    /\ Die
    /\ up' = FALSE
    /\ crashes' = crashes + 1
    /\ pc' = Orphaned
    /\ UNCHANGED <<disk, faults, job, body, prev, wrote, got, answer>>

\* main: the supervisor starts the process, with or without kernel_autostart.
Boot ==
    /\ ~up
    /\ up' = TRUE
    /\ \/ AutoStart(FALSE)
       \/ disk.cfg \in Bootable /\ AutoStart(TRUE)
    /\ UNCHANGED <<disk, faults, crashes, pc, answer>>
    /\ UNCHANGED reqVars

\* Every request has been answered or lost and no more can arrive.
Finished ==
    /\ \A p \in Proc : pc[p] \in {"done", "lost"}
    /\ up
    /\ UNCHANGED vars

Step(p) ==
    \/ ApplyRead(p) \/ ApplyWrite(p) \/ Rollback(p)
    \/ InstallRead(p)
    \/ SyncRead(p) \/ SyncWrite(p) \/ SyncGroups(p) \/ SyncUndo(p)
    \/ RulesLoad(p) \/ RulesUpdate(p)
    \/ CallStop(p) \/ FinishStop(p) \/ CallStart(p) \/ FinishStart(p)
    \/ DialCheck(p) \/ DialUse(p) \/ DialPanic(p)

Next ==
    \/ \E p \in Proc : Submit(p) \/ Step(p)
    \/ Crash
    \/ Boot
    \/ Finished

\* The Go scheduler runs every goroutine that can move, and sync.Mutex hands
\* itself over after a millisecond of waiting; clients need not send requests.
Fairness == \A p \in Proc : WF_vars(Step(p))

Spec == Init /\ [][Next]_vars
FairSpec == Spec /\ Fairness

----------------------------------------------------------------------------
(* Properties. *)

Closing == \E p \in Proc : pc[p] = "stop_clear"

\* At most one kernel is alive, it is the one s.box points to, and s.running
\* says so: no interleaving of Start, Stop, Restart, crashes and failed boots
\* leaks a kernel that nothing can close any more.
OneKernel ==
    /\ live = IF running /\ ~Closing THEN 1 ELSE 0
    /\ running <=> box # NoBox

\* A save (or a rollback) that was answered "ok" ("rolled_back") is never
\* followed by a kernel that runs an older file: Restart's Stop comes after
\* the write, and Start reads the file inside the mutex.
AnsweredSaveIsRunning ==
    \A p \in Proc :
        /\ job[p] \in {"apply", "undo"}
        /\ answer[p] \in {"ok", "rolled_back"}
        /\ running
        => wrote[p] <= box.ver

\* The goroutine that wrote the file as it is now has not yet stopped the
\* kernel that runs the file as it was.
RestartPending(p) ==
    /\ job[p] \in {"apply", "undo"}
    /\ wrote[p] = disk.ver
    /\ pc[p] \in {"stop", "stop_clear"}

\* The running kernel and the file agree, except while the request that
\* changed the file is about to restart the kernel, and except after a sync,
\* which leaves the restart to the user.  In particular they agree whenever
\* no request is in flight, whatever failed on the way.
NoDrift ==
    running /\ disk.by = "apply" /\ box.ver # disk.ver
    => \E p \in Proc : RestartPending(p)

\* Once every request is answered, if some save was answered "ok" or
\* "rolled_back", none was answered with an error, and nobody stopped the
\* kernel, then the kernel is up: concurrent restarts cannot stop each
\* other's kernel for good.
NoBlackout ==
    /\ \A p \in Proc : /\ pc[p] \in {"idle", "done"}
                       /\ job[p] # "stop"
                       /\ answer[p] \notin {"error", "panic"}
    /\ \E p \in Proc : job[p] \in {"apply", "undo"}
    /\ crashes = 0
    => running

\* Every request is answered, unless the process dies under it: no request
\* waits for the mutex or for another request for ever.
EveryRequestEnds ==
    \A p \in Proc : pc[p] # "idle" ~> pc[p] \in {"done", "lost"}

\* The control plane implements the abstract kernel: the file's write count
\* are the saves and every Stop, crash and panic is a Halt.
Abstract == INSTANCE FreshKernel WITH
    newest <- disk.ver,
    floor  <- floor,
    kernel <- IF running THEN box.ver ELSE NoBox,
    Off    <- NoBox

\* The kernel only ever boots from a file that was current at or after the
\* last Stop, and never swaps its configuration while it runs.
RefinesFreshKernel == Abstract!ASpec

----------------------------------------------------------------------------
(* The inductive invariant behind OneKernel, AnsweredSaveIsRunning, NoDrift *)
(* and the refinement (ControlPlaneProofs).                                 *)

\* The mutex is held exactly inside the critical sections.
MutexInv ==
    \A p \in Proc : mu = p <=> pc[p] \in {"stop_clear", "start_boot"}

\* A dead process has no kernel and no request in flight.
DownInv ==
    ~up => /\ mu = NoProc
           /\ ~running
           /\ \A p \in Proc : pc[p] \in {"idle", "done", "lost"}

\* Stop closes a kernel that runs, Start boots one only when none runs.
SectionInv ==
    \A p \in Proc : /\ pc[p] = "stop_clear" => running
                   /\ pc[p] = "start_boot" => ~running

\* An answer is given once, at the end; only applyConfigBytes, after its
\* write, restarts the kernel as "apply" or "undo".
FlowInv ==
    \A p \in Proc :
        /\ pc[p] # "done" => answer[p] = "none"
        /\ job[p] \in {"apply", "undo"}
           => pc[p] \in {"stop", "stop_clear", "start", "start_boot",
                        "rollback", "done", "lost"}

\* What runs, and what Start is about to boot, is at least as new as the
\* last stop.
FreshInv ==
    /\ floor <= disk.ver
    /\ running => floor <= box.ver /\ box.ver <= disk.ver
    /\ \A p \in Proc : pc[p] = "start_boot"
                       => floor <= got[p].ver /\ got[p].ver <= disk.ver

\* A save that has passed its Stop is no newer than that stop.
SavedInv ==
    \A p \in Proc :
        /\ wrote[p] <= disk.ver
        /\ /\ job[p] \in {"apply", "undo"}
           /\ \/ pc[p] \in {"start", "start_boot"}
              \/ answer[p] \in {"ok", "rolled_back"}
           => wrote[p] <= floor

\* NoDrift for the kernel that Start is about to boot.
BootDrift ==
    \A p \in Proc :
        pc[p] = "start_boot" /\ disk.by = "apply" /\ got[p].ver # disk.ver
        => \E q \in Proc : RestartPending(q)

Safe ==
    /\ MutexInv /\ DownInv /\ SectionInv /\ FlowInv /\ OneKernel
    /\ FreshInv /\ SavedInv /\ NoDrift /\ BootDrift

IInv == TypeOK /\ Safe

\* The request is on a path that ends with a running kernel or an error.
Reviving(p) == pc[p] \in {"stop", "stop_clear", "start", "start_boot",
                          "rs_update", "rollback"}

\* A request to stop the kernel does nothing else.
StopInv ==
    \A p \in Proc : job[p] = "stop" => pc[p] \in {"stop", "stop_clear", "done",
                                                 "lost"}

\* NoBlackout while requests are in flight: as long as nobody stops the
\* kernel, nothing was answered with an error and the process has not died,
\* a kernel that was restarted runs or some request is about to start it.
RevivalInv ==
    /\ crashes = 0
    /\ \A p \in Proc : job[p] # "stop" /\ answer[p] \notin {"error", "panic"}
    /\ \E p \in Proc : job[p] \in {"apply", "undo"}
    => running \/ \E p \in Proc : Reviving(p)

RInv == IInv /\ StopInv /\ RevivalInv

----------------------------------------------------------------------------
(* Claims of the repository that the code does not keep. *)

\* "rolled_back" says that this save did not take effect: the one save that
\* was answered "ok" is still the file when all other saves were rolled back
\* (docs/boxd/specs/2026-07-14-frontend-design.md:136).
AnsweredSaveSurvives ==
    \A q \in Proc :
        /\ job[q] = "apply" /\ answer[q] = "ok"
        /\ \A p \in Proc \ {q} : answer[p] = "rolled_back"
        => disk.cfg = body[q]

\* A latency test of one node cannot take the others, let alone the daemon,
\* down with it (comment of RunBatch, internal/api/test_handler.go:91).
DialNeverPanics == \A p \in Proc : answer[p] # "panic"
=============================================================================
