----------------------------- MODULE HookInstall -----------------------------
(***************************************************************************)
(* `roaminal-agent-hook install' on the remote host                        *)
(* (src/agents/hooks/codex/cmd/roaminal-agent-hook, internal/hooks).       *)
(*                                                                         *)
(* An installer holds a lock directory with an owner file in it, refuses   *)
(* to go back to an older component if it can read which one is there, and *)
(* then puts three files in place, each with a rename: the hook program, the Codex hook configuration with *)
(* the component's handlers merged in, and the component record.  A lock   *)
(* of a dead owner that was not touched for two minutes is broken by the   *)
(* next installer: the owner file and the directory are looked at and      *)
(* removed in steps of their own.                                          *)
(*                                                                         *)
(* A component is its version; the user's own handlers are a set of names. *)
(* The backup of the user's file and the directories' modes are left out.  *)
(***************************************************************************)
EXTENDS Naturals, FiniteSets

CONSTANTS Installers,     \* installer processes
          Version,        \* the component version each of them carries
          Handlers,       \* handlers the user adds to the hook configuration
          MaxInstallFaults, \* bound: failing steps and killed installers
          NoInstaller

VARIABLES dir,            \* the lock directory exists
          owner,          \* the owner file in it
          old,            \* the directory was not touched for two minutes
          installer,      \* what each installer does
          unread,         \* installers that could not read the component record
          alive,          \* installers that still run
          evicted,        \* ghost: live installers that lost their lock to another one
          binary,         \* version of the installed program (0: none)
          config,         \* version in the component record (0: none)
          hooks,          \* the hook configuration: the user's handlers and ours
          overwritten,    \* handlers the user added while a merge was under way
          added,          \* handlers the user has added
          installFaults

installVars == <<dir, owner, old, installer, unread, alive, evicted, binary, config,
                 hooks, overwritten, added, installFaults>>

InstallBounds ==
  /\ Version \in [Installers -> Nat \ {0}]
  /\ MaxInstallFaults \in Nat
  /\ NoInstaller \notin Installers

OutOfLock == {"idle", "waiting", "judging", "breaking", "clearing", "done", "failed"}
Locked == {"locked", "checked", "placed", "merging", "merged", "recorded", "refused"}
InstallPhases == OutOfLock \union Locked \union {"owning", "leaving", "releasing"}

InstallInit ==
  /\ dir = FALSE /\ owner = NoInstaller /\ old = FALSE
  /\ installer = [p \in Installers |-> [pc |-> "idle", read |-> {}]]
  /\ alive = Installers /\ evicted = {} /\ unread = {}
  /\ binary = 0 /\ config = 0
  /\ hooks = [user |-> {}, ours |-> FALSE]
  /\ overwritten = {} /\ added = {}
  /\ installFaults = 0

lockVars == <<dir, owner, old, evicted>>
fileVars == <<binary, config, hooks, overwritten, added>>

\* What a step that has nothing to do with the files or with what was read leaves alone.
insideVars == <<unread, fileVars>>

At(p, pc) == p \in alive /\ installer[p].pc = pc
Goto(p, pc) == installer' = [installer EXCEPT ![p].pc = pc]

----------------------------------------------------------------------------
\* install: the request is read and the private directories are made.
BeginInstall(p) ==
  /\ At(p, "idle")
  /\ Goto(p, "waiting")
  /\ UNCHANGED <<lockVars, alive, insideVars, installFaults>>

\* acquireLock: the directory is the lock, the owner file says whose it is.
MakeLock_Shared(p) ==
  /\ At(p, "waiting")
  /\ dir' = TRUE /\ old' = FALSE
  /\ Goto(p, "owning")
  /\ UNCHANGED <<owner, alive, evicted, insideVars, installFaults>>

MakeLock(p) ==
  /\ At(p, "waiting") /\ ~dir
  /\ dir' = TRUE /\ owner' = NoInstaller /\ old' = FALSE
  /\ Goto(p, "owning")
  /\ UNCHANGED <<alive, evicted, insideVars, installFaults>>

\* Only an empty directory can be removed; an installer that has just made it and
\* not named itself yet loses it.
RemoveDir(p) ==
  /\ dir' = (dir /\ owner # NoInstaller)
  /\ evicted' = IF dir /\ owner = NoInstaller
                THEN evicted \union {q \in alive \ {p} : installer[q].pc = "owning"} ELSE evicted

\* The owner file cannot be written when the directory is gone, and may fail to
\* be for another reason; the directory is then given back if it is empty.  The
\* installer that lost its directory may find another one's, and takes it over.
NameOwner(p) ==
  /\ At(p, "owning")
  /\ \/ /\ dir
        /\ owner' = p /\ old' = FALSE
        /\ evicted' = IF p \in evicted THEN evicted \union ({owner} \intersect alive) ELSE evicted
        /\ Goto(p, "locked")
        /\ UNCHANGED <<dir, installFaults>>
     \/ /\ ~dir
        /\ Goto(p, "failed")
        /\ UNCHANGED <<lockVars, installFaults>>
     \/ /\ installFaults < MaxInstallFaults
        /\ installFaults' = installFaults + 1
        /\ RemoveDir(p)
        /\ Goto(p, "failed")
        /\ UNCHANGED <<owner, old>>
  /\ UNCHANGED <<alive, insideVars>>

\* staleLock: the age of the directory, and then the owner.
SeeOldLock(p) ==
  /\ At(p, "waiting") /\ dir /\ old
  /\ Goto(p, "judging")
  /\ UNCHANGED <<lockVars, alive, insideVars, installFaults>>

OwnerIsGone == owner = NoInstaller \/ owner \notin alive

JudgeOwner(p) ==
  /\ At(p, "judging")
  /\ Goto(p, IF OwnerIsGone THEN "breaking" ELSE "waiting")
  /\ UNCHANGED <<lockVars, alive, insideVars, installFaults>>

RemoveOwner(p) ==
  /\ At(p, "breaking")
  /\ owner' = NoInstaller
  /\ old' = (old /\ owner = NoInstaller)
  /\ evicted' = evicted \union ({owner} \intersect alive)
  /\ Goto(p, "clearing")
  /\ UNCHANGED <<dir, alive, insideVars, installFaults>>

RemoveLock(p) ==
  /\ At(p, "clearing")
  /\ RemoveDir(p)
  /\ Goto(p, "waiting")
  /\ UNCHANGED <<owner, old, alive, insideVars, installFaults>>

LockTimeout(p) ==
  /\ At(p, "waiting")
  /\ Goto(p, "failed")
  /\ UNCHANGED <<lockVars, alive, insideVars, installFaults>>

----------------------------------------------------------------------------
\* The step succeeds, or an error comes after the file is in place already: the
\* directory cannot be flushed.  The installation ends there.
Proceed(p, pc) ==
  \/ Goto(p, pc) /\ UNCHANGED installFaults
  \/ /\ installFaults < MaxInstallFaults
     /\ installFaults' = installFaults + 1
     /\ Goto(p, "refused")

\* The record cannot be read, or is damaged or of another format.
RecordUnreadable(p) ==
  /\ installFaults < MaxInstallFaults
  /\ installFaults' = installFaults + 1
  /\ unread' = unread \union {p}

\* That does not stop the installation: the error is taken for no record at all.
CheckVersion(p) ==
  /\ At(p, "locked")
  /\ \/ Goto(p, IF config > Version[p] THEN "refused" ELSE "checked") /\ UNCHANGED <<unread, installFaults>>
     \/ RecordUnreadable(p) /\ Goto(p, "checked")
  /\ UNCHANGED <<lockVars, alive, fileVars>>

InstallBinary(p) ==
  /\ At(p, "checked")
  /\ binary' = Version[p]
  /\ Proceed(p, "placed")
  /\ UNCHANGED <<lockVars, unread, alive, config, hooks, overwritten, added>>

\* A configuration that the merge would leave as it is is not written.
ReadHooks(p) ==
  /\ At(p, "placed")
  /\ \/ installer' = [installer EXCEPT ![p] = [pc |-> "merging", read |-> hooks.user]]
     \/ hooks.ours /\ Goto(p, "merged")
  /\ UNCHANGED <<lockVars, alive, insideVars, installFaults>>

Merge(user) == [user |-> user, ours |-> TRUE]

InstallHooks(p) ==
  /\ At(p, "merging")
  /\ hooks' = Merge(installer[p].read)
  /\ Proceed(p, "merged")
  /\ UNCHANGED <<lockVars, unread, alive, binary, config, overwritten, added>>

WriteComponentConfig(p) ==
  /\ At(p, "merged")
  /\ config' = Version[p]
  /\ Proceed(p, "recorded")
  /\ UNCHANGED <<lockVars, unread, alive, binary, hooks, overwritten, added>>

\* Any of these steps fails before its rename; the deferred unlock runs.
StepFails(p) ==
  /\ p \in alive /\ installer[p].pc \in Locked \ {"recorded", "refused"}
  /\ installFaults < MaxInstallFaults
  /\ installFaults' = installFaults + 1
  /\ Goto(p, "refused")
  /\ UNCHANGED <<lockVars, alive, insideVars>>

\* releaseLock leaves a lock alone whose owner file names somebody else ...
CheckOwner(p) ==
  /\ p \in alive /\ installer[p].pc \in {"recorded", "refused"}
  /\ Goto(p, IF owner = p THEN "leaving" ELSE "done")
  /\ UNCHANGED <<lockVars, alive, insideVars, installFaults>>

\* ... and removes the file, which by then can be the one of somebody else.
ReleaseOwner(p) ==
  /\ At(p, "leaving")
  /\ owner' = NoInstaller
  /\ old' = (old /\ owner = NoInstaller)
  /\ evicted' = evicted \union (({owner} \ {p}) \intersect alive)
  /\ Goto(p, "releasing")
  /\ UNCHANGED <<dir, alive, insideVars, installFaults>>

ReleaseLock(p) ==
  /\ At(p, "releasing")
  /\ RemoveDir(p)
  /\ Goto(p, "done")
  /\ UNCHANGED <<owner, old, alive, insideVars, installFaults>>

----------------------------------------------------------------------------
\* The SSH command ends and takes the installer with it.
InstallerKilled(p) ==
  /\ p \in alive /\ installer[p].pc \notin {"idle", "done", "failed"}
  /\ installFaults < MaxInstallFaults
  /\ installFaults' = installFaults + 1
  /\ alive' = alive \ {p}
  /\ UNCHANGED <<lockVars, installer, insideVars>>

\* No live installer takes two minutes between two steps on the lock itself.
TwoMinutesPass ==
  /\ dir /\ ~old
  /\ \A p \in alive : installer[p].pc \notin {"owning", "judging", "breaking", "clearing",
                                        "leaving", "releasing"}
  /\ old' = TRUE
  /\ UNCHANGED <<dir, owner, evicted, installer, alive, insideVars, installFaults>>

\* The user, or Codex, saves the hook configuration with one more handler.
UserAdds(f) ==
  /\ f \notin added
  /\ added' = added \union {f}
  /\ hooks' = [hooks EXCEPT !.user = @ \union {f}]
  /\ overwritten' = IF \E p \in alive : installer[p].pc = "merging"
                    THEN overwritten \union {f} ELSE overwritten
  /\ UNCHANGED <<lockVars, installer, unread, alive, binary, config, installFaults>>

InstallNext ==
  \/ \E p \in Installers :
       \/ BeginInstall(p) \/ MakeLock(p) \/ NameOwner(p) \/ SeeOldLock(p) \/ JudgeOwner(p)
       \/ RemoveOwner(p) \/ RemoveLock(p) \/ LockTimeout(p) \/ CheckVersion(p)
       \/ InstallBinary(p) \/ ReadHooks(p) \/ InstallHooks(p) \/ WriteComponentConfig(p)
       \/ StepFails(p) \/ CheckOwner(p) \/ ReleaseOwner(p) \/ ReleaseLock(p) \/ InstallerKilled(p)
  \/ TwoMinutesPass
  \/ \E f \in Handlers : UserAdds(f)

InstallSpec == InstallInit /\ [][InstallNext]_installVars

----------------------------------------------------------------------------
\* Type correctness of the installation's state.
InstallTypeOK ==
  /\ dir \in BOOLEAN /\ old \in BOOLEAN /\ owner \in Installers \union {NoInstaller}
  /\ owner # NoInstaller => dir
  /\ alive \subseteq Installers /\ evicted \subseteq Installers /\ unread \subseteq Installers
  /\ installer \in [Installers -> [pc : InstallPhases, read : SUBSET Handlers]]
  /\ {binary, config} \subseteq {0} \union {Version[p] : p \in Installers}
  /\ hooks \in [user : SUBSET Handlers, ours : BOOLEAN]
  /\ overwritten \subseteq added /\ added \subseteq Handlers
  /\ installFaults \in 0..MaxInstallFaults

\* One installer at a time changes the files, also when the one before it was
\* killed at any point and its lock had to be broken.  The exception is real: of two
\* installers that judged the same lock to be nobody's, because its owner died or has
\* just removed the owner file, the slower one can remove the lock the faster one
\* has taken since (acquireLock, lines 157 to 160), and the one that lost it may take
\* over the lock of a third.  Those that lost their lock this way are left out.
OneInstaller == Cardinality({p \in alive \ evicted : installer[p].pc \in Locked}) <= 1

\* An installation that is reported as done is there: program, record and hook
\* configuration are the ones of that installer when it gives its lock back.
ReportedIsInstalled ==
  \A p \in alive : installer[p].pc = "recorded" /\ evicted = {} =>
     binary = Version[p] /\ config = Version[p] /\ hooks.ours

\* A handler of the user stays in the hook configuration, whoever installs and
\* fails; only one that is saved between the read and the rename can be lost.
UserHandlersKept == added \subseteq hooks.user \union overwritten

\* Whichever of two servers with different components installs first, the recorded
\* component gets older only by an installer that could not read the record: for that
\* one the code makes no comparison.
NeverOlder ==
  evicted = {} =>
    \/ config' >= config
    \/ \E p \in unread : installer[p].pc = "merged" /\ config' = Version[p]

\* Installers neither disturb one another nor the user, and report what is there.
InstallSafe == InstallTypeOK /\ OneInstaller /\ ReportedIsInstalled /\ UserHandlersKept
=============================================================================
