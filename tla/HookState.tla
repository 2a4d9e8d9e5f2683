------------------------------ MODULE HookState ------------------------------
(***************************************************************************)
(* The state files of the Codex hook (src/agents/hooks/codex).             *)
(*                                                                         *)
(* Codex starts the hook program for each of its events.  The program      *)
(* turns the event into an agent state, takes the file lock of its tmux    *)
(* runtime, appends a record to the runtime's state file, renames the new  *)
(* file over the old one, and afterwards clears away, without a lock, the  *)
(* files of other runtimes that nobody wrote for a week.  Codex kills a    *)
(* hook that takes too long; the operating system then drops its lock.     *)
(*                                                                         *)
(* A record is its index and its state; the names, identifiers and times   *)
(* it carries are left out, and so is the diagnostic log.                  *)
(***************************************************************************)
EXTENDS Naturals, Sequences

CONSTANTS Hooks,          \* hook processes that can run at once
          Runtimes,       \* tmux runtimes of the host
          RuntimeOf,      \* the runtime each hook runs in
          Events,         \* events Codex reports
          StateFor,       \* the agent state of an event; None: not reported
          MaxRecords,     \* records a file retains
          MaxHookIndex,   \* bound: records of one runtime
          MaxHookFaults,  \* bound: failed writes and killed hooks
          None

VARIABLES file,           \* the state file of each runtime
          aged,           \* not written for seven days
          flock,          \* holder of the runtime's file lock
          hook,           \* what each hook process does
          writes,         \* records written since the file came to be
          hookFaults

hookVars == <<file, aged, flock, hook, writes, hookFaults>>

HookBounds ==
  /\ RuntimeOf \in [Hooks -> Runtimes]
  /\ None \notin Hooks \union Runtimes
  /\ MaxRecords \in Nat \ {0}
  /\ {MaxHookIndex, MaxHookFaults} \subseteq Nat
  /\ \A e \in Events : StateFor[e] \in {"running", "relax", None}

HookRecords == [index: 1..MaxHookIndex, state: {"running", "relax"}]
NewFile == [index |-> 0, state |-> "relax", records |-> << >>]
Resting == [pc |-> "idle", state |-> None, read |-> NewFile, victim |-> None]

HookInit ==
  /\ file = [r \in Runtimes |-> None]
  /\ aged = [r \in Runtimes |-> FALSE]
  /\ flock = [r \in Runtimes |-> None]
  /\ hook = [h \in Hooks |-> Resting]
  /\ writes = [r \in Runtimes |-> 0]
  /\ hookFaults = 0

----------------------------------------------------------------------------
\* An event: unknown ones and those without a state end the hook at once.
Hook(h) ==
  /\ hook[h].pc = "idle"
  /\ \E e \in Events :
       /\ StateFor[e] # None
       /\ hook' = [hook EXCEPT ![h] = [Resting EXCEPT !.pc = "waiting", !.state = StateFor[e]]]
  /\ UNCHANGED <<file, aged, flock, writes, hookFaults>>

AcquireTmuxLock_Shared(h) ==
  /\ hook[h].pc = "waiting"
  /\ flock' = [flock EXCEPT ![RuntimeOf[h]] = h]
  /\ hook' = [hook EXCEPT ![h].pc = "locked"]
  /\ UNCHANGED <<file, aged, writes, hookFaults>>

AcquireTmuxLock(h) ==
  /\ hook[h].pc = "waiting"
  /\ flock[RuntimeOf[h]] = None
  /\ flock' = [flock EXCEPT ![RuntimeOf[h]] = h]
  /\ hook' = [hook EXCEPT ![h].pc = "locked"]
  /\ UNCHANGED <<file, aged, writes, hookFaults>>

\* Update reads the file, or starts a new one when there is none.
ReadFile(h) ==
  LET r == RuntimeOf[h] IN
  /\ hook[h].pc = "locked"
  /\ hook' = [hook EXCEPT ![h].pc = "read", ![h].read = IF file[r] = None THEN NewFile ELSE file[r]]
  /\ UNCHANGED <<file, aged, flock, writes, hookFaults>>

Retained(records) ==
  IF Len(records) > MaxRecords
  THEN SubSeq(records, Len(records) - MaxRecords + 1, Len(records)) ELSE records

NextFile(h) ==
  LET current == hook[h].read
      record == [index |-> current.index + 1, state |-> hook[h].state]
  IN [index |-> record.index, state |-> record.state,
      records |-> Retained(Append(current.records, record))]

Unlocked(h) == [flock EXCEPT ![RuntimeOf[h]] = IF @ = h THEN None ELSE @]

Renamed(h) ==
  LET r == RuntimeOf[h] IN
  /\ file' = [file EXCEPT ![r] = NextFile(h)]
  /\ aged' = [aged EXCEPT ![r] = FALSE]
  /\ writes' = [writes EXCEPT ![r] = IF file[r] = None THEN hook[h].read.index + 1 ELSE @ + 1]

WriteFile(h) ==
  /\ hook[h].pc = "read"
  /\ hook[h].read.index < MaxHookIndex
  /\ Renamed(h)
  /\ flock' = Unlocked(h)
  /\ hook' = [hook EXCEPT ![h] = [Resting EXCEPT !.pc = "cleaning"]]
  /\ UNCHANGED hookFaults

\* A write fails before the rename, or after it when the directory is flushed.
WriteFails(h) ==
  /\ hook[h].pc = "read"
  /\ hook[h].read.index < MaxHookIndex
  /\ hookFaults < MaxHookFaults
  /\ hookFaults' = hookFaults + 1
  /\ Renamed(h) \/ UNCHANGED <<file, aged, writes>>
  /\ flock' = Unlocked(h)
  /\ hook' = [hook EXCEPT ![h] = Resting]

\* Cleanup looks at one file after another and then removes it, by name.
InspectFile(h, r) ==
  /\ hook[h].pc = "cleaning"
  /\ r # RuntimeOf[h] /\ file[r] # None /\ aged[r]
  /\ hook' = [hook EXCEPT ![h].pc = "removing", ![h].victim = r]
  /\ UNCHANGED <<file, aged, flock, writes, hookFaults>>

RemoveFile(h) ==
  LET r == hook[h].victim IN
  /\ hook[h].pc = "removing"
  /\ file' = [file EXCEPT ![r] = None]
  /\ aged' = [aged EXCEPT ![r] = FALSE]
  /\ writes' = [writes EXCEPT ![r] = 0]
  /\ hook' = [hook EXCEPT ![h].pc = "cleaning", ![h].victim = None]
  /\ UNCHANGED <<flock, hookFaults>>

FinishHook(h) ==
  /\ hook[h].pc = "cleaning"
  /\ hook' = [hook EXCEPT ![h] = Resting]
  /\ UNCHANGED <<file, aged, flock, writes, hookFaults>>

\* Codex kills the hook after its timeout; the lock goes with the process.
Killed(h) ==
  /\ hook[h].pc # "idle"
  /\ hookFaults < MaxHookFaults
  /\ hookFaults' = hookFaults + 1
  /\ flock' = Unlocked(h)
  /\ hook' = [hook EXCEPT ![h] = Resting]
  /\ UNCHANGED <<file, aged, writes>>

WeekPasses(r) ==
  /\ file[r] # None /\ ~aged[r]
  /\ aged' = [aged EXCEPT ![r] = TRUE]
  /\ UNCHANGED <<file, flock, hook, writes, hookFaults>>

HookNext ==
  \/ \E h \in Hooks :
       \/ Hook(h) \/ AcquireTmuxLock(h) \/ ReadFile(h) \/ WriteFile(h) \/ WriteFails(h)
       \/ RemoveFile(h) \/ FinishHook(h) \/ Killed(h)
       \/ \E r \in Runtimes : InspectFile(h, r)
  \/ \E r \in Runtimes : WeekPasses(r)

HookSpec == HookInit /\ [][HookNext]_hookVars

----------------------------------------------------------------------------
\* validateFile: what the hook and read-state demand of a file they read.
ValidFile(f) ==
  /\ f.records \in Seq(HookRecords) /\ Len(f.records) <= MaxRecords
  /\ \A m, n \in DOMAIN f.records : m < n => f.records[m].index < f.records[n].index
  /\ IF f.records = << >> THEN f.index = 0 /\ f.state = "relax"
     ELSE f.records[Len(f.records)] = [index |-> f.index, state |-> f.state]

\* Type correctness of the hook's state.
HookTypeOK ==
  /\ \A r \in Runtimes : flock[r] \in Hooks \union {None}
  /\ \A h \in Hooks : hook[h].pc \in {"idle", "waiting", "locked", "read", "cleaning", "removing"}
  /\ aged \in [Runtimes -> BOOLEAN] /\ writes \in [Runtimes -> 0..MaxHookIndex]
  /\ \A r \in Runtimes : file[r] # None =>
       /\ file[r].records \in Seq(HookRecords) /\ Len(file[r].records) <= MaxRecords
  /\ hookFaults \in 0..MaxHookFaults

\* Every file a reader can meet is whole and consistent, and within the number
\* of records kept: the rename publishes it at once, whatever hook is killed.
FilesAreValid == \A r \in Runtimes : file[r] # None => ValidFile(file[r])

\* No report overwrites another: hooks that run at the same time, are killed or
\* fail to write leave as many indices as there were writes (WithRuntimeLock).
NoReportLost == \A r \in Runtimes : file[r] # None => file[r].index = writes[r]

\* While its file exists, the indices of a runtime rise by one from report to
\* report: the server takes a lower one for a delayed read (acceptSnapshot).
IndexRises ==
  \A r \in Runtimes :
       file[r] # None /\ file'[r] # None /\ file'[r] # file[r]
         => file'[r].index = file[r].index + 1

\* The state files say what the hooks have written, whoever is killed or fails.
HookFilesSafe == HookTypeOK /\ FilesAreValid /\ NoReportLost
=============================================================================
