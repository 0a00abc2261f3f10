---------------------------- MODULE ProcessLock ----------------------------
(***************************************************************************)
(* The advisory process locks of src/process-lock.ts, taken by the gateway *)
(* before it opens its store: one O_EXCL lock file per path, broken when   *)
(* the process id written in it is gone.  Every file-system call is an     *)
(* action, since each one is awaited; the lock names a file by path, while *)
(* a writer keeps the inode it opened.                                     *)
(*                                                                         *)
(* A process acquires each of its paths once, so the inode that p creates  *)
(* at a path, and the "pid uuid" line it writes there, are both named p.   *)
(***************************************************************************)
EXTENDS Integers, FiniteSets, FiniteSetsExt

CONSTANTS
  Proc,       \* processes, each with its own pid
  Wants,      \* [Proc -> SUBSET Nat \ {{}}]: compatibleProcessLockPaths, as sorted
  Attempts,   \* options.attempts, at least 1
  Waits,      \* options.waitMilliseconds > 0
  None        \* no file, no process

Path == UNION {Wants[p] : p \in Proc}

VARIABLES
  pc,         \* where the process is in acquire, run, release
  at,         \* the path it is acquiring or releasing
  tries,      \* attempt
  seen,       \* the owner it observed in the lock file
  held,       \* the paths it has a release function for
  file,       \* the inode each path names
  written,    \* <<inode, path>>: the owner line is in the file
  stale       \* the inode at the process's own .stale path

vars == <<pc, at, tries, seen, held, file, written, stale>>

Acquiring == {"open", "write", "read", "probe", "rename", "compare"}
Phase     == {"idle", "running", "releasing", "unlink", "stopped", "crashed"} \cup Acquiring

TypeOK ==
  /\ pc \in [Proc -> Phase]
  /\ at \in [Proc -> Path \cup {0}]
  /\ tries \in [Proc -> 0..Attempts]
  /\ seen \in [Proc -> Proc \cup {None}]
  /\ held \in [Proc -> SUBSET Path]
  /\ file \in [Path -> Proc \cup {None}]
  /\ written \subseteq Proc \X Path
  /\ stale \in [Proc -> Proc \cup {None}]

Init ==
  /\ pc = [p \in Proc |-> "idle"]
  /\ at = [p \in Proc |-> 0]
  /\ tries = [p \in Proc |-> 0]
  /\ seen = [p \in Proc |-> None]
  /\ held = [p \in Proc |-> {}]
  /\ file = [f \in Path |-> None]
  /\ written = {}
  /\ stale = [p \in Proc |-> None]

-----------------------------------------------------------------------------

\* processIsLive: signal 0 reaches the pid
Live(p) == pc[p] # "crashed"

Goto(p, l) == pc' = [pc EXCEPT ![p] = l]

\* The next path of the list, or the lock set is complete.
Acquire(p, got) ==
  LET left == Wants[p] \ got
  IN  /\ held' = [held EXCEPT ![p] = got]
      /\ IF left = {} THEN Goto(p, "running") /\ UNCHANGED <<at, tries>>
         ELSE /\ Goto(p, "open")
              /\ at' = [at EXCEPT ![p] = Min(left)]
              /\ tries' = [tries EXCEPT ![p] = 1]

\* continue: the next turn of the attempts loop, which throws after the last
TryAgain(p) ==
  \/ tries[p] < Attempts /\ Goto(p, "open") /\ tries' = [tries EXCEPT ![p] = @ + 1]
  \/ tries[p] = Attempts /\ Goto(p, "releasing") /\ UNCHANGED tries

Begin(p) ==
  /\ pc[p] = "idle"
  /\ Acquire(p, {})
  /\ UNCHANGED <<seen, file, written, stale>>

\* open(path, O_CREAT | O_EXCL | O_WRONLY)
Open(p) ==
  /\ pc[p] = "open"
  /\ \/ /\ file[at[p]] = None
        /\ file' = [file EXCEPT ![at[p]] = p]
        /\ Goto(p, "write")
     \/ /\ file[at[p]] # None
        /\ Goto(p, "read")
        /\ UNCHANGED file
  /\ UNCHANGED <<at, tries, seen, held, written, stale>>

\* handle.writeFile(owner), into the inode wherever it is linked by now
Write(p) ==
  /\ pc[p] = "write"
  /\ written' = written \cup {<<p, at[p]>>}
  /\ Acquire(p, held[p] \cup {at[p]})
  /\ UNCHANGED <<seen, file, stale>>

\* The write throws: the path is unlinked and the locks taken so far released.
WriteFails(p) ==
  /\ pc[p] = "write"
  /\ file' = [file EXCEPT ![at[p]] = None]
  /\ Goto(p, "releasing")
  /\ UNCHANGED <<at, tries, seen, held, written, stale>>

\* readFile(path): no file or no pid in it means another turn
Read(p) ==
  LET i == file[at[p]]
  IN  /\ pc[p] = "read"
      /\ \/ /\ i = None \/ <<i, at[p]>> \notin written
            /\ TryAgain(p)
            /\ UNCHANGED seen
         \/ /\ i # None /\ <<i, at[p]>> \in written
            /\ seen' = [seen EXCEPT ![p] = i]
            /\ Goto(p, "probe")
            /\ UNCHANGED tries
      /\ UNCHANGED <<at, held, file, written, stale>>

Probe(p) ==
  /\ pc[p] = "probe"
  /\ \/ ~Live(seen[p]) /\ Goto(p, "rename") /\ UNCHANGED tries
     \/ Live(seen[p]) /\ Waits /\ TryAgain(p)
     \/ Live(seen[p]) /\ (Waits => tries[p] = Attempts)
          /\ Goto(p, "releasing") /\ UNCHANGED tries
  /\ UNCHANGED <<at, seen, held, file, written, stale>>

\* rename(path, stalePath)
Rename(p) ==
  /\ pc[p] = "rename"
  /\ \/ /\ file[at[p]] = None
        /\ TryAgain(p)
        /\ UNCHANGED <<file, stale>>
     \/ /\ file[at[p]] # None
        /\ stale' = [stale EXCEPT ![p] = file[at[p]]]
        /\ file' = [file EXCEPT ![at[p]] = None]
        /\ Goto(p, "compare")
        /\ UNCHANGED tries
  /\ UNCHANGED <<at, seen, held, written>>

\* The moved file is deleted if it is the one observed, and renamed back over
\* whatever the path names by now if it is not.
Compare(p) ==
  /\ pc[p] = "compare"
  /\ file' = IF stale[p] = seen[p] THEN file
             ELSE [file EXCEPT ![at[p]] = stale[p]]
  /\ stale' = [stale EXCEPT ![p] = None]
  /\ TryAgain(p)
  /\ UNCHANGED <<at, seen, held, written>>

-----------------------------------------------------------------------------

\* The gateway shuts down.
Stop(p) ==
  /\ pc[p] = "running"
  /\ Goto(p, "releasing")
  /\ UNCHANGED <<at, tries, seen, held, file, written, stale>>

\* The release functions run last path first; each reads its file ...
ReadForRelease(p) ==
  LET f == Max(held[p])
  IN  /\ pc[p] = "releasing"
      /\ \/ held[p] = {} /\ Goto(p, "stopped") /\ UNCHANGED <<at, held>>
         \/ /\ held[p] # {} /\ file[f] = p
            /\ at' = [at EXCEPT ![p] = f]
            /\ Goto(p, "unlink") /\ UNCHANGED held
         \/ /\ held[p] # {} /\ file[f] # p
            /\ held' = [held EXCEPT ![p] = @ \ {f}] /\ UNCHANGED <<pc, at>>
      /\ UNCHANGED <<tries, seen, file, written, stale>>

\* ... and unlinks the path if the file was its own.
Unlink(p) ==
  /\ pc[p] = "unlink"
  /\ file' = [file EXCEPT ![at[p]] = None]
  /\ held' = [held EXCEPT ![p] = @ \ {at[p]}]
  /\ Goto(p, "releasing")
  /\ UNCHANGED <<at, tries, seen, written, stale>>

\* The process is killed, or exits once it has stopped.
Crash(p) ==
  /\ pc[p] \notin {"idle", "crashed"}
  /\ Goto(p, "crashed")
  /\ UNCHANGED <<at, tries, seen, held, file, written, stale>>

Next ==
  \E p \in Proc :
    \/ Begin(p) \/ Open(p) \/ Write(p) \/ WriteFails(p) \/ Read(p)
    \/ Probe(p) \/ Rename(p) \/ Compare(p)
    \/ Stop(p) \/ ReadForRelease(p) \/ Unlink(p) \/ Crash(p)

Spec == Init /\ [][Next]_vars

-----------------------------------------------------------------------------

\* Two processes whose path lists meet never both run.
\* docs/workflow-runtime-topology.md: "A second process must fail before it can
\* poll, lease work, or write status."
MutualExclusion ==
  \A p, q \in Proc :
    pc[p] = "running" /\ pc[q] = "running" /\ Wants[p] \cap Wants[q] # {} => p = q
=============================================================================
