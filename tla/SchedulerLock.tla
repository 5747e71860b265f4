---------------------------- MODULE SchedulerLock ----------------------------
(* The file-backed lock of scheduler_locks.py: one lock path, contended for   *)
(* by operating-system processes.  A process owns the lock because it created *)
(* the file with O_CREAT|O_EXCL and wrote its pid into it; a lock left behind *)
(* is unlinked by whoever finds its pid dead, or finds it malformed and old.  *)
(* acquire_daemon_lock in scheduler_daemon.py is the same protocol.           *)
(*                                                                            *)
(* Every system call that touches the path is a step of its own, because the  *)
(* path is shared and nothing holds it between two of them.                   *)
EXTENDS Naturals

CONSTANTS
    Proc,       \* process identifiers; a pid is never reused in the model
    NoProc,     \* the owner of an absent lock file
    PromptWrite \* a live creator fills its file in within stale_after_seconds

ASSUME NoProcIsNotAProcess == NoProc \notin Proc
ASSUME PromptWriteIsBoolean == PromptWrite \in BOOLEAN

VARIABLES
    lock,     \* the file at lock_path: [phase, owner, old]
    pc,       \* where each process is in acquire_scheduler_lock
    seen,     \* the pid a contender read from the file
    usurped   \* history: a replacement has unlinked a live owner's file

vars == <<lock, pc, seen, usurped>>

\* phase "empty" is the window between os.open and json.dump: the file exists
\* but does not parse.  `old` is age_seconds >= stale_after_seconds; the code
\* consults the age of a file without a pid only.
Locks == [phase : {"absent", "empty", "written"},
          owner : Proc \cup {NoProc},
          old   : BOOLEAN]

Absent == [phase |-> "absent", owner |-> NoProc, old |-> FALSE]

\* What os.open(path, O_CREAT | O_EXCL | O_WRONLY) leaves at the path.
Created(p) == [phase |-> "empty", owner |-> p, old |-> FALSE]

Alive(p) == pc[p] # "dead"

\* The processes that believe the lock is theirs.
Owning(p) == pc[p] \in {"write", "held"}

Goto(p, label) == pc' = [pc EXCEPT ![p] = label]

Init ==
    /\ lock = Absent
    /\ pc = [p \in Proc |-> "idle"]
    /\ seen = [p \in Proc |-> NoProc]
    /\ usurped = FALSE

-----------------------------------------------------------------------------
\* The first exclusive create, and what FileExistsError leads to.
Create(p) ==
    /\ pc[p] = "idle"
    /\ \/ /\ lock.phase = "absent"
          /\ lock' = Created(p)
          /\ Goto(p, "write")
       \/ /\ lock.phase # "absent"
          /\ Goto(p, "inspect")
          /\ UNCHANGED lock
    /\ UNCHANGED <<seen, usurped>>

\* inspect_scheduler_lock up to the read of the payload: the file may have gone
\* (status absent, RuntimeError), record a pid, or hold no JSON, in which case
\* its age decides between malformed_stale and malformed_recent.
Inspect(p) ==
    /\ pc[p] = "inspect"
    /\ \/ /\ lock.phase = "written"
          /\ seen' = [seen EXCEPT ![p] = lock.owner]
          /\ Goto(p, "probe")
       \/ /\ lock.phase = "empty" /\ lock.old
          /\ Goto(p, "replace")
          /\ UNCHANGED seen
       \/ /\ lock.phase = "absent" \/ (lock.phase = "empty" /\ ~lock.old)
          /\ Goto(p, "idle")
          /\ UNCHANGED seen
    /\ UNCHANGED <<lock, usurped>>

\* Mutant of Probe: a recorded pid is trusted, whether it runs or not.
ProbeTrusting(p) ==
    /\ pc[p] = "probe"
    /\ Goto(p, "idle")
    /\ seen' = [seen EXCEPT ![p] = NoProc]
    /\ UNCHANGED <<lock, usurped>>

\* _process_exists on the pid that was read: dead_pid is replaced, active raises.
Probe(p) ==
    /\ pc[p] = "probe"
    /\ Goto(p, IF Alive(seen[p]) THEN "idle" ELSE "replace")
    /\ seen' = [seen EXCEPT ![p] = NoProc]
    /\ UNCHANGED <<lock, usurped>>

\* path.unlink(missing_ok=True): whatever is at the path by now is removed.
Unlink(p) ==
    /\ pc[p] = "replace"
    /\ usurped' = (usurped \/ (lock.phase # "absent" /\ Owning(lock.owner)))
    /\ lock' = Absent
    /\ Goto(p, "recreate")
    /\ UNCHANGED seen

\* Mutant of Recreate: the file is opened without O_EXCL.
RecreateOver(p) ==
    /\ pc[p] = "recreate"
    /\ lock' = Created(p)
    /\ Goto(p, "write")
    /\ UNCHANGED <<seen, usurped>>

\* The second exclusive create; losing it raises FileExistsError.
Recreate(p) ==
    /\ pc[p] = "recreate"
    /\ \/ /\ lock.phase = "absent"
          /\ lock' = Created(p)
          /\ Goto(p, "write")
       \/ /\ lock.phase # "absent"
          /\ Goto(p, "idle")
          /\ UNCHANGED lock
    /\ UNCHANGED <<seen, usurped>>

\* json.dump through the descriptor: the bytes reach the path only while the
\* path still names the file this process created.
Write(p) ==
    /\ pc[p] = "write"
    /\ lock' = IF lock.owner = p
                 THEN [phase |-> "written", owner |-> p, old |-> FALSE]
                 ELSE lock
    /\ Goto(p, "held")
    /\ UNCHANGED <<seen, usurped>>

\* The finally clause: unlink, with no look at whose file it is.
Release(p) ==
    /\ pc[p] = "held"
    /\ lock' = Absent
    /\ Goto(p, "idle")
    /\ UNCHANGED <<seen, usurped>>

\* Mutant of Die: an exit handler cleans the path up, whatever is there.
DieCleaningUp(p) ==
    /\ Alive(p)
    /\ lock' = Absent
    /\ Goto(p, "dead")
    /\ seen' = [seen EXCEPT ![p] = NoProc]
    /\ UNCHANGED usurped

\* The process ends: normally when idle, by a kill or a lost host anywhere else
\* (and, for the daemon, by an exception between acquire_daemon_lock and the
\* try that releases it).  Whatever file it left stays.
Die(p) ==
    /\ Alive(p)
    /\ Goto(p, "dead")
    /\ seen' = [seen EXCEPT ![p] = NoProc]
    /\ UNCHANGED <<lock, usurped>>

\* stale_after_seconds (six hours by default) go by while the file has no
\* payload.
GrowOld ==
    /\ lock.phase = "empty" /\ ~lock.old
    /\ PromptWrite => ~Owning(lock.owner)
    /\ lock' = [lock EXCEPT !.old = TRUE]
    /\ UNCHANGED <<pc, seen, usurped>>

Step(p) ==
    \/ Create(p) \/ Inspect(p) \/ Probe(p) \/ Unlink(p)
    \/ Recreate(p) \/ Write(p) \/ Release(p)

Next == GrowOld \/ \E p \in Proc : Step(p) \/ Die(p)

Spec == Init /\ [][Next]_vars

\* A live process keeps executing (it is retried by the daemon loop or by
\* systemd after a RuntimeError), and time passes.  Dying is never forced.
FairSpec == Spec /\ WF_vars(GrowOld) /\ \A p \in Proc : WF_vars(Step(p))

-----------------------------------------------------------------------------
TypeOK ==
    /\ lock \in Locks
    /\ pc \in [Proc -> {"idle", "inspect", "probe", "replace", "recreate",
                        "write", "held", "dead"}]
    /\ seen \in [Proc -> Proc \cup {NoProc}]
    /\ usurped \in BOOLEAN

\* The window between inspecting a lock and unlinking the path is the only way
\* the lock is lost: as long as no replacement has unlinked a live owner's
\* file, an owner's file is at the path, names it, and nobody else owns.
\* Creates, releases, deaths in any place and lost re-creates are all harmless.
ExclusiveUnlessUsurped ==
    ~usurped => \A p, q \in Proc : Owning(p) /\ Owning(q) => p = q

\* acquire_scheduler_lock releases by path.  Until a replacement has gone wrong,
\* no release ever removes a file that another process created.
ReleaseRemovesOwnFile ==
    [][\A p \in Proc : Release(p) /\ ~usurped => lock.owner = p]_vars

\* A lock whose recorded pid is dead, or which its dead creator never filled in,
\* does not block for ever: somebody removes it unless no process is left.
LeftBehind == lock.phase # "absent" /\ ~Alive(lock.owner)
LeftBehindIsReplaced == LeftBehind ~> (~LeftBehind \/ \A p \in Proc : ~Alive(p))
=============================================================================
