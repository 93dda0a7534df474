------------------------------ MODULE AnonymousId -----------------------------
(***************************************************************************)
(* _get_or_create_anonymous_id of giskard-core: the processes of a user    *)
(* share an id in a file, which the first of them creates.  Each step is   *)
(* one system call, and a process may die between any two of them.         *)
(*                                                                         *)
(* A file that is unlinked goes on existing for those who have it open, so *)
(* files are told apart by the process that created them.                  *)
(***************************************************************************)
EXTENDS Integers

CONSTANTS Procs,    \* the processes
          Old,      \* the file that an earlier process left, and its id
          Absent,   \* no file, no id yet
          Anon,     \* an id that is not stored
          Empty     \* the content of a file before its id is written

ASSUME DistinctNames ==
    /\ Procs # {}
    /\ Old \notin Procs /\ {Absent, Anon, Empty} \cap (Procs \cup {Old}) = {}
    /\ Absent # Anon /\ Absent # Empty /\ Anon # Empty

Files == Procs \cup {Old}
Calls == {"exists", "open", "read", "unlink", "create", "write", "open_theirs", "read_theirs"}

VARIABLES writable, readable,  \* what the file system allows, fixed
          file,      \* the file at the path
          content,   \* the content of each file
          pc,        \* the next system call of each process, or how it ended
          handle,    \* the file that a process has open
          got,       \* the id that a process goes by
          alone      \* no other process has taken a step since this one began (history)

vars == <<writable, readable, file, content, pc, handle, got, alone>>

Init ==
    /\ writable \in BOOLEAN /\ readable \in BOOLEAN
    /\ file \in {Absent, Old}
    /\ \E left \in {Empty, Old} : content = [f \in Files |-> IF f = Old THEN left ELSE Empty]
    /\ pc = [p \in Procs |-> "exists"]
    /\ handle = [p \in Procs |-> Absent]
    /\ got = [p \in Procs |-> Absent]
    /\ alone = [p \in Procs |-> TRUE]

Stored(f) == f # Absent /\ content[f] # Empty

-----------------------------------------------------------------------------
Goto(p, call) == pc' = [pc EXCEPT ![p] = call]

Return(p, id) == Goto(p, "done") /\ got' = [got EXCEPT ![p] = id]

AtWork(p) == pc[p] \in Calls \ {"exists"}

(* A step of one process ends the solitude of the others at work.          *)
Step(p) ==
    /\ alone' = [q \in Procs |->
                    IF q = p THEN alone[p] /\ (pc[p] = "exists" => \A o \in Procs : ~AtWork(o))
                    ELSE alone[q] /\ ~AtWork(q)]
    /\ UNCHANGED <<writable, readable>>

Exists(p) ==
    /\ pc[p] = "exists" /\ Step(p)
    /\ Goto(p, IF file # Absent THEN "open" ELSE "create")
    /\ UNCHANGED <<file, content, handle, got>>

(* An unreadable file, or one that has gone: go on as if there were none.  *)
Open(p) ==
    /\ pc[p] = "open" /\ Step(p)
    /\ Goto(p, IF readable /\ file # Absent THEN "read" ELSE "create")
    /\ handle' = [handle EXCEPT ![p] = IF readable THEN file ELSE Absent]
    /\ UNCHANGED <<file, content, got>>

(* Fault: an empty file is left where it is.                               *)
ReadOnly(p) ==
    /\ pc[p] = "read" /\ Step(p)
    /\ IF content[handle[p]] # Empty THEN Return(p, content[handle[p]])
       ELSE Goto(p, "create") /\ UNCHANGED got
    /\ UNCHANGED <<file, content, handle>>

Read(p) ==
    /\ pc[p] = "read" /\ Step(p)
    /\ IF content[handle[p]] # Empty THEN Return(p, content[handle[p]])
       ELSE Goto(p, "unlink") /\ UNCHANGED got
    /\ UNCHANGED <<file, content, handle>>

(* Fault: the process is content with an id of its own.                    *)
UnlinkAndLeave(p) ==
    /\ pc[p] = "unlink" /\ Step(p)
    /\ file' = IF writable THEN Absent ELSE file
    /\ Return(p, Anon)
    /\ UNCHANGED <<content, handle>>

(* The path is unlinked, whatever is there by now.                         *)
Unlink(p) ==
    /\ pc[p] = "unlink" /\ Step(p)
    /\ file' = IF writable THEN Absent ELSE file
    /\ Goto(p, "create")
    /\ UNCHANGED <<content, handle, got>>

(* O_CREAT | O_EXCL: only one process creates the file.                    *)
Create(p) ==
    /\ pc[p] = "create" /\ Step(p)
    /\ \/ file # Absent /\ Goto(p, "open_theirs") /\ UNCHANGED <<file, handle, got>>
       \/ /\ file = Absent /\ writable
          /\ file' = p /\ handle' = [handle EXCEPT ![p] = p]
          /\ Goto(p, "write") /\ UNCHANGED got
       \/ file = Absent /\ ~writable /\ Return(p, Anon) /\ UNCHANGED <<file, handle>>
    /\ UNCHANGED content

Write(p) ==
    /\ pc[p] = "write" /\ Step(p)
    /\ content' = [content EXCEPT ![handle[p]] = p]
    /\ Return(p, p)
    /\ UNCHANGED <<file, handle>>

OpenTheirs(p) ==
    /\ pc[p] = "open_theirs" /\ Step(p)
    /\ \/ readable /\ file # Absent /\ Goto(p, "read_theirs")
          /\ handle' = [handle EXCEPT ![p] = file] /\ UNCHANGED got
       \/ ~(readable /\ file # Absent) /\ Return(p, Anon) /\ UNCHANGED handle
    /\ UNCHANGED <<file, content>>

ReadTheirs(p) ==
    /\ pc[p] = "read_theirs" /\ Step(p)
    /\ Return(p, IF content[handle[p]] # Empty THEN content[handle[p]] ELSE Anon)
    /\ UNCHANGED <<file, content, handle>>

(* The process dies, or its write fails, which ends the import.            *)
Crash(p) ==
    /\ pc[p] \in Calls /\ Step(p)
    /\ Goto(p, "dead")
    /\ UNCHANGED <<file, content, handle, got>>

Over == (\A p \in Procs : pc[p] \in {"done", "dead"}) /\ UNCHANGED vars

Next ==
    \/ \E p \in Procs :
          \/ Exists(p) \/ Open(p) \/ Read(p) \/ Unlink(p)
          \/ Create(p) \/ Write(p) \/ OpenTheirs(p) \/ ReadTheirs(p) \/ Crash(p)
    \/ Over

Spec == Init /\ [][Next]_vars

-----------------------------------------------------------------------------
(* Type invariant.                                                         *)
AnonTypeOK ==
    /\ writable \in BOOLEAN /\ readable \in BOOLEAN
    /\ file \in Files \cup {Absent}
    /\ content \in [Files -> Procs \cup {Old, Empty}]
    /\ pc \in [Procs -> Calls \cup {"done", "dead"}]
    /\ handle \in [Procs -> Files \cup {Absent}]
    /\ got \in [Procs -> Procs \cup {Old, Anon, Absent}]
    /\ alone \in [Procs -> BOOLEAN]

(* Whatever first processes do to each other, when all of them are through *)
(* and none has died, the path holds an id for the processes to come.      *)
IdSettles ==
    writable /\ readable /\ (\A p \in Procs : pc[p] = "done") => Stored(file)

(* Whatever earlier processes left behind, a process that runs by itself   *)
(* goes by the stored id, and it is stored when it is done.                *)
RepairsAlone ==
    [][\A p \in Procs :
          writable /\ readable /\ alone'[p] /\ pc[p] # "done" /\ pc'[p] = "done"
              => Stored(file)' /\ got'[p] = content'[file']]_vars

(* "Atomically create the file so concurrent first-run processes converge  *)
(* on one ID rather than each persisting a different UUID."                *)
FirstRunsConverge ==
    \A p, q \in Procs : got[p] \in Files /\ got[q] \in Files => got[p] = got[q]
=============================================================================
