----------------------------- MODULE CodeRunner -----------------------------
(***************************************************************************)
(* shared/src/CodeRunner.cpp: run(code), called by the Run button and by   *)
(* TaskValidator.  A client runs it in its GUI thread, one call at a time; *)
(* two clients on one machine share the three files in /tmp.  A client may *)
(* be killed between any two of its system calls; a g++ it has started     *)
(* then runs on, also when the client is back and runs something else.     *)
(*                                                                         *)
(* A program is the code it was built from; what it prints, and what g++   *)
(* complains about, is that code.                                          *)
(***************************************************************************)
EXTENDS FiniteSets

CONSTANTS
    Process,   \* the clients on this machine
    Code,      \* texts of the editor
    Builds,    \* the codes g++ accepts
    None, Torn \* no such file; a file not yet written out

ASSUME RunnerAssumption ==
    /\ Builds \subseteq Code
    /\ None \notin Code /\ Torn \notin Code /\ None # Torn
    /\ Torn \notin Builds

VARIABLES
    pc,      \* pc[p]: where p is in run(), "idle" when it is not
    code,    \* code[p]: the code p was asked to run
    seen,    \* seen[p]: the code p's g++ has read, while there is one
    orphan,  \* orphan[p]: the g++ that a killed p has left behind (bound: one
             \* at a time)
    result,  \* result[p]: what the last call returned to p
    srcPath, binPath, errPath,  \* the files: a code, None or Torn
    alone    \* alone[p]: nobody else was in run() during p's current call,
             \* and no g++ was left behind

vars == <<pc, code, seen, orphan, result, srcPath, binPath, errPath, alone>>

File == Code \cup {None, Torn}
NoGpp == [at |-> "gone", seen |-> None]
Gpp == [at : {"gone", "compiling", "linking"}, seen : File]
NoResult == [says |-> "nothing", about |-> None]
Result == [says : {"nothing", "unwritten", "output", "error"}, about : File]

\* Where each process is in run(), and what the three files may hold.
TypeOK ==
    /\ pc \in [Process -> {"idle", "writing", "compiling", "linking",
                           "failed", "running", "removing"}]
    /\ code \in [Process -> Code \cup {None}]
    /\ seen \in [Process -> File]
    /\ orphan \in [Process -> Gpp]
    /\ result \in [Process -> Result]
    /\ {srcPath, binPath, errPath} \subseteq File
    /\ alone \in [Process -> BOOLEAN]

Init ==
    /\ pc = [p \in Process |-> "idle"]
    /\ code = [p \in Process |-> None]
    /\ seen = [p \in Process |-> None]
    /\ orphan = [p \in Process |-> NoGpp]
    /\ result = [p \in Process |-> NoResult]
    /\ srcPath = None /\ binPath = None /\ errPath = None
    /\ alone = [p \in Process |-> TRUE]

Goes(p, from, to) == pc[p] = from /\ pc' = [pc EXCEPT ![p] = to]

Busy == {p \in Process : pc[p] # "idle" \/ orphan[p] # NoGpp}

-----------------------------------------------------------------------------
\* run(c) opens the source file, which empties it.
OpenSource(p, c) ==
    /\ Goes(p, "idle", "writing")
    /\ code' = [code EXCEPT ![p] = c]
    /\ result' = [result EXCEPT ![p] = NoResult]
    /\ alone' = [q \in Process |-> IF q = p THEN Busy = {}
                                   ELSE alone[q] /\ q \notin Busy]
    /\ srcPath' = Torn
    /\ UNCHANGED <<seen, orphan, binPath, errPath>>

\* Or it cannot be opened: the call ends there.
OpenFails(p, c) ==
    /\ pc[p] = "idle"
    /\ code' = [code EXCEPT ![p] = c]
    /\ result' = [result EXCEPT ![p] = [says |-> "unwritten", about |-> None]]
    /\ UNCHANGED <<pc, seen, orphan, srcPath, binPath, errPath, alone>>

WriteSource(p) ==
    /\ Goes(p, "writing", "compiling")
    /\ srcPath' = code[p]
    /\ UNCHANGED <<code, seen, orphan, result, binPath, errPath, alone>>

\* The shell opens the error file, and g++ reads the source.
ReadSource(p) ==
    /\ Goes(p, "compiling", "linking")
    /\ seen' = [seen EXCEPT ![p] = srcPath]
    /\ errPath' = Torn
    /\ UNCHANGED <<code, orphan, result, srcPath, binPath, alone>>

Exits(p) == seen' = [seen EXCEPT ![p] = None]

\* Mutant: goes on to run the program, whatever g++ returned.
Complain_runsAnyway(p) ==
    /\ seen[p] \notin Builds
    /\ Goes(p, "linking", "running")
    /\ errPath' = seen[p]
    /\ Exits(p)
    /\ UNCHANGED <<code, orphan, result, srcPath, binPath, alone>>

\* g++ writes the program and exits with 0,
Link(p) ==
    /\ seen[p] \in Builds
    /\ Goes(p, "linking", "running")
    /\ binPath' = seen[p]
    /\ Exits(p)
    /\ UNCHANGED <<code, orphan, result, srcPath, errPath, alone>>

\* or complains and does not: an old program stays.
Complain(p) ==
    /\ seen[p] \notin Builds
    /\ Goes(p, "linking", "failed")
    /\ errPath' = seen[p]
    /\ Exits(p)
    /\ UNCHANGED <<code, orphan, result, srcPath, binPath, alone>>

\* A failed call reads the complaint and leaves the files where they are.
ReturnError(p) ==
    /\ Goes(p, "failed", "idle")
    /\ result' = [result EXCEPT ![p] = [says |-> "error", about |-> errPath]]
    /\ UNCHANGED <<code, seen, orphan, srcPath, binPath, errPath, alone>>

\* "timeout 5" runs whatever program is there, for its output alone.
RunProgram(p) ==
    /\ Goes(p, "running", "removing")
    /\ result' = [result EXCEPT ![p] = [says |-> "output", about |-> binPath]]
    /\ UNCHANGED <<code, seen, orphan, srcPath, binPath, errPath, alone>>

RemoveFiles(p) ==
    /\ Goes(p, "removing", "idle")
    /\ srcPath' = None /\ binPath' = None /\ errPath' = None
    /\ UNCHANGED <<code, seen, orphan, result, alone>>

\* The client is killed in the middle of a call, and can be started again.  A
\* g++ that std::system has started by then runs on.
Crash(p) ==
    /\ pc[p] # "idle"
    /\ pc' = [pc EXCEPT ![p] = "idle"]
    /\ \/ /\ pc[p] \in {"compiling", "linking"} /\ orphan[p] = NoGpp
          /\ orphan' = [orphan EXCEPT ![p] = [at |-> pc[p], seen |-> seen[p]]]
       \/ pc[p] # "linking" /\ UNCHANGED orphan
    /\ code' = [code EXCEPT ![p] = None]
    /\ result' = [result EXCEPT ![p] = NoResult]
    /\ Exits(p)
    /\ UNCHANGED <<srcPath, binPath, errPath, alone>>

\* What is left behind reads whatever the source file holds by then,
OrphanReads(p) ==
    /\ orphan[p].at = "compiling"
    /\ orphan' = [orphan EXCEPT ![p] = [at |-> "linking", seen |-> srcPath]]
    /\ errPath' = Torn
    /\ UNCHANGED <<pc, code, seen, result, srcPath, binPath, alone>>

\* and ends as any g++ does.
OrphanEnds(p) ==
    /\ orphan[p].at = "linking"
    /\ IF orphan[p].seen \in Builds
       THEN binPath' = orphan[p].seen /\ UNCHANGED errPath
       ELSE errPath' = orphan[p].seen /\ UNCHANGED binPath
    /\ orphan' = [orphan EXCEPT ![p] = NoGpp]
    /\ UNCHANGED <<pc, code, seen, result, srcPath, alone>>

Next ==
    \E p \in Process :
        \/ \E c \in Code : OpenSource(p, c) \/ OpenFails(p, c)
        \/ WriteSource(p) \/ ReadSource(p) \/ Link(p) \/ Complain(p)
        \/ ReturnError(p) \/ RunProgram(p) \/ RemoveFiles(p)
        \/ Crash(p) \/ OrphanReads(p) \/ OrphanEnds(p)

Spec == Init /\ [][Next]_vars

-----------------------------------------------------------------------------
\* What a call on c should return.
ResultOf(c) ==
    [says |-> IF c \in Builds THEN "output" ELSE "error", about |-> c]

Returned(p) == result[p].says \in {"output", "error"}

(***************************************************************************)
(* As long as nobody else has been in run(), each file a call of p still   *)
(* reads is what it wrote itself, or its g++ did, from its own code; old   *)
(* files of failed and killed calls are overwritten before they are read   *)
(* (CodeRunner.cpp:41-72).                                                 *)
(***************************************************************************)
Undisturbed ==
    \A p \in Process : alone[p] /\ pc[p] # "idle" =>
        /\ Busy = {p} /\ orphan[p] = NoGpp
        /\ pc[p] = "compiling" => srcPath = code[p]
        /\ pc[p] = "linking" => seen[p] = code[p]
        /\ pc[p] = "failed" => code[p] \notin Builds /\ errPath = code[p]
        /\ pc[p] = "running" => code[p] \in Builds /\ binPath = code[p]

(***************************************************************************)
(* "Output is captured and validated" (README.md:138-140): a call that had *)
(* the three files to itself returns what its own code does, whatever      *)
(* failed or killed calls of anybody left in them (CodeRunner.cpp:57-63    *)
(* removes nothing when g++ fails).  Without "alone" it would be false:    *)
(* two clients on one machine overwrite each other's files.                *)
(***************************************************************************)
ResultIsOwn ==
    \A p \in Process : Returned(p) /\ alone[p] => result[p] = ResultOf(code[p])
=============================================================================
