-------------------------- MODULE WorkbenchProofs --------------------------
(***************************************************************************)
(* Proofs about running and judging programs (modules CodeRunner and       *)
(* Workbench), for any number of clients that share the three files, any   *)
(* codes and tasks, and outputs of any length.                             *)
(***************************************************************************)
EXTENDS Workbench, LeastNumber, SequenceTheorems, TLAPS

-----------------------------------------------------------------------------
\* CodeRunner: types.

\* A call that ends with output or complaint returns what a file holds.
LEMMA ResultValues ==
    /\ NoResult \in Result /\ NoResult.says = "nothing"
    /\ [says |-> "unwritten", about |-> None] \in Result
    /\ \A f \in File : /\ [says |-> "output", about |-> f] \in Result
                       /\ [says |-> "error", about |-> f] \in Result
BY DEF NoResult, Result, File

\* What a g++ left behind can be.
LEMMA GppValues ==
    /\ NoGpp \in Gpp /\ NoGpp.at = "gone"
    /\ \A at \in {"compiling", "linking"}, f \in File :
          [at |-> at, seen |-> f] \in Gpp
    /\ \A g \in Gpp : g.seen \in File
BY DEF NoGpp, Gpp, File

\* Every step of run() keeps the types.
LEMMA RunnerType ==
    ASSUME RunnerAssumption, TypeOK, [Next]_vars
    PROVE  TypeOK'
<1> USE DEF TypeOK, File
<1>1. ASSUME NEW p \in Process, NEW c \in Code, OpenSource(p, c) \/ OpenFails(p, c)
      PROVE  TypeOK'
  <2>1. CASE OpenSource(p, c)
    BY <2>1, ResultValues DEF OpenSource, Goes, Busy
  <2>2. CASE OpenFails(p, c)
    BY <2>2, ResultValues DEF OpenFails
  <2> QED
    BY <1>1, <2>1, <2>2
<1>2. ASSUME NEW p \in Process,
             \/ WriteSource(p) \/ ReadSource(p) \/ Link(p) \/ Complain(p)
             \/ RemoveFiles(p)
      PROVE  TypeOK'
  BY <1>2, RunnerAssumption
  DEF WriteSource, ReadSource, Link, Complain, RemoveFiles, Exits, Goes
<1>3. ASSUME NEW p \in Process, ReturnError(p) \/ RunProgram(p)
      PROVE  TypeOK'
  <2>1. CASE ReturnError(p)
    BY <2>1, ResultValues DEF ReturnError, Goes
  <2>2. CASE RunProgram(p)
    BY <2>2, ResultValues DEF RunProgram, Goes
  <2> QED
    BY <1>3, <2>1, <2>2
<1>4. ASSUME NEW p \in Process, Crash(p) PROVE TypeOK'
  <2>1. orphan' \in [Process -> Gpp]
    <3>1. CASE UNCHANGED orphan
      BY <3>1
    <3>2. CASE /\ pc[p] \in {"compiling", "linking"}
               /\ orphan' = [orphan EXCEPT ![p] =
                               [at |-> pc[p], seen |-> seen[p]]]
      <4>1. [at |-> pc[p], seen |-> seen[p]] \in Gpp
        BY <3>2, GppValues
      <4> QED
        BY <3>2, <4>1
    <3> QED
      BY <1>4, <3>1, <3>2 DEF Crash
  <2>2. /\ pc' = [pc EXCEPT ![p] = "idle"]
        /\ code' = [code EXCEPT ![p] = None]
        /\ seen' = [seen EXCEPT ![p] = None]
        /\ result' = [result EXCEPT ![p] = NoResult]
        /\ UNCHANGED <<srcPath, binPath, errPath, alone>>
    BY <1>4 DEF Crash, Exits
  <2>3. NoResult \in Result
    BY ResultValues
  <2> QED
    BY <2>1, <2>2, <2>3
<1>5. ASSUME NEW p \in Process, OrphanReads(p) PROVE TypeOK'
  <2>1. [at |-> "linking", seen |-> srcPath] \in Gpp
    BY GppValues
  <2> QED
    BY <1>5, <2>1 DEF OrphanReads
<1>6. ASSUME NEW p \in Process, OrphanEnds(p) PROVE TypeOK'
  <2>1. NoGpp \in Gpp /\ orphan[p].seen \in File
    BY GppValues
  <2>2. /\ orphan' = [orphan EXCEPT ![p] = NoGpp]
        /\ {binPath', errPath'} \subseteq {binPath, errPath, orphan[p].seen}
        /\ UNCHANGED <<pc, code, seen, result, srcPath, alone>>
    BY <1>6 DEF OrphanEnds
  <2> QED
    BY <2>1, <2>2
<1>7. CASE UNCHANGED vars
  BY <1>7 DEF vars
<1> QED
  BY <1>1, <1>2, <1>3, <1>4, <1>5, <1>6, <1>7 DEF Next

\* Before the first call nothing has run and there are no files.
LEMMA RunnerInit ==
    ASSUME Init
    PROVE  TypeOK /\ Undisturbed /\ ResultIsOwn
<1>1. TypeOK
  BY ResultValues, GppValues DEF Init, TypeOK, File
<1>2. Undisturbed /\ ResultIsOwn
  BY ResultValues DEF Init, Undisturbed, ResultIsOwn, Returned
<1> QED
  BY <1>1, <1>2

-----------------------------------------------------------------------------
\* CodeRunner: what a call that was alone has read and returns.

\* Nobody is alone with a call of another client, or with a g++ left behind.
LEMMA OthersUndisturbed ==
    ASSUME TypeOK, Undisturbed, NEW p \in Busy,
           NEW q \in Process, q # p \/ orphan[p] # NoGpp,
           alone'[q] = alone[q], pc'[q] = pc[q]
    PROVE  ~(alone'[q] /\ pc'[q] # "idle")
BY DEF Undisturbed, Busy

\* Every step of run() keeps a lone call undisturbed.
LEMMA RunnerUndisturbed ==
    ASSUME RunnerAssumption, TypeOK, Undisturbed, [Next]_vars
    PROVE  Undisturbed'
<1>1. ASSUME NEW p \in Process, NEW c \in Code, OpenSource(p, c)
      PROVE  Undisturbed'
  <2>1. /\ pc[p] = "idle" /\ pc' = [pc EXCEPT ![p] = "writing"]
        /\ alone' = [q \in Process |-> IF q = p THEN Busy = {}
                                       ELSE alone[q] /\ q \notin Busy]
    BY <1>1 DEF OpenSource, Goes
  <2>2. ASSUME NEW q \in Process \ {p} PROVE ~(alone'[q] /\ pc'[q] # "idle")
    BY <2>1 DEF TypeOK, Busy
  <2>3. pc'[p] = "writing" /\ orphan' = orphan
    BY <1>1, <2>1 DEF OpenSource, TypeOK
  <2>4. alone'[p] => Busy' = {p} /\ orphan'[p] = NoGpp
    BY <2>1, <2>3 DEF TypeOK, Busy
  <2> QED
    BY <2>2, <2>3, <2>4 DEF Undisturbed
<1>2. ASSUME NEW p \in Process, pc[p] # "idle",
             alone' = alone, code' = code \/ pc'[p] = "idle",
             \A q \in Process \ {p} : pc'[q] = pc[q],
             pc'[p] # "idle" => orphan' = orphan,
             alone[p] /\ Busy = {p} /\ pc'[p] # "idle" =>
                /\ pc'[p] = "compiling" => srcPath' = code[p]
                /\ pc'[p] = "linking" => seen'[p] = code[p]
                /\ pc'[p] = "failed" => code[p] \notin Builds /\ errPath' = code[p]
                /\ pc'[p] = "running" => code[p] \in Builds /\ binPath' = code[p]
      PROVE  Undisturbed'
  <2>1. ASSUME NEW q \in Process \ {p} PROVE ~(alone'[q] /\ pc'[q] # "idle")
    BY <1>2, OthersUndisturbed DEF Busy
  <2>2. alone[p] => Busy = {p} /\ orphan[p] = NoGpp
    BY <1>2 DEF Undisturbed
  <2>3. alone[p] /\ pc'[p] # "idle" => Busy' = {p} /\ orphan'[p] = NoGpp
    BY <1>2, <2>2 DEF Busy
  <2> QED
    BY <1>2, <2>1, <2>2, <2>3 DEF Undisturbed
<1>3. ASSUME NEW p \in Process, WriteSource(p) PROVE Undisturbed'
  <2>1. pc'[p] = "compiling" /\ \A q \in Process \ {p} : pc'[q] = pc[q]
    BY <1>3 DEF WriteSource, Goes, TypeOK
  <2> QED
    BY <1>2, <1>3, <2>1 DEF WriteSource, Goes
<1>4. ASSUME NEW p \in Process, ReadSource(p) PROVE Undisturbed'
  <2>1. /\ pc[p] = "compiling" /\ pc'[p] = "linking" /\ seen'[p] = srcPath
        /\ \A q \in Process \ {p} : pc'[q] = pc[q]
    BY <1>4 DEF ReadSource, Goes, TypeOK
  <2>2. alone[p] => srcPath = code[p]
    BY <2>1 DEF Undisturbed
  <2> QED
    BY <1>2, <1>4, <2>1, <2>2 DEF ReadSource
<1>5. ASSUME NEW p \in Process, Link(p) \/ Complain(p) PROVE Undisturbed'
  <2>1. /\ pc[p] = "linking" /\ \A q \in Process \ {p} : pc'[q] = pc[q]
        /\ \/ seen[p] \in Builds /\ pc'[p] = "running" /\ binPath' = seen[p]
           \/ seen[p] \notin Builds /\ pc'[p] = "failed" /\ errPath' = seen[p]
    BY <1>5 DEF Link, Complain, Goes, TypeOK
  <2>2. alone[p] => seen[p] = code[p]
    BY <2>1 DEF Undisturbed
  <2> QED
    BY <1>2, <1>5, <2>1, <2>2 DEF Link, Complain
<1>6. ASSUME NEW p \in Process,
             ReturnError(p) \/ RunProgram(p) \/ RemoveFiles(p)
      PROVE  Undisturbed'
  <2>1. /\ pc[p] # "idle" /\ pc'[p] \in {"idle", "removing"}
        /\ \A q \in Process \ {p} : pc'[q] = pc[q]
    BY <1>6 DEF ReturnError, RunProgram, RemoveFiles, Goes, TypeOK
  <2> QED
    BY <1>2, <1>6, <2>1 DEF ReturnError, RunProgram, RemoveFiles
<1>7. ASSUME NEW p \in Process, Crash(p) PROVE Undisturbed'
  <2>1. /\ pc[p] # "idle" /\ pc'[p] = "idle"
        /\ \A q \in Process \ {p} : pc'[q] = pc[q]
    BY <1>7 DEF Crash, TypeOK
  <2> QED
    BY <1>2, <1>7, <2>1 DEF Crash
<1>8. ASSUME NEW p \in Process, NEW c \in Code, OpenFails(p, c)
      PROVE  Undisturbed'
  <2>1. /\ UNCHANGED <<pc, seen, orphan, srcPath, binPath, errPath, alone>>
        /\ pc[p] = "idle" /\ \A q \in Process \ {p} : code'[q] = code[q]
    BY <1>8 DEF OpenFails, TypeOK
  <2> QED
    BY <2>1 DEF Undisturbed, Busy
<1>9. ASSUME NEW p \in Process, OrphanReads(p) \/ OrphanEnds(p)
      PROVE  Undisturbed'
  <2>1. orphan[p] # NoGpp /\ p \in Busy /\ UNCHANGED <<pc, alone>>
    BY <1>9, GppValues DEF OrphanReads, OrphanEnds, Busy
  <2>2. \A q \in Process : ~(alone'[q] /\ pc'[q] # "idle")
    BY <2>1, OthersUndisturbed
  <2> QED
    BY <2>2 DEF Undisturbed
<1>10. CASE UNCHANGED vars
  BY <1>10 DEF vars, Undisturbed, Busy
<1> QED
  BY <1>1, <1>3, <1>4, <1>5, <1>6, <1>7, <1>8, <1>9, <1>10 DEF Next

\* Every step of run() keeps the results of lone calls their own.
LEMMA RunnerOwn ==
    ASSUME RunnerAssumption, TypeOK, Undisturbed, ResultIsOwn, [Next]_vars
    PROVE  ResultIsOwn'
<1>1. ASSUME NEW p \in Process,
             \A q \in Process \ {p} : /\ result'[q] = result[q]
                                      /\ code'[q] = code[q]
                                      /\ alone'[q] => alone[q],
             Returned(p)' /\ alone'[p] => result'[p] = ResultOf(code'[p])
      PROVE  ResultIsOwn'
  BY <1>1 DEF ResultIsOwn, Returned
<1>2. ASSUME NEW p \in Process, NEW c \in Code,
             OpenSource(p, c) \/ OpenFails(p, c)
      PROVE  ResultIsOwn'
  <2>1. ~Returned(p)'
    BY <1>2, ResultValues DEF OpenSource, OpenFails, Returned, TypeOK
  <2> QED
    BY <1>1, <1>2, <2>1 DEF OpenSource, OpenFails, TypeOK
<1>3. ASSUME NEW p \in Process, Crash(p) PROVE ResultIsOwn'
  <2>1. ~Returned(p)'
    BY <1>3, ResultValues DEF Crash, Returned, TypeOK
  <2> QED
    BY <1>1, <1>3, <2>1 DEF Crash, TypeOK
<1>4. ASSUME NEW p \in Process, ReturnError(p) \/ RunProgram(p)
      PROVE  ResultIsOwn'
  <2>1. alone[p] => result'[p] = ResultOf(code[p])
    <3>1. CASE ReturnError(p)
      <4>1. /\ pc[p] = "failed"
            /\ result'[p] = [says |-> "error", about |-> errPath]
        BY <3>1 DEF ReturnError, Goes, TypeOK
      <4> QED
        BY <4>1 DEF Undisturbed, ResultOf
    <3>2. CASE RunProgram(p)
      <4>1. /\ pc[p] = "running"
            /\ result'[p] = [says |-> "output", about |-> binPath]
        BY <3>2 DEF RunProgram, Goes, TypeOK
      <4> QED
        BY <4>1 DEF Undisturbed, ResultOf
    <3> QED
      BY <1>4, <3>1, <3>2
  <2> QED
    BY <1>1, <1>4, <2>1 DEF ReturnError, RunProgram, TypeOK
<1>5. CASE \/ UNCHANGED vars
           \/ \E p \in Process : \/ WriteSource(p) \/ ReadSource(p) \/ Link(p)
                                 \/ Complain(p) \/ RemoveFiles(p)
                                 \/ OrphanReads(p) \/ OrphanEnds(p)
  <2>1. UNCHANGED <<code, result, alone>>
    BY <1>5
    DEF vars, WriteSource, ReadSource, Link, Complain, RemoveFiles, OrphanReads,
      OrphanEnds
  <2> QED
    BY <2>1 DEF ResultIsOwn, Returned
<1> QED
  BY <1>2, <1>3, <1>4, <1>5 DEF Next

(***************************************************************************)
(* A call of run() that had the three files to itself returns what its own *)
(* code does, for any number of clients that run, fail and are killed      *)
(* before and after: the file names can be shared as long as the calls do  *)
(* not overlap.                                                            *)
(***************************************************************************)
THEOREM ResultsAreOwn == Spec => [](TypeOK /\ Undisturbed /\ ResultIsOwn)
<1>1. Init => TypeOK /\ Undisturbed /\ ResultIsOwn
  BY RunnerInit
<1>2. TypeOK /\ Undisturbed /\ ResultIsOwn /\ [Next]_vars
         => (TypeOK /\ Undisturbed /\ ResultIsOwn)'
  BY RunnerAssumption, RunnerType, RunnerUndisturbed, RunnerOwn
<1> QED
  BY <1>1, <1>2, PTL DEF Spec

-----------------------------------------------------------------------------
\* The Run button and the task page: types.

\* Whatever happens at the windows, the files and the calls of run() see
\* nothing but calls of run().
LEMMA BenchStepRuns ==
    ASSUME WorkbenchAssumption, BenchTypeOK, [BenchNext]_benchVars
    PROVE  [Next]_vars
<1>1. ASSUME NEW p \in Process, RunnerStep(p) PROVE Next
  BY <1>1 DEF RunnerStep, Next
<1>2. ASSUME NEW p \in Process, Returns(p) PROVE Next
  BY <1>2 DEF Returns, Next
<1>3. ASSUME NEW p \in Watched, WatchedStep(p) PROVE [Next]_vars
  <2>1. p \in Process
    BY WorkbenchAssumption
  <2>2. CASE RunStarted(p)
    <3>1. runCode[p] \in Code
      BY <2>2 DEF RunStarted, BenchTypeOK, JobInStep
    <3> QED
      BY <2>1, <2>2, <3>1 DEF RunStarted, Next
  <2>3. CASE \E c \in Code : onSubmit(p, c)
    BY <2>1, <2>3 DEF onSubmit, Next
  <2>4. CASE Relaunch(p)
    BY <2>1, <2>4 DEF Relaunch, Next
  <2>5. CASE \/ \E c \in Code : RunClicked(p, c)
             \/ RunPosted(p) \/ \E t \in Task : onTaskSelected(p, t)
    BY <2>5 DEF RunClicked, RunPosted, onTaskSelected
  <2>6. CASE RunReturns(p) \/ SubmitReturns(p)
    BY <1>2, <2>1, <2>6 DEF RunReturns, SubmitReturns
  <2> QED
    BY <1>1, <1>3, <2>1, <2>2, <2>3, <2>4, <2>5, <2>6 DEF WatchedStep
<1>4. ASSUME NEW p \in Process \ Watched, OtherStep(p) PROVE Next
  <2>1. CASE \E c \in Elsewhere : OpenSource(p, c)
    BY <2>1, WorkbenchAssumption DEF Next
  <2> QED
    BY <1>1, <1>2, <1>4, <2>1 DEF OtherStep, Next
<1>5. ASSUME NEW p \in Process, OrphanReads(p) \/ OrphanEnds(p) PROVE Next
  BY <1>5 DEF Next
<1> QED
  BY <1>3, <1>4, <1>5 DEF BenchNext, benchVars

\* A verdict shown has its type.
LEMMA ShowType ==
    ASSUME BenchTypeOK, NEW p \in Watched, WorkbenchAssumption, TypeOK',
           NEW verdict \in {"correct", "wrong", "uncompiled"}, Show(p, verdict)
    PROVE  feedback' \in [Watched -> Feedback]
<1>1. p \in Process /\ code'[p] \in Code \cup {None} /\ alone[p] \in BOOLEAN
  BY WorkbenchAssumption DEF BenchTypeOK, TypeOK
<1>2. (alone[p] /\ Returned(p)') \in BOOLEAN
  BY <1>1 DEF Returned
<1>3. [verdict |-> verdict, code |-> code'[p],
       own |-> alone[p] /\ Returned(p)'] \in Feedback
  BY <1>1, <1>2 DEF Feedback
<1> QED
  BY <1>3 DEF Show, BenchTypeOK

\* Which steps take a client into a call of run, and out of it.
LEMMA CallsOf ==
    ASSUME TypeOK, NEW p \in Process
    PROVE  /\ RunnerStep(p) => pc[p] # "idle" /\ pc'[p] # "idle"
           /\ Returns(p) \/ Crash(p) => pc[p] # "idle" /\ pc'[p] = "idle"
           /\ RunnerStep(p) \/ Returns(p) \/ Crash(p)
              => \A q \in Process \ {p} : pc'[q] = pc[q]
<1>1. ASSUME RunnerStep(p)
      PROVE  /\ pc[p] # "idle" /\ pc'[p] # "idle"
             /\ \A q \in Process \ {p} : pc'[q] = pc[q]
  BY <1>1
  DEF RunnerStep, WriteSource, ReadSource, Link, Complain, RunProgram, Goes,
      TypeOK
<1>2. ASSUME Returns(p) \/ Crash(p)
      PROVE  /\ pc[p] # "idle" /\ pc'[p] = "idle"
             /\ \A q \in Process \ {p} : pc'[q] = pc[q]
  BY <1>2 DEF Returns, ReturnError, RemoveFiles, Crash, Goes, TypeOK
<1> QED
  BY <1>1, <1>2

\* A call of run begins, or fails at once.
LEMMA CallBegins ==
    ASSUME TypeOK, NEW p \in Process, NEW c,
           OpenSource(p, c) \/ OpenFails(p, c)
    PROVE  /\ OpenSource(p, c) => pc'[p] # "idle"
           /\ OpenFails(p, c) => pc'[p] = "idle"
           /\ \A q \in Process \ {p} : pc'[q] = pc[q]
<1>1. CASE OpenSource(p, c)
  <2>1. pc'[p] = "writing" /\ pc[p] = "idle"
        /\ \A q \in Process \ {p} : pc'[q] = pc[q]
    BY <1>1 DEF OpenSource, Goes, TypeOK
  <2>2. ~OpenFails(p, c)
    BY <2>1 DEF OpenFails
  <2> QED
    BY <2>1, <2>2
<1>2. CASE OpenFails(p, c)
  <2>1. pc'[p] = "idle" /\ \A q \in Process \ {p} : pc'[q] = pc[q]
    BY <1>2 DEF OpenFails
  <2>2. ~OpenSource(p, c)
    BY <2>1 DEF OpenSource, Goes, TypeOK
  <2> QED
    BY <2>1, <2>2
<1> QED
  BY <1>1, <1>2

\* A step of one window that keeps its buttons in step keeps all of them so.
LEMMA JobsOf ==
    ASSUME WorkbenchAssumption, BenchTypeOK, NEW p \in Process,
           \A q \in Process \ {p} : pc'[q] = pc[q],
           \A q \in Watched \ {p} : /\ caller'[q] = caller[q]
                                    /\ runJob'[q] = runJob[q]
                                    /\ runCode'[q] = runCode[q],
           p \in Watched => JobInStep(p)'
    PROVE  \A q \in Watched : JobInStep(q)'
BY DEF BenchTypeOK, JobInStep, WorkbenchAssumption

\* Every step keeps the buttons of every window in step with its thread.
LEMMA BenchJobs ==
    ASSUME RunnerAssumption, WorkbenchAssumption, BenchTypeOK,
           [BenchNext]_benchVars
    PROVE  \A q \in Watched : JobInStep(q)'
<1>1. TypeOK /\ Watched \subseteq Process
      /\ \A p \in Watched : JobInStep(p)
      /\ caller \in [Watched -> {"nobody", "run", "submit"}]
      /\ runJob \in [Watched -> {"none", "starting", "inside", "posted"}]
      /\ runCode \in [Watched -> Code \cup {None}]
  BY WorkbenchAssumption DEF BenchTypeOK
<1>2. CASE UNCHANGED <<pc, caller, runJob, runCode>>
  BY <1>1, <1>2 DEF JobInStep
<1>3. ASSUME NEW p \in Process, RunnerStep(p) PROVE \A q \in Watched : JobInStep(q)'
  <2>1. /\ pc[p] # "idle" /\ pc'[p] # "idle"
        /\ \A q \in Process \ {p} : pc'[q] = pc[q]
        /\ UNCHANGED <<caller, runJob, runCode>>
    BY <1>1, <1>3, CallsOf DEF RunnerStep, deskVars
  <2>2. p \in Watched => JobInStep(p)'
    BY <1>1, <2>1 DEF JobInStep
  <2> QED
    BY <2>1, <2>2, JobsOf
<1>4. ASSUME NEW p \in Watched, WatchedStep(p) PROVE \A q \in Watched : JobInStep(q)'
  <2>1. p \in Process /\ JobInStep(p)
    BY <1>1
  <2>2. ASSUME NEW c \in Code, RunClicked(p, c) PROVE \A q \in Watched : JobInStep(q)'
    <3>1. /\ UNCHANGED <<pc, caller>> /\ c # None /\ runJob[p] = "none"
          /\ runJob' = [runJob EXCEPT ![p] = "starting"]
          /\ runCode' = [runCode EXCEPT ![p] = c]
      BY <2>2, RunnerAssumption DEF RunClicked, vars
    <3>2. JobInStep(p)'
      BY <1>1, <2>1, <3>1 DEF JobInStep
    <3> QED
      BY <1>1, <2>1, <3>1, <3>2, JobsOf
  <2>3. CASE RunStarted(p)
    <3>1. /\ runJob[p] = "starting" /\ caller[p] = "nobody"
          /\ runCode[p] \in Code
          /\ runCode' = [runCode EXCEPT ![p] = None]
      BY <1>1, <2>1, <2>3 DEF RunStarted, GuiFree, JobInStep
    <3>2. CASE /\ OpenSource(p, runCode[p])
               /\ caller' = [caller EXCEPT ![p] = "run"]
               /\ runJob' = [runJob EXCEPT ![p] = "inside"]
      <4>1. pc'[p] # "idle" /\ \A q \in Process \ {p} : pc'[q] = pc[q]
        BY <1>1, <2>1, <3>2, CallBegins
      <4>2. JobInStep(p)'
        BY <1>1, <3>1, <3>2, <4>1 DEF JobInStep
      <4> QED
        BY <1>1, <2>1, <3>1, <3>2, <4>1, <4>2, JobsOf
    <3>3. CASE /\ OpenFails(p, runCode[p])
               /\ runJob' = [runJob EXCEPT ![p] = "posted"]
               /\ UNCHANGED caller
      <4>1. pc'[p] = "idle" /\ \A q \in Process \ {p} : pc'[q] = pc[q]
        BY <1>1, <2>1, <3>3, CallBegins
      <4>2. JobInStep(p)'
        BY <1>1, <3>1, <3>3, <4>1 DEF JobInStep
      <4> QED
        BY <1>1, <2>1, <3>1, <3>3, <4>1, <4>2, JobsOf
    <3> QED
      BY <2>3, <3>2, <3>3 DEF RunStarted
  <2>4. CASE RunReturns(p) \/ SubmitReturns(p)
    <3>1. Returns(p) /\ caller' = [caller EXCEPT ![p] = "nobody"]
          /\ UNCHANGED runCode
          /\ \/ caller[p] = "run" /\ runJob' = [runJob EXCEPT ![p] = "posted"]
             \/ caller[p] = "submit" /\ UNCHANGED runJob
      BY <2>4 DEF RunReturns, SubmitReturns
    <3>2. pc'[p] = "idle" /\ \A q \in Process \ {p} : pc'[q] = pc[q]
      BY <1>1, <2>1, <3>1, CallsOf
    <3>3. JobInStep(p)'
      BY <1>1, <2>1, <3>1, <3>2 DEF JobInStep
    <3> QED
      BY <1>1, <2>1, <3>1, <3>2, <3>3, JobsOf
  <2>5. CASE RunPosted(p)
    <3>1. /\ UNCHANGED <<pc, caller, runCode>> /\ runJob[p] = "posted"
          /\ runJob' = [runJob EXCEPT ![p] = "none"]
      BY <2>5 DEF RunPosted, vars
    <3>2. JobInStep(p)'
      BY <1>1, <2>1, <3>1 DEF JobInStep
    <3> QED
      BY <1>1, <2>1, <3>1, <3>2, JobsOf
  <2>6. CASE \E t \in Task : onTaskSelected(p, t)
    BY <1>2, <2>6 DEF onTaskSelected, vars
  <2>7. ASSUME NEW c \in Code, onSubmit(p, c) PROVE \A q \in Watched : JobInStep(q)'
    <3>1. caller[p] = "nobody" /\ UNCHANGED <<runJob, runCode>>
      BY <2>7 DEF onSubmit, GuiFree
    <3>2. CASE OpenSource(p, c) /\ caller' = [caller EXCEPT ![p] = "submit"]
      <4>1. pc'[p] # "idle" /\ \A q \in Process \ {p} : pc'[q] = pc[q]
        BY <1>1, <2>1, <3>2, CallBegins
      <4>2. JobInStep(p)'
        BY <1>1, <2>1, <3>1, <3>2, <4>1 DEF JobInStep
      <4> QED
        BY <1>1, <2>1, <3>1, <3>2, <4>1, <4>2, JobsOf
    <3>3. CASE OpenFails(p, c) /\ UNCHANGED caller
      BY <1>2, <3>1, <3>3 DEF OpenFails
    <3> QED
      BY <2>7, <3>2, <3>3 DEF onSubmit
  <2>8. CASE Relaunch(p)
    <3>1. /\ caller' = [caller EXCEPT ![p] = "nobody"]
          /\ runJob' = [runJob EXCEPT ![p] = "none"]
          /\ runCode' = [runCode EXCEPT ![p] = None]
      BY <2>8 DEF Relaunch
    <3>2. pc'[p] = "idle" /\ \A q \in Process \ {p} : pc'[q] = pc[q]
      <4>1. CASE pc[p] = "idle" /\ UNCHANGED vars
        BY <4>1 DEF vars
      <4>2. CASE Crash(p)
        BY <1>1, <2>1, <4>2, CallsOf
      <4> QED
        BY <2>8, <4>1, <4>2 DEF Relaunch
    <3>3. JobInStep(p)'
      BY <1>1, <3>1, <3>2 DEF JobInStep
    <3> QED
      BY <1>1, <2>1, <3>1, <3>2, <3>3, JobsOf
  <2> QED
    BY <1>3, <1>4, <2>1, <2>2, <2>3, <2>4, <2>5, <2>6, <2>7, <2>8 DEF WatchedStep
<1>5. ASSUME NEW p \in Process \ Watched, OtherStep(p)
      PROVE  \A q \in Watched : JobInStep(q)'
  <2>1. CASE RunnerStep(p)
    BY <1>3, <2>1
  <2>2. CASE /\ \/ \E c \in Elsewhere : OpenSource(p, c)
                \/ Returns(p) \/ Crash(p)
             /\ UNCHANGED deskVars
    <3>1. \A q \in Process \ {p} : pc'[q] = pc[q]
      BY <1>1, <2>2, CallsOf, CallBegins
    <3> QED
      BY <2>2, <3>1, JobsOf DEF deskVars
  <2> QED
    BY <1>5, <2>1, <2>2 DEF OtherStep
<1>6. ASSUME NEW p \in Process, OrphanReads(p) \/ OrphanEnds(p), UNCHANGED deskVars
      PROVE  \A q \in Watched : JobInStep(q)'
  BY <1>2, <1>6 DEF OrphanReads, OrphanEnds, deskVars
<1>7. CASE UNCHANGED benchVars
  BY <1>2, <1>7 DEF benchVars, vars, deskVars
<1> QED
  BY <1>4, <1>5, <1>6, <1>7 DEF BenchNext

\* Every step keeps the types of the windows.
LEMMA BenchType ==
    ASSUME RunnerAssumption, WorkbenchAssumption, BenchTypeOK,
           [BenchNext]_benchVars
    PROVE  BenchTypeOK'
<1>0. \A q \in Watched : JobInStep(q)'
  BY BenchJobs
<1>1. TypeOK'
  BY BenchStepRuns, RunnerType DEF BenchTypeOK
<1>2. Hidden \in Feedback
  BY DEF Hidden, Feedback
<1>3. CASE UNCHANGED deskVars
  BY <1>0, <1>1, <1>3 DEF deskVars, BenchTypeOK
<1>4. ASSUME NEW p \in Watched, WatchedStep(p) PROVE BenchTypeOK'
  <2>1. CASE RunnerStep(p)
    BY <1>3, <2>1 DEF RunnerStep
  <2>2. ASSUME NEW c \in Code, RunClicked(p, c) PROVE BenchTypeOK'
    BY <1>0, <1>1, <2>2 DEF RunClicked, BenchTypeOK
  <2>3. CASE RunStarted(p)
    BY <1>0, <1>1, <2>3 DEF RunStarted, BenchTypeOK
  <2>4. CASE RunReturns(p)
    BY <1>0, <1>1, <2>4 DEF RunReturns, BenchTypeOK
  <2>5. CASE RunPosted(p)
    BY <1>0, <1>1, <2>5 DEF RunPosted, BenchTypeOK
  <2>6. ASSUME NEW t \in Task, onTaskSelected(p, t) PROVE BenchTypeOK'
    BY <1>0, <1>1, <1>2, <2>6 DEF onTaskSelected, BenchTypeOK
  <2>7. ASSUME NEW c \in Code, onSubmit(p, c) PROVE BenchTypeOK'
    <3>1. /\ feedback' \in [Watched -> Feedback]
          /\ caller' \in [Watched -> {"nobody", "run", "submit"}]
      BY <1>0, <1>1, <2>7, ShowType, WorkbenchAssumption DEF onSubmit, BenchTypeOK
    <3> QED
      BY <1>0, <1>1, <2>7, <3>1 DEF onSubmit, BenchTypeOK
  <2>8. CASE SubmitReturns(p)
    <3>1. validate(task[p], result'[p]) \in {"correct", "wrong", "uncompiled"}
      BY DEF validate
    <3>2. feedback' \in [Watched -> Feedback]
      BY <1>0, <1>1, <2>8, <3>1, ShowType, WorkbenchAssumption DEF SubmitReturns
    <3> QED
      BY <1>0, <1>1, <2>8, <3>2 DEF SubmitReturns, BenchTypeOK
  <2>9. CASE Relaunch(p)
    <3>1. task' \in [Watched -> Task]
      <4>1. task' \in {[task EXCEPT ![p] = t] : t \in Task}
        BY <2>9 DEF Relaunch
      <4>2. PICK t \in Task : task' = [task EXCEPT ![p] = t]
        BY <4>1
      <4> QED
        BY <4>2 DEF BenchTypeOK
    <3>2. /\ caller' \in [Watched -> {"nobody", "run", "submit"}]
          /\ runJob' \in [Watched -> {"none", "starting", "inside", "posted"}]
          /\ runCode' \in [Watched -> Code \cup {None}]
          /\ feedback' \in [Watched -> Feedback]
      BY <1>2, <2>9 DEF Relaunch, BenchTypeOK
    <3> QED
      BY <1>0, <1>1, <3>1, <3>2 DEF BenchTypeOK
  <2> QED
    BY <1>4, <2>1, <2>2, <2>3, <2>4, <2>5, <2>6, <2>7, <2>8, <2>9
    DEF WatchedStep
<1>5. ASSUME NEW p \in Process \ Watched, OtherStep(p) PROVE BenchTypeOK'
  BY <1>3, <1>5 DEF OtherStep, RunnerStep
<1> QED
  BY <1>3, <1>4, <1>5 DEF BenchNext, benchVars

\* A window opens with its button on and no verdict.
LEMMA BenchInitType ==
    ASSUME BenchInit
    PROVE  BenchTypeOK
<1>1. TypeOK
  BY RunnerInit DEF BenchInit
<1>2. Hidden \in Feedback
  BY DEF Hidden, Feedback
<1>3. Watched \subseteq Process
  BY WorkbenchAssumption
<1>4. \A p \in Watched : JobInStep(p)
  BY <1>3 DEF BenchInit, Init, JobInStep
<1> QED
  BY <1>1, <1>2, <1>4 DEF BenchInit, BenchTypeOK

(***************************************************************************)
(* Jobs, codes, tasks and verdicts keep their types, and a click on Run    *)
(* that waits for its turn has something to run.                           *)
(***************************************************************************)
THEOREM BenchTypeCorrect == BenchSpec => []BenchTypeOK
<1>1. BenchInit => BenchTypeOK
  BY BenchInitType
<1>2. BenchTypeOK /\ [BenchNext]_benchVars => BenchTypeOK'
  BY RunnerAssumption, WorkbenchAssumption, BenchType
<1> QED
  BY <1>1, <1>2, PTL DEF BenchSpec

\* What is proved of the calls of run() in CodeRunner can be used of those of
\* the windows: BenchNext is made of steps of CodeRunner's Next and of steps
\* that leave the runner alone.
LEMMA BenchRunsCode == BenchSpec => Spec
<1>1. BenchInit => Init
  BY DEF BenchInit
<1>2. BenchTypeOK /\ [BenchNext]_benchVars => [Next]_vars
  BY WorkbenchAssumption, BenchStepRuns
<1> QED
  BY <1>1, <1>2, BenchTypeCorrect, PTL DEF BenchSpec, Spec

(***************************************************************************)
(* So what holds of calls of run() holds of those the two buttons make: as *)
(* long as nobody else calls it, the file a step opens is the one this     *)
(* call has written, and its result is its own.                            *)
(***************************************************************************)
THEOREM WindowsUndisturbed == BenchSpec => [](Undisturbed /\ ResultIsOwn)
BY BenchRunsCode, ResultsAreOwn, PTL

-----------------------------------------------------------------------------
\* TaskValidator: normalize.

\* Taking carriage returns out leaves a text; what NoCR computes exists for
\* every beginning of s, by induction over its length.
LEMMA NoCRIsText ==
    ASSUME NEW s \in Seq(Symbol)
    PROVE  NoCR(s) \in Seq(Symbol)
<1> DEFINE Step(f, n) == IF n = 0 THEN <<>>
                         ELSE IF s[n] = CR THEN f[n - 1]
                         ELSE Append(f[n - 1], s[n])
           Upto(n) == {f \in [0 .. n -> Seq(Symbol)] :
                          \A k \in 0 .. n : f[k] = Step(f, k)}
           T == {n \in 0 .. Len(s) : Upto(n) # {}}
<1>1. Len(s) \in Nat /\ \A n \in 1 .. Len(s) : s[n] \in Symbol
  BY LenProperties
<1>2. 0 \in T
  <2>1. [k \in 0 .. 0 |-> <<>>] \in Upto(0)
    OBVIOUS
  <2> QED
    BY <1>1, <2>1
<1>3. ASSUME NEW n \in 0 .. Len(s), n # Len(s), n \in T PROVE n + 1 \in T
  <2>1. PICK f \in [0 .. n -> Seq(Symbol)] : \A k \in 0 .. n : f[k] = Step(f, k)
    BY <1>3
  <2>2. n + 1 \in 1 .. Len(s) /\ s[n + 1] \in Symbol /\ n \in Nat
    BY <1>1, <1>3
  <2> DEFINE g == [k \in 0 .. n + 1 |-> IF k = n + 1
                                        THEN IF s[k] = CR THEN f[n]
                                             ELSE Append(f[n], s[k])
                                        ELSE f[k]]
  <2>3. f[n] \in Seq(Symbol) /\ Append(f[n], s[n + 1]) \in Seq(Symbol)
    BY <2>1, <2>2, AppendProperties
  <2>4. g \in [0 .. n + 1 -> Seq(Symbol)]
    BY <2>1, <2>2, <2>3
  <2>5. ASSUME NEW k \in 0 .. n + 1 PROVE g[k] = Step(g, k)
    <3>1. CASE k = n + 1
      BY <2>2, <3>1
    <3>2. CASE k \in 0 .. n
      <4>1. g[k] = f[k] /\ (k # 0 => k - 1 \in 0 .. n + 1 /\ g[k - 1] = f[k - 1])
        BY <2>2, <3>2
      <4>2. f[k] = Step(f, k)
        BY <2>1, <3>2
      <4> QED
        BY <4>1, <4>2
    <3> QED
      BY <2>2, <3>1, <3>2
  <2>6. g \in Upto(n + 1)
    BY <2>4, <2>5
  <2>7. n + 1 \in 0 .. Len(s)
    BY <2>2
  <2> HIDE DEF Upto, g
  <2> QED
    BY <2>6, <2>7
<1>4. Len(s) \in T
  <2>1. \A k \in 0 .. Len(s) : k # Len(s) /\ k \in T => k + 1 \in T
    BY <1>3
  <2> HIDE DEF T
  <2>2. \A k \in 0 .. Len(s) : k \in T
    BY <1>1, <1>2, <2>1, UpTo
  <2> QED
    BY <1>1, <2>2
<1>5. PICK f \in [0 .. Len(s) -> Seq(Symbol)] :
         \A k \in 0 .. Len(s) : f[k] = Step(f, k)
  BY <1>4
<1> DEFINE Body(g) == [n \in 0 .. Len(s) |-> Step(g, n)]
           kept == CHOOSE g : g = Body(g)
<1>6. f = Body(f)
  BY <1>5
<1>7. kept = Body(kept)
  BY <1>6
<1>8. NoCR(s) = kept[Len(s)]
  BY DEF NoCR
<1>9. \A k \in 0 .. Len(s) : kept[k] \in Seq(Symbol)
  <2> DEFINE K == {k \in 0 .. Len(s) : kept[k] \in Seq(Symbol)}
  <2>1. \A k \in 0 .. Len(s) : kept[k] = Step(kept, k)
    BY <1>7
  <2> HIDE DEF kept
  <2>2. 0 \in K
    <3>1. 0 \in 0 .. Len(s) /\ Step(kept, 0) = <<>>
      BY <1>1
    <3>2. kept[0] = <<>>
      BY <2>1, <3>1
    <3>3. <<>> \in Seq(Symbol)
      OBVIOUS
    <3> HIDE DEF Step
    <3> QED
      BY <3>1, <3>2, <3>3
  <2>3. ASSUME NEW k \in 0 .. Len(s), k # Len(s), k \in K PROVE k + 1 \in K
    <3>1. k + 1 \in 0 .. Len(s) /\ k + 1 # 0 /\ (k + 1) - 1 = k /\ s[k + 1] \in Symbol
      BY <1>1, <2>3
    <3>2. kept[k + 1] = IF s[k + 1] = CR THEN kept[k]
                                         ELSE Append(kept[k], s[k + 1])
      BY <2>1, <3>1
    <3>3. kept[k] \in Seq(Symbol) /\ Append(kept[k], s[k + 1]) \in Seq(Symbol)
      BY <2>3, <3>1, AppendProperties
    <3> QED
      BY <3>1, <3>2, <3>3
  <2>4. \A k \in 0 .. Len(s) : k \in K
    <3> HIDE DEF K
    <3> QED
      BY <1>1, <2>2, <2>3, UpTo
  <2> QED
    BY <2>4
<1> HIDE DEF kept
<1> QED
  BY <1>1, <1>8, <1>9

Blanks == {Space, Newline}

\* Trim cuts a text off behind its last visible character.
LEMMA TrimCuts ==
    ASSUME NEW s \in Seq(Symbol)
    PROVE  \E n \in 0 .. Len(s) :
              /\ Trim(s) = SubSeq(s, 1, n)
              /\ \A k \in n + 1 .. Len(s) : s[k] \in Blanks
              /\ n # 0 => s[n] \notin Blanks
<1> DEFINE ends == {n \in 0 .. Len(s) :
                       \A k \in n + 1 .. Len(s) : s[k] \in {Space, Newline}}
           n == CHOOSE n \in ends : \A m \in ends : n <= m
<1>1. Len(s) \in Nat
  BY LenProperties
<1>2. ends \in SUBSET Nat /\ ends # {}
  <2>1. Len(s) \in ends
    BY <1>1
  <2> QED
    BY <2>1
<1>3. \E m \in ends : \A j \in ends : m <= j
  <2> HIDE DEF ends
  <2> QED
    BY <1>2, LeastNatural
<1>4. n \in ends /\ \A m \in ends : n <= m
  <2> HIDE DEF ends
  <2> QED
    BY <1>3
<1>5. Trim(s) = SubSeq(s, 1, n)
  BY DEF Trim
<1> HIDE DEF n
<1>6. ASSUME n # 0, s[n] \in Blanks PROVE FALSE
  <2>1. n \in 0 .. Len(s) /\ n - 1 \in 0 .. Len(s) /\ ~(n <= n - 1)
    BY <1>1, <1>4, <1>6
  <2>2. \A k \in (n - 1) + 1 .. Len(s) : k = n \/ k \in n + 1 .. Len(s)
    BY <1>1, <2>1
  <2>3. n - 1 \in ends
    BY <1>4, <1>6, <2>1, <2>2 DEF Blanks
  <2> QED
    BY <1>4, <2>1, <2>3
<1> QED
  BY <1>4, <1>5, <1>6 DEF Blanks

\* Two texts are the same when trimmed exactly if they agree wherever either
\* of them still has a visible character.
LEMMA TrimAgrees ==
    ASSUME NEW a \in Seq(Symbol), NEW b \in Seq(Symbol)
    PROVE  LET Over(s, k) == \A j \in k .. Len(s) : s[j] \in {Space, Newline}
           IN Trim(a) = Trim(b) <=>
                 \A k \in DOMAIN a \cup DOMAIN b :
                    \/ Over(a, k) /\ Over(b, k)
                    \/ k \in DOMAIN a /\ k \in DOMAIN b /\ a[k] = b[k]
<1> DEFINE Over(s, k) == \A j \in k .. Len(s) : s[j] \in {Space, Newline}
           Agree == \A k \in DOMAIN a \cup DOMAIN b :
                       \/ Over(a, k) /\ Over(b, k)
                       \/ k \in DOMAIN a /\ k \in DOMAIN b /\ a[k] = b[k]
<1>1. /\ Len(a) \in Nat /\ DOMAIN a = 1 .. Len(a)
      /\ Len(b) \in Nat /\ DOMAIN b = 1 .. Len(b)
  BY LenProperties
<1>2. PICK n \in 0 .. Len(a) :
         /\ Trim(a) = SubSeq(a, 1, n)
         /\ \A k \in n + 1 .. Len(a) : a[k] \in Blanks
         /\ n # 0 => a[n] \notin Blanks
  BY TrimCuts
<1>3. PICK m \in 0 .. Len(b) :
         /\ Trim(b) = SubSeq(b, 1, m)
         /\ \A k \in m + 1 .. Len(b) : b[k] \in Blanks
         /\ m # 0 => b[m] \notin Blanks
  BY TrimCuts
<1>4. /\ SubSeq(a, 1, n) \in Seq(Symbol) /\ Len(SubSeq(a, 1, n)) = n
      /\ \A k \in 1 .. n : SubSeq(a, 1, n)[k] = a[k]
      /\ SubSeq(b, 1, m) \in Seq(Symbol) /\ Len(SubSeq(b, 1, m)) = m
      /\ \A k \in 1 .. m : SubSeq(b, 1, m)[k] = b[k]
  BY <1>1, SubSeqProperties
<1>5. ASSUME Trim(a) = Trim(b) PROVE Agree
  <2>1. n = m /\ \A k \in 1 .. n : a[k] = b[k]
    BY <1>2, <1>3, <1>4, <1>5
  <2> SUFFICES ASSUME NEW k \in DOMAIN a \cup DOMAIN b
               PROVE  \/ Over(a, k) /\ Over(b, k)
                      \/ k \in DOMAIN a /\ k \in DOMAIN b /\ a[k] = b[k]
    OBVIOUS
  <2>2. CASE k <= n
    BY <1>1, <2>1, <2>2
  <2>3. CASE ~(k <= n)
    <3>1. /\ \A j \in k .. Len(a) : j \in n + 1 .. Len(a)
          /\ \A j \in k .. Len(b) : j \in m + 1 .. Len(b)
      BY <1>1, <2>1, <2>3
    <3> QED
      BY <1>2, <1>3, <3>1 DEF Blanks
  <2> QED
    BY <2>2, <2>3
<1>6. ASSUME Agree PROVE Trim(a) = Trim(b)
  <2>1. ASSUME n < m PROVE FALSE
    <3>1. m \in DOMAIN b /\ m \in m .. Len(b) /\ b[m] \notin Blanks
      BY <1>1, <1>3, <2>1
    <3>2. m \in DOMAIN a /\ a[m] = b[m]
      BY <1>6, <3>1 DEF Blanks
    <3>3. m \in n + 1 .. Len(a)
      BY <1>1, <2>1, <3>2
    <3> QED
      BY <1>2, <3>1, <3>2, <3>3
  <2>2. ASSUME m < n PROVE FALSE
    <3>1. n \in DOMAIN a /\ n \in n .. Len(a) /\ a[n] \notin Blanks
      BY <1>1, <1>2, <2>2
    <3>2. n \in DOMAIN b /\ a[n] = b[n]
      BY <1>6, <3>1 DEF Blanks
    <3>3. n \in m + 1 .. Len(b)
      BY <1>1, <2>2, <3>2
    <3> QED
      BY <1>3, <3>1, <3>2, <3>3
  <2>3. n = m
    BY <1>1, <2>1, <2>2
  <2>4. ASSUME NEW k \in 1 .. n PROVE a[k] = b[k]
    <3>1. k \in DOMAIN a /\ n \in k .. Len(a) /\ a[n] \notin Blanks
      BY <1>1, <1>2
    <3> QED
      BY <1>6, <3>1 DEF Blanks
  <2> HIDE DEF Agree
  <2>5. \A k \in 1 .. n : SubSeq(a, 1, n)[k] = SubSeq(b, 1, m)[k]
    BY <1>4, <2>3, <2>4
  <2>6. SubSeq(a, 1, n) = SubSeq(b, 1, m)
    BY <1>4, <2>3, <2>5, SeqEqual
  <2> QED
    BY <1>2, <1>3, <2>6
<1> QED
  BY <1>5, <1>6

\* The validator's comparison is the one the specification asks for.
LEMMA NormalizeJudges ==
    ASSUME NEW out1 \in Seq(Symbol), NEW out2 \in Seq(Symbol)
    PROVE  normalize(out1) = normalize(out2) <=> SameAnswer(out1, out2)
<1>1. NoCR(out1) \in Seq(Symbol) /\ NoCR(out2) \in Seq(Symbol)
  BY NoCRIsText
<1> QED
  BY <1>1, TrimAgrees DEF normalize, SameAnswer

-----------------------------------------------------------------------------
\* Verdicts.

\* The validator gives what a code does the verdict the code deserves.
LEMMA VerdictOfOwn ==
    ASSUME WorkbenchAssumption, NEW t \in Task, NEW c
    PROVE  validate(t, ResultOf(c)) = Deserved(c, t)
<1>1. CASE c \in Builds
  <2>1. /\ ResultOf(c).says = "output" /\ ResultOf(c).about = c
        /\ Output(c) = Prints[c]
    BY <1>1 DEF ResultOf, Output
  <2>2. Prints[c] \in Seq(Symbol) /\ Expected[t] \in Seq(Symbol)
    BY <1>1, WorkbenchAssumption
  <2>3. normalize(Prints[c]) = normalize(Expected[t])
           <=> SameAnswer(Prints[c], Expected[t])
    BY <2>2, NormalizeJudges
  <2> QED
    BY <1>1, <2>1, <2>3 DEF validate, Deserved
<1>2. CASE c \notin Builds
  <2>1. ResultOf(c).says = "error"
    BY <1>2 DEF ResultOf
  <2> QED
    BY <1>2, <2>1 DEF validate, Deserved
<1> QED
  BY <1>1, <1>2

\* Every step at a window keeps its verdict deserved.
LEMMA BenchDeserved ==
    ASSUME RunnerAssumption, WorkbenchAssumption, BenchTypeOK, Undisturbed,
           ResultIsOwn, VerdictDeserved, [BenchNext]_benchVars
    PROVE  VerdictDeserved'
<1>1. ASSUME NEW p \in Watched,
             \A q \in Watched \ {p} : /\ feedback'[q] = feedback[q]
                                      /\ task'[q] = task[q],
             feedback'[p].own =>
                feedback'[p].verdict = Deserved(feedback'[p].code, task'[p])
      PROVE  VerdictDeserved'
  BY <1>1 DEF VerdictDeserved
<1>2. CASE UNCHANGED <<task, feedback>>
  BY <1>2 DEF VerdictDeserved
<1>3. ASSUME NEW p \in Watched, WatchedStep(p) PROVE VerdictDeserved'
  <2>1. p \in Process /\ feedback \in [Watched -> Feedback] /\ task \in [Watched -> Task]
    BY WorkbenchAssumption DEF BenchTypeOK
  <2>2. CASE \/ RunnerStep(p) \/ \E c \in Code : RunClicked(p, c)
             \/ RunStarted(p) \/ RunReturns(p) \/ RunPosted(p)
    BY <1>2, <2>2
    DEF RunnerStep, RunClicked, RunStarted, RunReturns, RunPosted, deskVars
  <2>3. CASE (\E t \in Task : onTaskSelected(p, t)) \/ Relaunch(p)
    <3>1. feedback' = [feedback EXCEPT ![p] = Hidden]
      BY <2>3 DEF onTaskSelected, Relaunch
    <3>2. \E t \in Task : task' = [task EXCEPT ![p] = t]
      <4>1. CASE \E t \in Task : onTaskSelected(p, t)
        BY <4>1 DEF onTaskSelected
      <4>2. CASE Relaunch(p)
        <5>1. task' \in {[task EXCEPT ![p] = t] : t \in Task}
          BY <4>2 DEF Relaunch
        <5> QED
          BY <5>1
      <4> QED
        BY <2>3, <4>1, <4>2
    <3>3. ~Hidden.own
      BY DEF Hidden
    <3> QED
      BY <1>1, <2>1, <3>1, <3>2, <3>3
  <2>4. ASSUME NEW c \in Code, onSubmit(p, c) PROVE VerdictDeserved'
    <3>1. CASE OpenFails(p, c) /\ Show(p, "uncompiled")
      <4>1. result'[p].says = "unwritten"
        BY <2>1, <3>1 DEF OpenFails, BenchTypeOK, TypeOK
      <4>2. ~feedback'[p].own
        BY <2>1, <3>1, <4>1 DEF Show, Returned
      <4> QED
        BY <1>1, <2>1, <2>4, <3>1, <4>2 DEF onSubmit, Show
    <3>2. CASE UNCHANGED feedback
      BY <1>2, <2>4, <3>2 DEF onSubmit
    <3> QED
      BY <2>4, <3>1, <3>2 DEF onSubmit
  <2>5. CASE SubmitReturns(p)
    <3>1. /\ Show(p, validate(task[p], result'[p])) /\ UNCHANGED task
          /\ alone' = alone
      BY <2>5
      DEF SubmitReturns, Returns, ReturnError, RemoveFiles
    <3>2. ResultIsOwn'
      BY BenchStepRuns, RunnerOwn DEF BenchTypeOK
    <3>3. /\ feedback'[p].verdict = validate(task[p], result'[p])
          /\ feedback'[p].code = code'[p]
          /\ feedback'[p].own => alone[p] /\ Returned(p)'
      BY <2>1, <3>1 DEF Show
    <3>4. ASSUME feedback'[p].own
          PROVE  feedback'[p].verdict = Deserved(feedback'[p].code, task'[p])
      <4>1. result'[p] = ResultOf(code'[p])
        BY <2>1, <3>1, <3>2, <3>3, <3>4 DEF ResultIsOwn
      <4> QED
        BY <2>1, <3>1, <3>3, <4>1, VerdictOfOwn
    <3> QED
      BY <1>1, <2>1, <3>1, <3>4 DEF Show
  <2> QED
    BY <1>3, <2>2, <2>3, <2>4, <2>5 DEF WatchedStep
<1>4. ASSUME NEW p \in Process \ Watched, OtherStep(p) PROVE VerdictDeserved'
  BY <1>2, <1>4 DEF OtherStep, RunnerStep, deskVars
<1> QED
  BY <1>2, <1>3, <1>4 DEF BenchNext, benchVars, deskVars

(***************************************************************************)
(* The task page never shows the verdict of another code, another task or  *)
(* another output than the submitted code's own, as long as no other       *)
(* client was in run() meanwhile; and what it compares is what the         *)
(* specification compares, for outputs of any length.                      *)
(***************************************************************************)
THEOREM VerdictsAreDeserved == BenchSpec => []VerdictDeserved
<1>1. BenchInit => VerdictDeserved
  BY DEF BenchInit, VerdictDeserved, Hidden
<1>2. /\ BenchTypeOK /\ TypeOK /\ Undisturbed /\ ResultIsOwn
      /\ VerdictDeserved /\ [BenchNext]_benchVars
      => VerdictDeserved'
  BY RunnerAssumption, WorkbenchAssumption, BenchDeserved
<1> QED
  BY <1>1, <1>2, BenchTypeCorrect, BenchRunsCode, ResultsAreOwn, PTL
  DEF BenchSpec
=============================================================================
