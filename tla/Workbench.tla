----------------------------- MODULE Workbench -----------------------------
(***************************************************************************)
(* What a window does with CodeRunner::run: the Run button of              *)
(* client/DashboardWidget.cpp, and the task page (client/TaskWidget.cpp    *)
(* with shared/src/TaskValidator.cpp).                                     *)
(*                                                                         *)
(* Everything happens in the GUI thread.  The Run button starts a QThread, *)
(* but connects its started signal to a slot of the widget, which is thus  *)
(* queued to the GUI thread; that one compiles, runs, and queues the       *)
(* result behind what is there already.  The texts of the two editors are  *)
(* chosen when they are used.                                              *)
(***************************************************************************)
EXTENDS CodeRunner, Sequences, Naturals

CONSTANTS
    Watched,   \* bound: the clients whose window is followed
    Elsewhere, \* bound: the codes that the others run
    MaxOthers, \* bound: calls of others, and g++ left behind, at a time
    Task,
    Symbol,    \* the characters of outputs
    Prints,    \* Prints[c]: what the program built from c prints
    Expected,  \* Expected[t]: Task::expectedOutput
    Typed,     \* Typed[c]: the text c itself
    CR, Space, Newline

ASSUME WorkbenchAssumption ==
    /\ Watched \subseteq Process /\ Elsewhere \subseteq Code
    /\ MaxOthers \in Nat
    /\ Prints \in [Builds -> Seq(Symbol)]
    /\ Expected \in [Task -> Seq(Symbol)]
    /\ Typed \in [Code -> Seq(Symbol)]
    /\ {CR, Space, Newline} \subseteq Symbol
    /\ CR # Space /\ CR # Newline /\ Space # Newline

VARIABLES
    caller,    \* caller[p]: what the GUI thread is in CodeRunner::run for
    runJob,    \* runJob[p]: how far the click on Run is; its button is on
               \* when that is "none"
    runCode,   \* runCode[p]: the code that click took, until it is run
    task,      \* task[p]: selector->currentIndex()
    feedback   \* feedback[p]: feedbackLabel

deskVars == <<caller, runJob, runCode, task, feedback>>
benchVars == <<vars, deskVars>>

Hidden == [verdict |-> "hidden", code |-> None, own |-> FALSE]
Feedback == [verdict : {"hidden", "correct", "wrong", "uncompiled"},
             code : Code \cup {None}, own : BOOLEAN]

\* The GUI thread is inside a call of run exactly when one of the two buttons
\* has it so, and the job of the Run button is inside when it is that one.
JobInStep(p) ==
    /\ caller[p] = "nobody" <=> pc[p] = "idle"
    /\ caller[p] = "run" <=> runJob[p] = "inside"
    /\ runJob[p] = "starting" => runCode[p] # None

\* How far each window is with what its buttons started.
BenchTypeOK ==
    /\ TypeOK
    /\ caller \in [Watched -> {"nobody", "run", "submit"}]
    /\ runJob \in [Watched -> {"none", "starting", "inside", "posted"}]
    /\ runCode \in [Watched -> Code \cup {None}]
    /\ task \in [Watched -> Task]
    /\ feedback \in [Watched -> Feedback]
    /\ \A p \in Watched : JobInStep(p)

\* The combo box starts on its first entry, whichever that is.
BenchInit ==
    /\ Init
    /\ caller = [p \in Watched |-> "nobody"]
    /\ runJob = [p \in Watched |-> "none"]
    /\ runCode = [p \in Watched |-> None]
    /\ task \in [Watched -> Task]
    /\ feedback = [p \in Watched |-> Hidden]

-----------------------------------------------------------------------------
\* TaskValidator

\* s without its carriage returns.
NoCR(s) ==
    LET kept[n \in 0 .. Len(s)] ==
            IF n = 0 THEN <<>>
            ELSE IF s[n] = CR THEN kept[n - 1] ELSE Append(kept[n - 1], s[n])
    IN kept[Len(s)]

\* What is left of s without its last blanks.
Trim(s) ==
    LET ends == {n \in 0 .. Len(s) :
                    \A k \in n + 1 .. Len(s) : s[k] \in {Space, Newline}}
    IN SubSeq(s, 1, CHOOSE n \in ends : \A m \in ends : n <= m)

\* Mutant: takes the blanks off first.
normalize_trimsFirst(s) == NoCR(Trim(s))
normalize(s) == Trim(NoCR(s))

\* Without a program to run, "timeout" prints nothing.
Output(bin) == IF bin \in Builds THEN Prints[bin] ELSE <<>>

validate(t, run) ==
    IF run.says # "output" THEN "uncompiled"
    ELSE IF normalize(Output(run.about)) = normalize(Expected[t])
    THEN "correct" ELSE "wrong"

-----------------------------------------------------------------------------
\* The GUI thread: free for the next event, or inside a call of run.

GuiFree(p) == caller[p] = "nobody"

RunnerStep(p) ==
    /\ WriteSource(p) \/ ReadSource(p) \/ Link(p) \/ Complain(p) \/ RunProgram(p)
    /\ UNCHANGED deskVars

Returns(p) == ReturnError(p) \/ RemoveFiles(p)

Show(p, verdict) ==
    feedback' = [feedback EXCEPT ![p] =
                   [verdict |-> verdict, code |-> code'[p],
                    own |-> alone[p] /\ Returned(p)']]

\* The button is on, and there is something to run.
RunClicked(p, c) ==
    /\ GuiFree(p) /\ runJob[p] = "none"
    /\ runJob' = [runJob EXCEPT ![p] = "starting"]
    /\ runCode' = [runCode EXCEPT ![p] = c]
    /\ UNCHANGED <<vars, caller, task, feedback>>

\* QThread::started.
RunStarted(p) ==
    /\ GuiFree(p) /\ runJob[p] = "starting"
    /\ \/ /\ OpenSource(p, runCode[p])
          /\ caller' = [caller EXCEPT ![p] = "run"]
          /\ runJob' = [runJob EXCEPT ![p] = "inside"]
       \/ /\ OpenFails(p, runCode[p])
          /\ runJob' = [runJob EXCEPT ![p] = "posted"]
          /\ UNCHANGED caller
    /\ runCode' = [runCode EXCEPT ![p] = None]
    /\ UNCHANGED <<task, feedback>>

\* Mutant: posts the result only when there is some output.
RunReturns_outputOnly(p) ==
    /\ caller[p] = "run" /\ Returns(p)
    /\ caller' = [caller EXCEPT ![p] = "nobody"]
    /\ runJob' = [runJob EXCEPT ![p] =
                    IF result'[p].says = "output" THEN "posted" ELSE @]
    /\ UNCHANGED <<runCode, task, feedback>>

RunReturns(p) ==
    /\ caller[p] = "run" /\ Returns(p)
    /\ caller' = [caller EXCEPT ![p] = "nobody"]
    /\ runJob' = [runJob EXCEPT ![p] = "posted"]
    /\ UNCHANGED <<runCode, task, feedback>>

\* The result is shown and the button is on again.
RunPosted(p) ==
    /\ GuiFree(p) /\ runJob[p] = "posted"
    /\ runJob' = [runJob EXCEPT ![p] = "none"]
    /\ UNCHANGED <<vars, caller, runCode, task, feedback>>

\* Mutant: leaves the old verdict up.
onTaskSelected_keepsLabel(p, t) ==
    /\ GuiFree(p) /\ t # task[p]
    /\ task' = [task EXCEPT ![p] = t]
    /\ UNCHANGED <<vars, caller, runJob, runCode, feedback>>

onTaskSelected(p, t) ==
    /\ GuiFree(p) /\ t # task[p]
    /\ task' = [task EXCEPT ![p] = t]
    /\ feedback' = [feedback EXCEPT ![p] = Hidden]
    /\ UNCHANGED <<vars, caller, runJob, runCode>>

\* onSubmit calls validate, which calls run,
onSubmit(p, c) ==
    /\ GuiFree(p)
    /\ \/ /\ OpenSource(p, c)
          /\ caller' = [caller EXCEPT ![p] = "submit"]
          /\ UNCHANGED feedback
       \/ /\ OpenFails(p, c)
          /\ Show(p, "uncompiled")
          /\ UNCHANGED caller
    /\ UNCHANGED <<runJob, runCode, task>>

\* and shows the verdict on what that returned.
SubmitReturns(p) ==
    /\ caller[p] = "submit" /\ Returns(p)
    /\ caller' = [caller EXCEPT ![p] = "nobody"]
    /\ Show(p, validate(task[p], result'[p]))
    /\ UNCHANGED <<runJob, runCode, task>>

Others ==
    Cardinality({q \in Process \ Watched : pc[q] # "idle"}) +
    Cardinality({q \in Process : orphan[q] # NoGpp})

\* The window is closed or killed, and opened again; a g++ may be left.
Relaunch(p) ==
    /\ IF pc[p] = "idle" THEN UNCHANGED vars
       ELSE Crash(p) /\ Others' <= MaxOthers
    /\ caller' = [caller EXCEPT ![p] = "nobody"]
    /\ runJob' = [runJob EXCEPT ![p] = "none"]
    /\ runCode' = [runCode EXCEPT ![p] = None]
    /\ task' \in {[task EXCEPT ![p] = t] : t \in Task}
    /\ feedback' = [feedback EXCEPT ![p] = Hidden]

WatchedStep(p) ==
    \/ RunnerStep(p)
    \/ \E c \in Code : RunClicked(p, c) \/ onSubmit(p, c)
    \/ RunStarted(p) \/ RunReturns(p) \/ RunPosted(p)
    \/ \E t \in Task : onTaskSelected(p, t)
    \/ SubmitReturns(p)
    \/ Relaunch(p)

\* A client whose window is not followed calls run at any time.  (When it
\* cannot open the source nobody else notices.)
OtherStep(p) ==
    \/ RunnerStep(p)
    \/ /\ \/ \E c \in Elsewhere : OpenSource(p, c)
          \/ Returns(p) \/ Crash(p)
       /\ Others' <= MaxOthers
       /\ UNCHANGED deskVars

BenchNext ==
    \/ \E p \in Watched : WatchedStep(p)
    \/ \E p \in Process \ Watched : OtherStep(p)
    \/ \E p \in Process : (OrphanReads(p) \/ OrphanEnds(p)) /\ UNCHANGED deskVars

BenchSpec == BenchInit /\ [][BenchNext]_benchVars

\* g++ ends, and "timeout 5" ends the program.  Qt delivers queued calls in
\* order, so clicks do not hold them up for ever.
BenchFairness ==
    \A p \in Watched :
        /\ WF_benchVars(RunnerStep(p))
        /\ WF_benchVars(RunReturns(p)) /\ WF_benchVars(SubmitReturns(p))
        /\ SF_benchVars(RunStarted(p)) /\ SF_benchVars(RunPosted(p))

FairBenchSpec == BenchSpec /\ BenchFairness

-----------------------------------------------------------------------------
\* Two outputs that differ in nothing but carriage returns and the blanks
\* after the last visible character.
SameAnswer(out1, out2) ==
    LET a == NoCR(out1)
        b == NoCR(out2)
        Over(s, k) == \A j \in k .. Len(s) : s[j] \in {Space, Newline}
    IN \A k \in DOMAIN a \cup DOMAIN b :
          \/ Over(a, k) /\ Over(b, k)
          \/ k \in DOMAIN a /\ k \in DOMAIN b /\ a[k] = b[k]

Deserved(c, t) ==
    IF c \notin Builds THEN "uncompiled"
    ELSE IF SameAnswer(Prints[c], Expected[t]) THEN "correct" ELSE "wrong"

(***************************************************************************)
(* The verdict on the task page is the one the submitted code deserves for *)
(* the task that is selected now, whatever the Run button and killed       *)
(* clients did before, if no other client used the files meanwhile         *)
(* (TaskValidator.cpp:14-36, TaskWidget.cpp:170-203): "Task validation is  *)
(* primarily output-based" (README.md:151).  The tests of the validator    *)
(* want something else, see AnswersPass.                                   *)
(***************************************************************************)
VerdictDeserved ==
    \A p \in Watched :
        feedback[p].own => feedback[p].verdict = Deserved(feedback[p].code, task[p])

(***************************************************************************)
(* The Run button comes back after every click, although the compiler and  *)
(* the program hold up the thread that must enable it                      *)
(* (DashboardWidget.cpp:199-229), and whatever else is submitted and run.  *)
(***************************************************************************)
RunButtonReturns ==
    \A p \in Watched : runJob[p] # "none" ~> runJob[p] = "none"

-----------------------------------------------------------------------------
(***************************************************************************)
(* What the tests promise and the code does not keep: an answer that is    *)
(* itself the expected output, but for blanks at its end, is correct       *)
(* (tests/test_tasks.cpp:17-22 and 32-37, EXPECT_TRUE(r.passed) on         *)
(* validate(t, "Hello World")).                                            *)
(***************************************************************************)
AnswersPass ==
    \A p \in Watched : LET f == feedback[p] IN
        f.own /\ SameAnswer(Typed[f.code], Expected[task[p]])
            => f.verdict = "correct"
=============================================================================
