------------------------------ MODULE SuiteCli ------------------------------
(***************************************************************************)
(* cli/suite_runner_cli.py: _run_suite(), the loop over the graphs with    *)
(* its periodic and final result writes, the SIGINT and SIGTERM handling   *)
(* around them and the SIGTERM watchdog; SuiteResult.write() of            *)
(* reporting/suite_results.py, step by step.                               *)
(*                                                                         *)
(* A Python signal handler runs on the main thread between two bytecodes:  *)
(* a signal is first pending, and raises at the next step of the main      *)
(* thread that can be interrupted.                                         *)
(*                                                                         *)
(* A definition X_suffix just before X is a seeded bug for mutation runs.  *)
(***************************************************************************)
EXTENDS Naturals, FiniteSets

CONSTANTS Total,      \* graphs of the suite
          Output,     \* was a result file asked for?
          MaxSignals  \* bound: signals sent to one run

ASSUME SuiteAssumption ==
  Total \in Nat /\ Output \in BOOLEAN /\ MaxSignals \in Nat

Signals == {"int", "term"}

VARIABLES
  pc,        \* the main thread, by the step it takes next
  final,     \* the write in progress is the last one, in the finally block
  graphs,    \* suite.graphs: how many results are recorded
  verdicts,  \* of the recorded graphs: subset of {"failed", "error"}
  complete,  \* suite.run.complete
  left,      \* why the loop was left: "done", "int", "term" or "crash"
  write_ok,  \* what the last write returned: "none", "yes" or "no"
  file,      \* the output path: whose document, of how many graphs
  pending,   \* signals received whose handler has not run yet
  sent,      \* signals sent so far
  hung,      \* the main thread is stuck in native code
  alarm,     \* the watchdog saw a SIGTERM and is counting down
  swallowed, \* history: an exception raised by a signal was dropped
  ended,     \* "no", "died" or "returned"
  exit       \* of a process that returned: its code and its claim

vars == <<pc, final, graphs, verdicts, complete, left, write_ok, file,
          pending, sent, hung, alarm, swallowed, ended, exit>>
suite   == <<graphs, verdicts, complete>>
signals == <<pending, sent, alarm>>
result  == <<suite, file, write_ok>>
process == <<ended, exit>>

Document == [by |-> "suite", n |-> graphs, complete |-> complete]

Writing == {"create", "fill", "replace", "replaced"}
Steps   == {"arm", "loop", "graph", "print", "finish", "ignore_int", "ignore_term",
            "write", "disarm", "report", "over"} \cup Writing

Init ==
  /\ pc = "arm" /\ final = FALSE
  /\ graphs = 0 /\ verdicts = {} /\ complete = FALSE
  /\ left = "no" /\ write_ok = "none"
  /\ file = [by |-> "before", n |-> 0, complete |-> FALSE]
  /\ pending = {} /\ sent = 0 /\ hung = FALSE /\ alarm = FALSE
  /\ swallowed = FALSE
  /\ ended = "no" /\ exit = [code |-> 0, saved |-> FALSE]

Running == ended = "no" /\ ~hung

At(step) == Running /\ pc = step

Die == ended' = "died" /\ pc' = "over" /\ UNCHANGED exit

-----------------------------------------------------------------------------
(* The try block: the loop over the graphs.                                *)

ArmWatchdog ==
  /\ At("arm")
  /\ pc' = "loop"
  /\ UNCHANGED <<final, result, left, signals, hung, swallowed, process>>

Loop ==
  /\ At("loop")
  /\ pc' = IF graphs < Total THEN "graph" ELSE "finish"
  /\ UNCHANGED <<final, result, left, signals, hung, swallowed, process>>

(* A graph runs and its result is appended; nothing it raises gets out.    *)
RunGraph ==
  /\ At("graph")
  /\ \E verdict \in SUBSET {"failed", "error"} : verdicts' = verdicts \cup verdict
  /\ graphs' = graphs + 1
  /\ pc' = "print"
  /\ UNCHANGED <<final, complete, file, write_ok, left, signals, hung, swallowed, process>>

(* A GPU kernel never returns.                                             *)
Hang ==
  /\ At("graph")
  /\ hung' = TRUE
  /\ UNCHANGED <<pc, final, result, left, signals, swallowed, process>>

(* The table is printed, and the file written if the last write is old.    *)
ShowTable ==
  /\ At("print")
  /\ pc' \in {"write", "loop"}
  /\ UNCHANGED <<final, result, left, signals, hung, swallowed, process>>

(* The reporter raises (a closed stdout): the finally block still runs.    *)
ShowTableFails ==
  /\ At("print")
  /\ left' = "crash"
  /\ pc' = "ignore_int"
  /\ UNCHANGED <<final, result, signals, hung, swallowed, process>>

Finish ==
  /\ At("finish")
  /\ complete' = TRUE /\ left' = "done"
  /\ pc' = "ignore_int"
  /\ UNCHANGED <<final, graphs, verdicts, file, write_ok, signals, hung, swallowed, process>>

-----------------------------------------------------------------------------
(* write(): serialize, make a temp file beside the target, fill it, rename *)
(* it over the target.                                                     *)

WriteReturns(ok) ==
  /\ write_ok' = IF final THEN ok ELSE write_ok
  /\ pc' = IF final THEN "disarm" ELSE "loop"

StartWrite ==
  /\ At("write")
  /\ IF Output THEN pc' = "create" /\ UNCHANGED write_ok ELSE WriteReturns("yes")
  /\ UNCHANGED <<final, suite, file, left, signals, hung, swallowed, process>>

Create ==
  /\ At("create")
  /\ pc' = "fill"
  /\ UNCHANGED <<final, result, left, signals, hung, swallowed, process>>

(* What the target holds while the text is being written.                  *)
Filling_in_place == [file EXCEPT !.by = "torn"]
Filling == file

Fill ==
  /\ At("fill")
  /\ file' = Filling
  /\ pc' = "replace"
  /\ UNCHANGED <<final, suite, write_ok, left, signals, hung, swallowed, process>>

Replace ==
  /\ At("replace")
  /\ file' = Document
  /\ pc' = "replaced"
  /\ UNCHANGED <<final, suite, write_ok, left, signals, hung, swallowed, process>>

EndWrite ==
  /\ At("replaced")
  /\ WriteReturns("yes")
  /\ UNCHANGED <<final, suite, file, left, signals, hung, swallowed, process>>

(* An OSError (or a value JSON cannot hold) is reported and gives FALSE.   *)
Failed_reported_saved == "yes"
Failed == "no"

WriteFails ==
  /\ Running /\ pc \in {"create", "fill", "replace"}
  /\ WriteReturns(Failed)
  /\ UNCHANGED <<final, suite, file, left, signals, hung, swallowed, process>>

-----------------------------------------------------------------------------
(* The finally block: ignore both signals, write once more, hand back.     *)

Drop(sig) == pending' = pending \ {sig}

IgnoreInt ==
  /\ At("ignore_int")
  /\ Drop("int")
  /\ pc' = "ignore_term"
  /\ UNCHANGED <<final, result, left, sent, alarm, hung, swallowed, process>>

IgnoreTerm ==
  /\ At("ignore_term")
  /\ Drop("term")
  /\ final' = TRUE
  /\ pc' = "write"
  /\ UNCHANGED <<result, left, sent, alarm, hung, swallowed, process>>

Disarm ==
  /\ At("disarm")
  /\ alarm' = FALSE
  /\ pc' = "report"
  /\ UNCHANGED <<final, result, left, pending, sent, hung, swallowed, process>>

Saved == Output /\ write_ok = "yes"

ExitCode_ignores_write ==
  IF "failed" \in verdicts THEN 3 ELSE IF "error" \in verdicts THEN 1 ELSE 0
ExitCode ==
  IF "failed" \in verdicts THEN 3
  ELSE IF "error" \in verdicts \/ write_ok # "yes" THEN 1 ELSE 0

Return(code) ==
  /\ ended' = "returned" /\ exit' = [code |-> code, saved |-> Saved]
  /\ pc' = "over"

Report ==
  /\ At("report")
  /\ \/ left = "int" /\ Return(130)
     \/ left = "term" /\ Return(143)
     \/ left = "done" /\ Return(ExitCode)
     \/ left = "crash" /\ Die
  /\ UNCHANGED <<final, result, left, signals, hung, swallowed>>

-----------------------------------------------------------------------------
(* Signals.                                                                *)

(* What the process does with a signal, by where the main thread is.       *)
InFinalWrite == final /\ pc \in Writing \cup {"write", "disarm"}

Disposition(sig) ==
  IF InFinalWrite \/ (sig = "int" /\ pc = "ignore_term") THEN "ignore"
  ELSE IF sig = "term" /\ pc = "report" THEN "default"
  ELSE "raise"

(* The wakeup fd tells the watchdog of a SIGTERM as soon as it arrives.    *)
Arrive(sig) ==
  /\ ended = "no" /\ sent < MaxSignals
  /\ sent' = sent + 1
  /\ \/ /\ Disposition(sig) = "raise"
        /\ pending' = pending \cup {sig}
        /\ alarm' = (alarm \/ (sig = "term" /\ pc # "arm"))
        /\ UNCHANGED <<pc, process>>
     \/ /\ Disposition(sig) = "ignore"
        /\ UNCHANGED <<pc, process, pending, alarm>>
     \/ /\ Disposition(sig) = "default"
        /\ Die
        /\ UNCHANGED <<pending, alarm>>
  /\ UNCHANGED <<final, result, left, hung, swallowed>>

(* SIGINT's handler runs first when both are pending.                      *)
NextPending(sig) == sig \in pending /\ (sig = "term" => "int" \notin pending)

InTry == pc \in {"loop", "graph", "print", "finish", "write", "create", "fill", "replace"}

(* In the try block the exception leaves the loop ...                      *)
Interrupt(sig) ==
  /\ Running /\ InTry /\ ~InFinalWrite
  /\ NextPending(sig) /\ Drop(sig)
  /\ left' = sig
  /\ pc' = "ignore_int"
  /\ UNCHANGED <<final, result, sent, alarm, hung, swallowed, process>>

(* ... but after the rename, write() unlinks a temp file that is gone: the *)
(* FileNotFoundError takes the exception's place and counts as a failed    *)
(* write.                                                                  *)
InterruptAfterReplace(sig) ==
  /\ At("replaced") /\ ~InFinalWrite
  /\ NextPending(sig) /\ Drop(sig)
  /\ swallowed' = TRUE
  /\ WriteReturns("no")
  /\ UNCHANGED <<final, suite, file, left, sent, alarm, hung, process>>

(* Outside the try block nothing catches it.                               *)
Uncaught(sig) ==
  /\ Running /\ pc \in {"arm", "ignore_int", "ignore_term", "report"}
  /\ NextPending(sig) /\ Drop(sig)
  /\ Die
  /\ UNCHANGED <<final, result, left, sent, alarm, hung, swallowed>>

(* The watchdog: the grace period is over and the run has not disarmed it. *)
GraceOver_needs_main == alarm /\ ~hung
GraceOver == alarm

ForceExit ==
  /\ ended = "no" /\ GraceOver
  /\ Die
  /\ UNCHANGED <<final, result, left, signals, hung, swallowed>>

-----------------------------------------------------------------------------
Main ==
  \/ ArmWatchdog \/ Loop \/ RunGraph \/ ShowTable \/ ShowTableFails \/ Finish
  \/ StartWrite \/ Create \/ Fill \/ Replace \/ EndWrite \/ WriteFails
  \/ IgnoreInt \/ IgnoreTerm \/ Disarm \/ Report
  \/ \E sig \in Signals :
       Interrupt(sig) \/ InterruptAfterReplace(sig) \/ Uncaught(sig)

Stays == (ended # "no" \/ hung) /\ UNCHANGED vars

Next == Main \/ Hang \/ ForceExit \/ (\E sig \in Signals : Arrive(sig)) \/ Stays

Spec == Init /\ [][Next]_vars

(* The main thread runs on unless a graph hangs; the watchdog's timed wait *)
(* always ends.                                                            *)
FairSpec == Spec /\ WF_vars(Main) /\ WF_vars(ForceExit)

-----------------------------------------------------------------------------
(* Properties.                                                             *)

Documents == [by : {"before", "suite"}, n : 0..Total, complete : BOOLEAN]
Exits     == [code : {0, 1, 3, 130, 143}, saved : BOOLEAN]

TypeOK ==
  /\ pc \in Steps /\ final \in BOOLEAN /\ hung \in BOOLEAN /\ alarm \in BOOLEAN
  /\ graphs \in 0..Total /\ verdicts \subseteq {"failed", "error"}
  /\ complete \in BOOLEAN /\ left \in Signals \cup {"no", "done", "crash"}
  /\ write_ok \in {"none", "yes", "no"}
  /\ file \in Documents
  /\ pending \subseteq Signals /\ sent \in 0..MaxSignals
  /\ swallowed \in BOOLEAN
  /\ ended \in {"no", "died", "returned"} /\ exit \in Exits

(* The run implements ResultFile: at every moment, also when the process   *)
(* is killed inside a write, the output path holds a whole document, and a *)
(* process that ends in order tells the truth about it.                    *)
Results == INSTANCE ResultFile WITH recorded <- graphs

FileKept == Results!Spec

(* Exit code 0 means what CI takes it for: every graph ran, no engine row  *)
(* failed or erred, and the file, if any, is the whole suite.              *)
ZeroMeansAllGood ==
  (ended = "returned" /\ exit.code = 0) =>
    /\ graphs = Total /\ verdicts = {}
    /\ Output => file = [by |-> "suite", n |-> Total, complete |-> TRUE]

(* After a SIGTERM that reached the watchdog the process ends, also when   *)
(* the main thread hangs in native code or lost the exception.             *)
TermEnds == alarm ~> ended # "no"

(* suite_runner_cli.py:317: a second signal does not lose the results.  A  *)
(* run that a first signal interrupted tries the last write before it ends *)
(* (unless the watchdog cuts it off).                                      *)
SecondSignalHarmless ==
  [][(ended = "no" /\ left \in Signals /\ \E sig \in Signals : Uncaught(sig))
       => write_ok # "none"]_vars

(* README.md, "Exit codes": 130 and 143 tell of an interrupt.  No interrupt *)
(* that the run received is lost.                                          *)
InterruptReported == ~swallowed
=============================================================================
