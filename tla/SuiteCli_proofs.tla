--------------------------- MODULE SuiteCli_proofs ---------------------------
(***************************************************************************)
(* Proofs about SuiteCli for every number of graphs and of signals, with   *)
(* and without a result file: type correctness, the refinement of          *)
(* ResultFile, what exit code 0 means, and that no step sends a run back.  *)
(***************************************************************************)
EXTENDS SuiteCli, Descent, TLAPS

(* The Boolean part of the type invariant; the provers take it on its own. *)
FlagsOK ==
  /\ final \in BOOLEAN /\ hung \in BOOLEAN /\ alarm \in BOOLEAN
  /\ complete \in BOOLEAN /\ swallowed \in BOOLEAN

(* The rest of it.                                                         *)
DataOK ==
  /\ pc \in Steps
  /\ graphs \in 0..Total /\ verdicts \subseteq {"failed", "error"}
  /\ left \in Signals \cup {"no", "done", "crash"}
  /\ write_ok \in {"none", "yes", "no"}
  /\ file \in Documents
  /\ pending \subseteq Signals /\ sent \in 0..MaxSignals
  /\ ended \in {"no", "died", "returned"} /\ exit \in Exits

(* How far the loop and its flags have come, by the main thread's step.    *)
Progress ==
  /\ pc \in {"arm", "loop", "graph", "print", "finish"} => left = "no" /\ ~final
  /\ (pc \in Writing \cup {"write"} /\ ~final) => left = "no"
  /\ (pc \in Writing \cup {"write"} /\ final) => left # "no"
  /\ pc \in {"ignore_int", "ignore_term"} => left # "no" /\ ~final
  /\ pc \in {"disarm", "report"} => left # "no" /\ final
  /\ pc = "graph" => graphs < Total
  /\ pc = "finish" => graphs = Total
  /\ complete <=> left = "done"
  /\ complete => graphs = Total
  /\ (pc = "over") <=> (ended # "no")

(* What the last step of a write knows of the file.                        *)
OnDisk ==
  /\ pc \in Writing => Output
  /\ pc = "replaced" => file = Document
  /\ pc \in {"disarm", "report"} =>
       /\ write_ok \in {"yes", "no"}
       /\ (write_ok = "yes" /\ Output) => file = Document

IInv == FlagsOK /\ DataOK /\ Progress /\ OnDisk /\ ZeroMeansAllGood

LEMMA ClaimIsBoolean == Saved \in BOOLEAN
BY Zenon DEF Saved

LEMMA TypeParts == TypeOK <=> FlagsOK /\ DataOK
BY DEF TypeOK, FlagsOK, DataOK

LEMMA InitInv == Init => IInv
<1> SUFFICES ASSUME Init PROVE IInv
    OBVIOUS
<1> USE SuiteAssumption
<1>1. FlagsOK
    BY Zenon DEF Init, FlagsOK
<1>2. DataOK
    BY DEF Init, DataOK, Steps, Writing, Documents, Exits, Signals
<1>3. Progress /\ OnDisk /\ ZeroMeansAllGood
    BY DEF Init, Progress, OnDisk, ZeroMeansAllGood, Writing
<1>. QED  BY <1>1, <1>2, <1>3 DEF IInv

LEMMA FlagsStep == FlagsOK /\ [Next]_vars => FlagsOK'
<1> SUFFICES ASSUME FlagsOK, [Next]_vars PROVE FlagsOK'
    OBVIOUS
<1> USE DEF FlagsOK, vars, suite, signals, result, process, WriteReturns, Die, Return
<1>1. CASE ArmWatchdog
    BY <1>1, Zenon DEF ArmWatchdog
<1>2. CASE Loop
    BY <1>2, Zenon DEF Loop
<1>3. CASE RunGraph
    BY <1>3, Zenon DEF RunGraph
<1>4. CASE ShowTable
    BY <1>4, Zenon DEF ShowTable
<1>5. CASE ShowTableFails
    BY <1>5, Zenon DEF ShowTableFails
<1>6. CASE Finish
    BY <1>6, Zenon DEF Finish
<1>7. CASE StartWrite
    BY <1>7, Zenon DEF StartWrite
<1>8. CASE Create
    BY <1>8, Zenon DEF Create
<1>9. CASE Fill
    BY <1>9, Zenon DEF Fill
<1>10. CASE Replace
    BY <1>10, Zenon DEF Replace
<1>11. CASE EndWrite
    BY <1>11, Zenon DEF EndWrite
<1>12. CASE WriteFails
    BY <1>12, Zenon DEF WriteFails
<1>13. CASE IgnoreInt
    BY <1>13, Zenon DEF IgnoreInt
<1>14. CASE IgnoreTerm
    BY <1>14, Zenon DEF IgnoreTerm
<1>15. CASE Disarm
    BY <1>15, Zenon DEF Disarm
<1>16. CASE Report
    BY <1>16, Zenon DEF Report
<1>17. CASE Hang
    BY <1>17, Zenon DEF Hang
<1>18. CASE ForceExit
    BY <1>18, Zenon DEF ForceExit
<1>19. ASSUME NEW sig \in Signals, Interrupt(sig) PROVE FlagsOK'
    BY <1>19, Zenon DEF Interrupt
<1>20. ASSUME NEW sig \in Signals, InterruptAfterReplace(sig) PROVE FlagsOK'
    BY <1>20, Zenon DEF InterruptAfterReplace
<1>21. ASSUME NEW sig \in Signals, Uncaught(sig) PROVE FlagsOK'
    BY <1>21, Zenon DEF Uncaught
<1>22. ASSUME NEW sig \in Signals, Arrive(sig) PROVE FlagsOK'
    BY <1>22, Zenon DEF Arrive
<1>23. CASE UNCHANGED vars
    BY <1>23, Zenon
<1>. QED
  BY <1>1, <1>2, <1>3, <1>4, <1>5, <1>6, <1>7, <1>8, <1>9, <1>10, <1>11, <1>12,
     <1>13, <1>14, <1>15, <1>16, <1>17, <1>18, <1>19, <1>20, <1>21, <1>22, <1>23
  DEF Next, Main, Stays

LEMMA DataStep == IInv /\ [Next]_vars => DataOK'
<1> SUFFICES ASSUME IInv, [Next]_vars PROVE DataOK'
    OBVIOUS
<1> USE SuiteAssumption, ClaimIsBoolean DEF IInv, FlagsOK, DataOK, Progress, OnDisk, Steps,
        Writing, Documents,
    Exits, Signals, vars, suite, signals, result, process, At, Running, Drop,
    Die, Return, WriteReturns, Failed, Filling, Document, ExitCode
<1>1. CASE ArmWatchdog
    BY <1>1 DEF ArmWatchdog
<1>2. CASE Loop
    BY <1>2 DEF Loop
<1>3. CASE RunGraph
    BY <1>3 DEF RunGraph
<1>4. CASE ShowTable
    BY <1>4 DEF ShowTable
<1>5. CASE ShowTableFails
    BY <1>5 DEF ShowTableFails
<1>6. CASE Finish
    BY <1>6 DEF Finish
<1>7. CASE StartWrite
    BY <1>7 DEF StartWrite
<1>8. CASE Create
    BY <1>8 DEF Create
<1>9. CASE Fill
    BY <1>9 DEF Fill
<1>10. CASE Replace
    BY <1>10 DEF Replace
<1>11. CASE EndWrite
    BY <1>11 DEF EndWrite
<1>12. CASE WriteFails
    BY <1>12 DEF WriteFails
<1>13. CASE IgnoreInt
    BY <1>13 DEF IgnoreInt
<1>14. CASE IgnoreTerm
    BY <1>14 DEF IgnoreTerm
<1>15. CASE Disarm
    BY <1>15 DEF Disarm
<1>16. CASE Report
    BY <1>16 DEF Report
<1>17. CASE Hang
    BY <1>17 DEF Hang
<1>18. CASE ForceExit
    BY <1>18 DEF ForceExit
<1>19. ASSUME NEW sig \in Signals, Interrupt(sig) PROVE DataOK'
    BY <1>19 DEF Interrupt
<1>20. ASSUME NEW sig \in Signals, InterruptAfterReplace(sig) PROVE DataOK'
    BY <1>20 DEF InterruptAfterReplace
<1>21. ASSUME NEW sig \in Signals, Uncaught(sig) PROVE DataOK'
    BY <1>21 DEF Uncaught
<1>22. ASSUME NEW sig \in Signals, Arrive(sig) PROVE DataOK'
  <2>1. sent' = sent + 1 /\ sent < MaxSignals
    BY <1>22 DEF Arrive
  <2>4. pending' \subseteq Signals
    <3>1. pending' = pending \/ pending' = pending \cup {sig}
      BY <1>22 DEF Arrive
    <3>2. pending \subseteq Signals
      OBVIOUS
    <3>. HIDE DEF Signals, DataOK, IInv
    <3>. QED
      BY <3>1, <3>2, <1>22
  <2>2. pc' \in Steps /\ ended' \in {"no", "died", "returned"} /\ exit' = exit
    BY <1>22 DEF Arrive
  <2>3. UNCHANGED <<graphs, verdicts, left, write_ok, file>>
    BY <1>22 DEF Arrive
  <2>. QED
    BY <2>1, <2>2, <2>3, <2>4
<1>23. CASE UNCHANGED vars
    BY <1>23
<1>. QED
  BY <1>1, <1>2, <1>3, <1>4, <1>5, <1>6, <1>7, <1>8, <1>9, <1>10, <1>11, <1>12,
     <1>13, <1>14, <1>15, <1>16, <1>17, <1>18, <1>19, <1>20, <1>21, <1>22, <1>23
  DEF Next, Main, Stays

LEMMA ProgressStep == IInv /\ [Next]_vars => Progress'
<1> SUFFICES ASSUME IInv, [Next]_vars PROVE Progress'
    OBVIOUS
<1> USE SuiteAssumption DEF IInv, FlagsOK, DataOK, Progress, Steps, Writing, Signals,
    vars, suite, signals, result, process, At, Running, InTry, InFinalWrite, Die, Return,
    WriteReturns, Disposition
<1>1. CASE ArmWatchdog
    BY <1>1 DEF ArmWatchdog
<1>2. CASE Loop
    BY <1>2 DEF Loop
<1>3. CASE RunGraph
    BY <1>3 DEF RunGraph
<1>4. CASE ShowTable
    BY <1>4 DEF ShowTable
<1>5. CASE ShowTableFails
    BY <1>5 DEF ShowTableFails
<1>6. CASE Finish
    BY <1>6 DEF Finish
<1>7. CASE StartWrite
    BY <1>7 DEF StartWrite
<1>8. CASE Create
    BY <1>8 DEF Create
<1>9. CASE Fill
    BY <1>9 DEF Fill
<1>10. CASE Replace
    BY <1>10 DEF Replace
<1>11. CASE EndWrite
    BY <1>11 DEF EndWrite
<1>12. CASE WriteFails
    BY <1>12 DEF WriteFails
<1>13. CASE IgnoreInt
    BY <1>13 DEF IgnoreInt
<1>14. CASE IgnoreTerm
    BY <1>14 DEF IgnoreTerm
<1>15. CASE Disarm
    BY <1>15 DEF Disarm
<1>16. CASE Report
    BY <1>16 DEF Report
<1>17. CASE Hang
    BY <1>17 DEF Hang
<1>18. CASE ForceExit
    BY <1>18 DEF ForceExit
<1>19. ASSUME NEW sig \in Signals, Interrupt(sig) PROVE Progress'
    BY <1>19 DEF Interrupt
<1>20. ASSUME NEW sig \in Signals, InterruptAfterReplace(sig) PROVE Progress'
    BY <1>20 DEF InterruptAfterReplace
<1>21. ASSUME NEW sig \in Signals, Uncaught(sig) PROVE Progress'
    BY <1>21 DEF Uncaught
<1>22. ASSUME NEW sig \in Signals, Arrive(sig) PROVE Progress'
    BY <1>22 DEF Arrive
<1>23. CASE UNCHANGED vars
    BY <1>23
<1>. QED
  BY <1>1, <1>2, <1>3, <1>4, <1>5, <1>6, <1>7, <1>8, <1>9, <1>10, <1>11, <1>12,
     <1>13, <1>14, <1>15, <1>16, <1>17, <1>18, <1>19, <1>20, <1>21, <1>22, <1>23
  DEF Next, Main, Stays

LEMMA OnDiskStep == IInv /\ [Next]_vars => OnDisk'
<1> SUFFICES ASSUME IInv, [Next]_vars PROVE OnDisk'
    OBVIOUS
<1> USE SuiteAssumption DEF IInv, FlagsOK, DataOK, Progress, OnDisk, Steps, Writing,
    Signals, vars, suite, signals, result, process, At, Running, InTry, InFinalWrite, Die,
    Return, WriteReturns, Failed, Filling, Document, Disposition
<1>1. CASE ArmWatchdog
    BY <1>1 DEF ArmWatchdog
<1>2. CASE Loop
    BY <1>2 DEF Loop
<1>3. CASE RunGraph
    BY <1>3 DEF RunGraph
<1>4. CASE ShowTable
    BY <1>4 DEF ShowTable
<1>5. CASE ShowTableFails
    BY <1>5 DEF ShowTableFails
<1>6. CASE Finish
    BY <1>6 DEF Finish
<1>7. CASE StartWrite
    BY <1>7 DEF StartWrite
<1>8. CASE Create
    BY <1>8 DEF Create
<1>9. CASE Fill
    BY <1>9 DEF Fill
<1>10. CASE Replace
    BY <1>10 DEF Replace
<1>11. CASE EndWrite
    BY <1>11 DEF EndWrite
<1>12. CASE WriteFails
    BY <1>12 DEF WriteFails
<1>13. CASE IgnoreInt
    BY <1>13 DEF IgnoreInt
<1>14. CASE IgnoreTerm
    BY <1>14 DEF IgnoreTerm
<1>15. CASE Disarm
    BY <1>15 DEF Disarm
<1>16. CASE Report
    BY <1>16 DEF Report
<1>17. CASE Hang
    BY <1>17 DEF Hang
<1>18. CASE ForceExit
    BY <1>18 DEF ForceExit
<1>19. ASSUME NEW sig \in Signals, Interrupt(sig) PROVE OnDisk'
    BY <1>19 DEF Interrupt
<1>20. ASSUME NEW sig \in Signals, InterruptAfterReplace(sig) PROVE OnDisk'
    BY <1>20 DEF InterruptAfterReplace
<1>21. ASSUME NEW sig \in Signals, Uncaught(sig) PROVE OnDisk'
    BY <1>21 DEF Uncaught
<1>22. ASSUME NEW sig \in Signals, Arrive(sig) PROVE OnDisk'
    BY <1>22 DEF Arrive
<1>23. CASE UNCHANGED vars
    BY <1>23
<1>. QED
  BY <1>1, <1>2, <1>3, <1>4, <1>5, <1>6, <1>7, <1>8, <1>9, <1>10, <1>11, <1>12,
     <1>13, <1>14, <1>15, <1>16, <1>17, <1>18, <1>19, <1>20, <1>21, <1>22, <1>23
  DEF Next, Main, Stays

LEMMA ZeroStep == IInv /\ [Next]_vars => ZeroMeansAllGood'
<1> SUFFICES ASSUME IInv, [Next]_vars PROVE ZeroMeansAllGood'
    OBVIOUS
<1> USE SuiteAssumption DEF IInv, FlagsOK, DataOK, Progress, OnDisk, ZeroMeansAllGood,
    Writing, Signals, vars, suite, signals, result, process, At, Running, Die, Return, ExitCode,
    Document
<1>1. CASE ArmWatchdog
    BY <1>1 DEF ArmWatchdog
<1>2. CASE Loop
    BY <1>2 DEF Loop
<1>3. CASE RunGraph
    BY <1>3 DEF RunGraph
<1>4. CASE ShowTable
    BY <1>4 DEF ShowTable
<1>5. CASE ShowTableFails
    BY <1>5 DEF ShowTableFails
<1>6. CASE Finish
    BY <1>6 DEF Finish
<1>7. CASE StartWrite
    BY <1>7 DEF StartWrite
<1>8. CASE Create
    BY <1>8 DEF Create
<1>9. CASE Fill
    BY <1>9 DEF Fill
<1>10. CASE Replace
    BY <1>10 DEF Replace
<1>11. CASE EndWrite
    BY <1>11 DEF EndWrite
<1>12. CASE WriteFails
    BY <1>12 DEF WriteFails
<1>13. CASE IgnoreInt
    BY <1>13 DEF IgnoreInt
<1>14. CASE IgnoreTerm
    BY <1>14 DEF IgnoreTerm
<1>15. CASE Disarm
    BY <1>15 DEF Disarm
<1>16. CASE Report
    BY <1>16 DEF Report
<1>17. CASE Hang
    BY <1>17 DEF Hang
<1>18. CASE ForceExit
    BY <1>18 DEF ForceExit
<1>19. ASSUME NEW sig \in Signals, Interrupt(sig) PROVE ZeroMeansAllGood'
    BY <1>19 DEF Interrupt
<1>20. ASSUME NEW sig \in Signals, InterruptAfterReplace(sig) PROVE ZeroMeansAllGood'
    BY <1>20 DEF InterruptAfterReplace
<1>21. ASSUME NEW sig \in Signals, Uncaught(sig) PROVE ZeroMeansAllGood'
    BY <1>21 DEF Uncaught
<1>22. ASSUME NEW sig \in Signals, Arrive(sig) PROVE ZeroMeansAllGood'
    BY <1>22 DEF Arrive
<1>23. CASE UNCHANGED vars
    BY <1>23
<1>. QED
  BY <1>1, <1>2, <1>3, <1>4, <1>5, <1>6, <1>7, <1>8, <1>9, <1>10, <1>11, <1>12,
     <1>13, <1>14, <1>15, <1>16, <1>17, <1>18, <1>19, <1>20, <1>21, <1>22, <1>23
  DEF Next, Main, Stays

(* IInv is inductive.                                                      *)
THEOREM Inductive == Spec => []IInv
<1>1. IInv /\ [Next]_vars => IInv'
    BY FlagsStep, DataStep, ProgressStep, OnDiskStep, ZeroStep DEF IInv
<1>. QED  BY InitInv, <1>1, PTL DEF Spec

(* Every variable keeps its type.                                          *)
THEOREM TypeCorrect == Spec => []TypeOK
<1>1. IInv => TypeOK
    BY TypeParts DEF IInv
<1>. QED  BY Inductive, <1>1, PTL

(* Exit code 0: the suite is whole, unfailed, and saved if asked for.      *)
THEOREM ZeroIsTrue == Spec => []ZeroMeansAllGood
<1>1. IInv => ZeroMeansAllGood
    BY DEF IInv
<1>. QED  BY Inductive, <1>1, PTL

(* A step that ends in death is an End of the abstract file ...             *)
LEMMA DeathRefines ==
  ASSUME ended = "no", Die, UNCHANGED <<graphs, file>>
  PROVE  Results!Next
BY DEF Die, Results!Next, Results!End

(* ... and so is a return: what the process claims is true of the file.    *)
LEMMA ReportRefines == IInv /\ Report => Results!Next
<1> SUFFICES ASSUME IInv, Report PROVE Results!Next
    OBVIOUS
<1>1. UNCHANGED <<graphs, file>> /\ pc = "report" /\ ended = "no"
    BY DEF Report, At, Running, result, suite
<1>2. CASE left = "crash" /\ Die
    BY <1>1, <1>2, DeathRefines
<1>3. ASSUME NEW code \in {0, 1, 3, 130, 143}, Return(code),
             left = "done" <=> code \notin {130, 143},
             code = 0 => write_ok = "yes"
      PROVE  Results!Next
  <2>1. Saved => Output /\ file = Document
    BY <1>1 DEF Saved, IInv, OnDisk
  <2>2. complete <=> code \notin {130, 143}
    BY <1>3 DEF IInv, Progress
  <2>3. Saved => file = [by |-> "suite", n |-> graphs, complete |-> ~(code \in {130, 143})]
    <3>1. complete = ~(code \in {130, 143})
      BY Zenon, <2>2 DEF IInv, FlagsOK
    <3>. QED
      BY <2>1, <3>1 DEF Document
  <2>4. ~(code \in {130, 143}) => graphs = Total
    BY <2>2 DEF IInv, Progress
  <2>5. code = 0 => (Saved <=> Output)
    BY <1>3 DEF Saved
  <2>6. Results!Return(code, Saved)
    BY <1>3, <2>1, <2>3, <2>4, <2>5 DEF Return, Results!Return
  <2>. QED
    BY <1>1, <1>3, <2>6, ClaimIsBoolean DEF Results!Next, Results!End
<1>4. ExitCode \in {0, 1, 3} /\ (ExitCode = 0 => write_ok = "yes")
    BY DEF ExitCode
<1>5. CASE left = "int" /\ Return(130)
    BY <1>3, <1>5
<1>6. CASE left = "term" /\ Return(143)
    BY <1>3, <1>6
<1>7. CASE left = "done" /\ Return(ExitCode)
    BY <1>3, <1>4, <1>7
<1>. QED
    BY <1>2, <1>5, <1>6, <1>7 DEF Report

LEMMA StepRefines == IInv /\ [Next]_vars => [Results!Next]_(Results!vars)
<1> SUFFICES ASSUME IInv, [Next]_vars PROVE [Results!Next]_(Results!vars)
    OBVIOUS
<1> USE DEF Results!vars, vars, suite, signals, result, process, At, Running
<1>1. CASE ArmWatchdog
    BY <1>1 DEF ArmWatchdog
<1>2. CASE Loop
    BY <1>2 DEF Loop
<1>3. CASE RunGraph
    BY <1>3, SuiteAssumption DEF RunGraph, IInv, DataOK, Progress, Results!Next, Results!Record
<1>4. CASE ShowTable
    BY <1>4 DEF ShowTable
<1>5. CASE ShowTableFails
    BY <1>5 DEF ShowTableFails
<1>6. CASE Finish
    BY <1>6 DEF Finish
<1>7. CASE StartWrite
    BY <1>7 DEF StartWrite, WriteReturns
<1>8. CASE Create
    BY <1>8 DEF Create
<1>9. CASE Fill
    BY <1>9 DEF Fill, Filling
<1>10. CASE Replace
  <2>1. Output /\ (complete => graphs = Total) /\ complete \in BOOLEAN
    BY <1>10 DEF Replace, IInv, FlagsOK, Progress, OnDisk, Writing
  <2>. QED
    BY <1>10, <2>1 DEF Replace, Document, Results!Next, Results!Publish
<1>11. CASE EndWrite
    BY <1>11 DEF EndWrite, WriteReturns
<1>12. CASE WriteFails
    BY <1>12 DEF WriteFails, WriteReturns
<1>13. CASE IgnoreInt
    BY <1>13 DEF IgnoreInt
<1>14. CASE IgnoreTerm
    BY <1>14 DEF IgnoreTerm
<1>15. CASE Disarm
    BY <1>15 DEF Disarm
<1>16. CASE Report
    BY <1>16, ReportRefines
<1>17. CASE Hang
    BY <1>17 DEF Hang
<1>18. CASE ForceExit
    BY <1>18, DeathRefines DEF ForceExit
<1>19. ASSUME NEW sig \in Signals, Interrupt(sig) PROVE [Results!Next]_(Results!vars)
    BY <1>19 DEF Interrupt
<1>20. ASSUME NEW sig \in Signals, InterruptAfterReplace(sig) PROVE [Results!Next]_(Results!vars)
    BY <1>20 DEF InterruptAfterReplace, WriteReturns
<1>21. ASSUME NEW sig \in Signals, Uncaught(sig) PROVE [Results!Next]_(Results!vars)
    BY <1>21, DeathRefines DEF Uncaught
<1>22. ASSUME NEW sig \in Signals, Arrive(sig) PROVE [Results!Next]_(Results!vars)
    BY <1>22, DeathRefines DEF Arrive
<1>23. CASE UNCHANGED vars
    BY <1>23
<1>. HIDE DEF Results!vars, vars
<1>. QED
  BY <1>1, <1>2, <1>3, <1>4, <1>5, <1>6, <1>7, <1>8, <1>9, <1>10, <1>11, <1>12,
     <1>13, <1>14, <1>15, <1>16, <1>17, <1>18, <1>19, <1>20, <1>21, <1>22, <1>23
  DEF Next, Main, Stays

(* The run implements ResultFile: the output path always holds a whole     *)
(* document, and a process that returns tells the truth about it.          *)
THEOREM KeepsFile == Spec => FileKept
<1>1. Init => Results!Init
    BY DEF Init, Results!Init
<1>. QED
    BY <1>1, Inductive, StepRefines, PTL DEF Spec, FileKept, Results!Spec

-----------------------------------------------------------------------------
(* The run ends.                                                           *)

(* How far the run is from its end: is it in the loop, the graphs to go,   *)
(* the steps after them.                                                   *)
StepsToGo ==
  [arm |-> 9, ignore_int |-> 9, ignore_term |-> 8, print |-> 8, write |-> 7, create |-> 6,
   fill |-> 5, replace |-> 4, replaced |-> 3, loop |-> 2, disarm |-> 2, graph |-> 1,
   finish |-> 1, report |-> 1, over |-> 0]
InLoop == left = "no"
Rank == <<IF InLoop THEN 1 ELSE 0, IF InLoop THEN Total - graphs ELSE 0, StepsToGo[pc], 0>>

(* Every step of the main thread brings the end of the run nearer, and so  *)
(* does a signal or the watchdog where it changes anything: no graph runs  *)
(* twice, no failed write is tried again, and no interrupt, also one that  *)
(* was swallowed, sends the run back.  (_run_suite(), SuiteResult.write()) *)
SuiteDescends == [][Main \/ Rank' # Rank => Below(Rank', Rank)]_vars

Loops == IF InLoop THEN 1 ELSE 0
GraphsToGo == IF InLoop THEN Total - graphs ELSE 0

LEMMA RankIsNat ==
  ASSUME IInv
  PROVE  Loops \in Nat /\ GraphsToGo \in Nat /\ StepsToGo[pc] \in Nat /\ Rank \in Ranks
<1>1. StepsToGo[pc] \in Nat
    BY DEF IInv, DataOK, Steps, Writing, StepsToGo
<1>2. Loops \in Nat /\ GraphsToGo \in Nat
    BY SuiteAssumption DEF IInv, DataOK, Loops, GraphsToGo
<1> QED BY <1>1, <1>2 DEF Rank, Ranks, Loops, GraphsToGo

(* The three ways to fall: the loop is left, a graph is done, a step.      *)
LEMMA RankFalls ==
  ASSUME IInv, IInv',
         \/ Loops' < Loops
         \/ Loops' = Loops /\ GraphsToGo' < GraphsToGo
         \/ Loops' = Loops /\ GraphsToGo' = GraphsToGo /\ StepsToGo[pc'] < StepsToGo[pc]
  PROVE  Below(Rank', Rank)
<1> DEFINE s == StepsToGo[pc]
           t == StepsToGo[pc']
<1>1. Rank = <<Loops, GraphsToGo, s, 0>> /\ Rank' = <<Loops', GraphsToGo', t, 0>>
    BY DEF Rank, Loops, GraphsToGo
<1>2. Rank' \in Ranks
    <2>1. (IInv => Rank \in Ranks)'
        BY RankIsNat, PTL
    <2> QED BY <2>1
<1> HIDE DEF s, t
<1>3. /\ 1..0 = {} /\ 1..1 = {1} /\ 1..2 = {1, 2} /\ 1..4 = {1, 2, 3, 4}
    OBVIOUS
<1>4. \E k \in 1..4 : Rank'[k] < Rank[k] /\ \A j \in 1..(k - 1) : Rank'[j] = Rank[j]
    <2>1. CASE Loops' < Loops
        BY <1>1, <1>3, <2>1
    <2>2. CASE Loops' = Loops /\ GraphsToGo' < GraphsToGo
        BY <1>1, <1>3, <2>2
    <2>3. CASE Loops' = Loops /\ GraphsToGo' = GraphsToGo /\ t < s
        BY <1>1, <1>3, <2>3
    <2> QED BY <2>1, <2>2, <2>3 DEF s, t
<1> QED BY <1>2, <1>4 DEF Below

LEMMA StepFalls ==
  ASSUME IInv, IInv', UNCHANGED <<left, graphs>>, StepsToGo[pc'] < StepsToGo[pc]
  PROVE  Below(Rank', Rank)
<1>1. Loops' = Loops /\ GraphsToGo' = GraphsToGo
    BY DEF Loops, GraphsToGo, InLoop
<1> QED BY <1>1, RankFalls

LEMMA LoopFalls ==
  ASSUME IInv, IInv', left = "no", left' # "no" PROVE Below(Rank', Rank)
<1>1. Loops' < Loops
    BY DEF Loops, InLoop
<1> QED BY <1>1, RankFalls

(* Every step of _run_suite() brings its end nearer, and a signal or the   *)
(* watchdog does where it changes anything: no graph runs twice, no failed *)
(* write is tried again, no interrupt sends the run back (_run_suite()).   *)
THEOREM SuiteComesNearer == Spec => SuiteDescends
<1> DEFINE A == Main \/ Rank' # Rank => Below(Rank', Rank)
<1>1. IInv /\ IInv' /\ [Next]_vars => [A]_vars
    <2> SUFFICES ASSUME IInv, IInv', [Next]_vars PROVE A
        OBVIOUS
    <2> USE DEF At, Running, signals, result, suite, process
    <2>1. CASE ArmWatchdog \/ Loop \/ ShowTable
        BY <2>1, StepFalls DEF ArmWatchdog, Loop, ShowTable, StepsToGo
    <2>2. CASE RunGraph
        <3>1. left = "no" /\ left' = left /\ graphs' = graphs + 1
            BY <2>2 DEF RunGraph, IInv, Progress
        <3>2. Loops' = Loops /\ GraphsToGo' < GraphsToGo
            BY <3>1, SuiteAssumption DEF Loops, GraphsToGo, InLoop, IInv, DataOK
        <3> QED BY <3>2, RankFalls
    <2>3. CASE ShowTableFails \/ Finish
        BY <2>3, LoopFalls DEF ShowTableFails, Finish, IInv, Progress
    <2>4. CASE StartWrite \/ Create \/ Fill \/ Replace \/ EndWrite \/ WriteFails
        BY <2>4, StepFalls
           DEF StartWrite, Create, Fill, Replace, EndWrite, WriteFails, WriteReturns,
               StepsToGo
    <2>5. CASE IgnoreInt \/ IgnoreTerm \/ Disarm \/ Report
        BY <2>5, StepFalls
           DEF IgnoreInt, IgnoreTerm, Disarm, Report, Die, Return, StepsToGo
    <2>6. ASSUME NEW sig \in Signals, Interrupt(sig) PROVE Below(Rank', Rank)
        <3>1. left = "no" /\ left' = sig
            BY <2>6 DEF Interrupt, InTry, InFinalWrite, IInv, Progress, Writing
        <3> QED BY <3>1, LoopFalls DEF Signals
    <2>7. ASSUME NEW sig \in Signals, InterruptAfterReplace(sig) \/ Uncaught(sig)
          PROVE  Below(Rank', Rank)
        BY <2>7, StepFalls
           DEF InterruptAfterReplace, Uncaught, Die, WriteReturns, StepsToGo
    <2>8. CASE ForceExit
        <3>1. pc # "over" /\ pc' = "over"
            BY <2>8 DEF ForceExit, Die, IInv, Progress
        <3>2. StepsToGo[pc'] < StepsToGo[pc]
            BY <3>1 DEF StepsToGo, IInv, DataOK, Steps, Writing
        <3> QED BY <2>8, <3>2, StepFalls DEF ForceExit
    <2>9. ASSUME NEW sig \in Signals, Arrive(sig) PROVE Rank' = Rank \/ Below(Rank', Rank)
        <3>1. CASE Die
            <4>1. pc # "over" /\ pc' = "over"
                BY <2>9, <3>1 DEF Arrive, Die, IInv, Progress
            <4>2. StepsToGo[pc'] < StepsToGo[pc]
                BY <4>1 DEF StepsToGo, IInv, DataOK, Steps, Writing
            <4> QED BY <2>9, <4>2, StepFalls DEF Arrive
        <3>2. CASE ~Die
            BY <2>9, <3>2 DEF Arrive, Rank, InLoop
        <3> QED BY <3>1, <3>2
    <2>10. ASSUME Hang \/ Stays \/ UNCHANGED vars PROVE Rank' = Rank
        <3>1. UNCHANGED <<pc, left, graphs>>
            BY <2>10 DEF Hang, Stays, vars
        <3> QED BY <3>1 DEF Rank, InLoop
    <2>11. Main => Below(Rank', Rank)
        BY <2>1, <2>2, <2>3, <2>4, <2>5, <2>6, <2>7 DEF Main
    <2> QED BY <2>8, <2>9, <2>10, <2>11 DEF Next
<1> QED BY <1>1, Inductive, PTL DEF Spec, SuiteDescends
=============================================================================
