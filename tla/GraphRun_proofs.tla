--------------------------- MODULE GraphRun_proofs ---------------------------
(***************************************************************************)
(* Proofs about GraphRun for every set of graphs, engines, engine lists    *)
(* and configurations: OOTB timings are untuned, also in reruns, repeated  *)
(* graphs and later processes, and the cache switch is always restored;    *)
(* every row is whole; children that use the GPU find it free; and with    *)
(* --validate no engine row gets through unjudged.                         *)
(***************************************************************************)
EXTENDS GraphRun, Descent, WellFoundedInduction, TLAPS

(* A row, filled or not, that no tuned winner served.                      *)
Untuned == [runtime : Runtimes \cup {"none"}, engine : Engines \cup {0},
            role : {"engine", "reference", "none"},
            status : {"success", "error", "skipped", "none"},
            stalled : BOOLEAN, mode : {"none", "staged", "events"}, served : {FALSE},
            verdict : {"none", "match", "mismatch", "unchecked"},
            oracle : {"none", "ok", "error"}]

RowsUntuned == row \in Untuned /\ rows \in Seq(Untuned)

ConfigOK == config \in SuiteConfigs /\ asked \in BOOLEAN

(* The jobs and the engine of a row in progress.                           *)
JobSet == [runtime : Runtimes, engine : Engines \cup {0}]

JobsOK == jobs \in Seq(JobSet)

(* The search leaves a winner only for a registered pair, and never one on *)
(* disk; the launch runs with the caches off.                              *)
Registered ==
  /\ disk = {} /\ winners \subseteq registry
  /\ pc = "launch_tuned" => cache_off
  /\ (pc = "launch_tuned" /\ tuned = "tunable") => Pair \in registry

IInv == ConfigOK /\ JobsOK /\ RowsUntuned /\ Registered /\ CachesRestored

LEMMA InitInv == Init => IInv
<1> SUFFICES ASSUME Init PROVE IInv
    OBVIOUS
<1>1. ConfigOK
    BY GraphRunAssumption DEF Init, ConfigOK, SuiteConfigs
<1>2. JobsOK /\ rows \in Seq(Untuned)
    BY DEF Init, JobsOK
<1>3. row \in Untuned
    BY DEF Init, Untuned, Blank
<1>4. Registered /\ CachesRestored
    BY DEF Init, Registered, CachesRestored
<1>. QED
    BY <1>1, <1>2, <1>3, <1>4 DEF IInv, RowsUntuned

LEMMA ConfigStep == ConfigOK /\ [Next]_vars => ConfigOK'
<1> SUFFICES ASSUME ConfigOK, [Next]_vars PROVE ConfigOK'
    OBVIOUS
<1> USE GraphRunAssumption DEF ConfigOK, SuiteConfigs, job, Goto, Append1, FailedRow,
        StartAttempt, Unstalled
<1>1. CASE Plan
    BY <1>1 DEF Plan
<1>2. CASE GenerateInputs
    BY <1>2 DEF GenerateInputs
<1>3. CASE InputsFail
    BY <1>3 DEF InputsFail
<1>4. CASE StartRow
    BY <1>4 DEF StartRow
<1>5. CASE RowsDone
    BY <1>5 DEF RowsDone
<1>6. CASE BuildFails
    BY <1>6 DEF BuildFails
<1>7. CASE Build
    BY <1>7 DEF Build
<1>8. CASE BuildTuned
    BY <1>8 DEF BuildTuned
<1>9. CASE Allocate
    BY <1>9 DEF Allocate
<1>10. CASE StepFails
    BY <1>10 DEF StepFails
<1>11. CASE Measure
    BY <1>11 DEF Measure
<1>12. CASE Fallback
    BY <1>12 DEF Fallback
<1>13. CASE Validate
    BY <1>13 DEF Validate
<1>14. CASE MarkTuned
    BY <1>14 DEF MarkTuned
<1>15. CASE LaunchTuned
    BY <1>15 DEF LaunchTuned
<1>16. CASE Release
    BY <1>16 DEF Release
<1>17. CASE Profile
    BY <1>17 DEF Profile
<1>18. CASE FinishRow
    BY <1>18 DEF FinishRow
<1>19. CASE MeasurePytorch
    BY <1>19 DEF MeasurePytorch
<1>20. CASE PytorchFails
    BY <1>20 DEF PytorchFails
<1>21. CASE Extract
    BY <1>21 DEF Extract
<1>22. CASE PytorchDone
    BY <1>22 DEF PytorchDone
<1>23. CASE PytorchChild
    BY <1>23 DEF PytorchChild
<1>24. CASE PytorchUnsupported
    BY <1>24 DEF PytorchUnsupported
<1>25. CASE NoProvider
    BY <1>25 DEF NoProvider
<1>26. CASE ReferenceRow
    BY <1>26 DEF ReferenceRow
<1>27. CASE ChooseReference
    BY <1>27 DEF ChooseReference
<1>28. CASE Float64
    BY <1>28 DEF Float64
<1>29. CASE Float64CopyRaises
    BY <1>29 DEF Float64CopyRaises
<1>30. CASE HostReference
    BY <1>30 DEF HostReference
<1>31. CASE Start
    BY <1>31 DEF Start
<1>32. CASE Killed
    BY <1>32 DEF Killed
<1>33. CASE Rerun
    BY <1>33 DEF Rerun
<1>34. CASE UNCHANGED vars
    BY <1>34 DEF vars
<1>. QED
  BY <1>1, <1>2, <1>3, <1>4, <1>5, <1>6, <1>7, <1>8, <1>9, <1>10, <1>11, <1>12,
     <1>13, <1>14, <1>15, <1>16, <1>17, <1>18, <1>19, <1>20, <1>21, <1>22, <1>23, <1>24,
     <1>25, <1>26, <1>27, <1>28, <1>29, <1>30, <1>31, <1>32, <1>33, <1>34
  DEF Next, Run

LEMMA JobFields ==
  ASSUME JobsOK, NEW k \in 1..Len(jobs)
  PROVE  jobs[k].runtime \in Runtimes /\ jobs[k].engine \in Engines \cup {0}
<1>1. jobs[k] \in JobSet
    BY DEF JobsOK
<1>. QED
    BY <1>1 DEF JobSet

LEMMA HipJobs ==
  ASSUME NEW list \in Seq(Engines)
  PROVE  [k \in 1..Len(list) |-> Job("hipdnn", list[k])] \in Seq(JobSet)
BY DEF Job, JobSet, Runtimes

LEMMA OtherJobs ==
  ASSUME NEW runtime \in Runtimes
  PROVE  <<Job(runtime, 0)>> \in Seq(JobSet)
BY DEF Job, JobSet

LEMMA JobsStep == JobsOK /\ ConfigOK /\ [Next]_vars => JobsOK'
<1> SUFFICES ASSUME JobsOK /\ ConfigOK, [Next]_vars PROVE JobsOK'
    OBVIOUS
<1> USE GraphRunAssumption DEF JobsOK, job, Goto, Append1, FailedRow, StartAttempt
<1>1. CASE Plan
  <2>1. ASSUME NEW new \in Seq(JobSet), NEW needs, Promise(new, needs)
        PROVE  JobsOK'
    BY <2>1 DEF Promise
  <2>2. ASSUME NEW list \in EngineLists,
               Promise([k \in 1..Len(list) |-> Job("hipdnn", list[k])], TRUE)
        PROVE  JobsOK'
    BY <2>1, <2>2, HipJobs
  <2>3. ASSUME NEW runtime \in Runtimes, NEW needs, Promise(<<Job(runtime, 0)>>, needs)
        PROVE  JobsOK'
    BY <2>1, <2>3, OtherJobs
  <2>4. ASSUME Promise(<<>>, FALSE) PROVE JobsOK'
    <3>1. <<>> \in Seq(JobSet)
      OBVIOUS
    <3>. QED
      BY <2>1, <2>4, <3>1
  <2>5. {"pytorch", "pytorch_unsupported", "rocke"} \subseteq Runtimes
    BY DEF Runtimes
  <2>6. ASSUME SelectionFails PROVE JobsOK'
    BY <2>6 DEF SelectionFails
  <2>. QED
    BY <1>1, <2>2, <2>3, <2>4, <2>5, <2>6 DEF Plan
<1>2. CASE GenerateInputs
    BY <1>2 DEF GenerateInputs
<1>3. CASE InputsFail
    BY <1>3 DEF InputsFail
<1>4. CASE StartRow
    BY <1>4 DEF StartRow
<1>5. CASE RowsDone
    BY <1>5 DEF RowsDone
<1>6. CASE BuildFails
    BY <1>6 DEF BuildFails
<1>7. CASE Build
    BY <1>7 DEF Build
<1>8. CASE BuildTuned
    BY <1>8 DEF BuildTuned
<1>9. CASE Allocate
    BY <1>9 DEF Allocate
<1>10. CASE StepFails
    BY <1>10 DEF StepFails
<1>11. CASE Measure
    BY <1>11 DEF Measure
<1>12. CASE Fallback
    BY <1>12 DEF Fallback
<1>13. CASE Validate
    BY <1>13 DEF Validate
<1>14. CASE MarkTuned
    BY <1>14 DEF MarkTuned
<1>15. CASE LaunchTuned
    BY <1>15 DEF LaunchTuned
<1>16. CASE Release
    BY <1>16 DEF Release
<1>17. CASE Profile
    BY <1>17 DEF Profile
<1>18. CASE FinishRow
    BY <1>18 DEF FinishRow
<1>19. CASE MeasurePytorch
    BY <1>19 DEF MeasurePytorch
<1>20. CASE PytorchFails
    BY <1>20 DEF PytorchFails
<1>21. CASE Extract
    BY <1>21 DEF Extract
<1>22. CASE PytorchDone
    BY <1>22 DEF PytorchDone
<1>23. CASE PytorchChild
    BY <1>23 DEF PytorchChild
<1>24. CASE PytorchUnsupported
    BY <1>24 DEF PytorchUnsupported
<1>25. CASE NoProvider
    BY <1>25 DEF NoProvider
<1>26. CASE ReferenceRow
    BY <1>26 DEF ReferenceRow
<1>27. CASE ChooseReference
    BY <1>27 DEF ChooseReference
<1>28. CASE Float64
    BY <1>28 DEF Float64
<1>29. CASE Float64CopyRaises
    BY <1>29 DEF Float64CopyRaises
<1>30. CASE HostReference
    BY <1>30 DEF HostReference
<1>31. CASE Start
    BY <1>31 DEF Start
<1>32. CASE Killed
    BY <1>32 DEF Killed
<1>33. CASE Rerun
    BY <1>33 DEF Rerun
<1>34. CASE UNCHANGED vars
    BY <1>34 DEF vars
<1>. QED
  BY <1>1, <1>2, <1>3, <1>4, <1>5, <1>6, <1>7, <1>8, <1>9, <1>10, <1>11, <1>12,
     <1>13, <1>14, <1>15, <1>16, <1>17, <1>18, <1>19, <1>20, <1>21, <1>22, <1>23, <1>24,
     <1>25, <1>26, <1>27, <1>28, <1>29, <1>30, <1>31, <1>32, <1>33, <1>34
  DEF Next, Run

LEMMA RegisteredStep == JobsOK /\ Registered /\ [Next]_vars => Registered'
<1> SUFFICES ASSUME JobsOK /\ Registered, [Next]_vars PROVE Registered'
    OBVIOUS
<1> USE DEF Registered, Goto, job, oracle, device, Append1, FailedRow, StartAttempt, Pair,
        PlansDone, Hip,
    Marked, TunedEnv, Restored, Found
<1>1. CASE Plan
    BY <1>1 DEF Plan
<1>2. CASE GenerateInputs
    BY <1>2 DEF GenerateInputs
<1>3. CASE InputsFail
    BY <1>3 DEF InputsFail
<1>4. CASE StartRow
  <2>. PICK k \in 1..Len(jobs) : pc' = jobs[k].runtime
    BY <1>4 DEF StartRow
  <2>1. jobs[k].runtime \in Runtimes
    BY JobFields
  <2>. QED
    BY <1>4, <2>1 DEF StartRow, Runtimes
<1>5. CASE RowsDone
    BY <1>5 DEF RowsDone
<1>6. CASE BuildFails
    BY <1>6 DEF BuildFails
<1>7. CASE Build
    BY <1>7 DEF Build
<1>8. CASE BuildTuned
    BY <1>8 DEF BuildTuned
<1>9. CASE Allocate
    BY <1>9 DEF Allocate
<1>10. CASE StepFails
    BY <1>10 DEF StepFails
<1>11. CASE Measure
    BY <1>11 DEF Measure
<1>12. CASE Fallback
    BY <1>12 DEF Fallback
<1>13. CASE Validate
    BY <1>13 DEF Validate
<1>14. CASE MarkTuned
    BY <1>14 DEF MarkTuned
<1>15. CASE LaunchTuned
    BY <1>15 DEF LaunchTuned
<1>16. CASE Release
    BY <1>16 DEF Release
<1>17. CASE Profile
    BY <1>17 DEF Profile
<1>18. CASE FinishRow
    BY <1>18 DEF FinishRow
<1>19. CASE MeasurePytorch
    BY <1>19 DEF MeasurePytorch
<1>20. CASE PytorchFails
    BY <1>20 DEF PytorchFails
<1>21. CASE Extract
    BY <1>21 DEF Extract
<1>22. CASE PytorchDone
    BY <1>22 DEF PytorchDone
<1>23. CASE PytorchChild
    BY <1>23 DEF PytorchChild
<1>24. CASE PytorchUnsupported
    BY <1>24 DEF PytorchUnsupported
<1>25. CASE NoProvider
    BY <1>25 DEF NoProvider
<1>26. CASE ReferenceRow
    BY <1>26 DEF ReferenceRow
<1>27. CASE ChooseReference
    BY <1>27 DEF ChooseReference
<1>28. CASE Float64
    BY <1>28 DEF Float64
<1>29. CASE Float64CopyRaises
    BY <1>29 DEF Float64CopyRaises
<1>30. CASE HostReference
    BY <1>30 DEF HostReference
<1>31. CASE Start
    BY <1>31 DEF Start
<1>32. CASE Killed
    BY <1>32 DEF Killed
<1>33. CASE Rerun
    BY <1>33 DEF Rerun
<1>34. CASE UNCHANGED vars
    BY <1>34 DEF vars
<1>. QED
  BY <1>1, <1>2, <1>3, <1>4, <1>5, <1>6, <1>7, <1>8, <1>9, <1>10, <1>11, <1>12,
     <1>13, <1>14, <1>15, <1>16, <1>17, <1>18, <1>19, <1>20, <1>21, <1>22, <1>23, <1>24,
     <1>25, <1>26, <1>27, <1>28, <1>29, <1>30, <1>31, <1>32, <1>33, <1>34
  DEF Next, Run

LEMMA CachesStep == JobsOK /\ CachesRestored /\ [Next]_vars => CachesRestored'
<1> SUFFICES ASSUME JobsOK /\ CachesRestored, [Next]_vars PROVE CachesRestored'
    OBVIOUS
<1> USE DEF CachesRestored, Goto, job, oracle, device, Append1, FailedRow, StartAttempt,
        PlansDone, Hip,
    Restored
<1>1. CASE Plan
    BY <1>1 DEF Plan
<1>2. CASE GenerateInputs
    BY <1>2 DEF GenerateInputs
<1>3. CASE InputsFail
    BY <1>3 DEF InputsFail
<1>4. CASE StartRow
  <2>. PICK k \in 1..Len(jobs) : pc' = jobs[k].runtime
    BY <1>4 DEF StartRow
  <2>1. jobs[k].runtime \in Runtimes
    BY JobFields
  <2>. QED
    BY <1>4, <2>1 DEF StartRow, Runtimes
<1>5. CASE RowsDone
    BY <1>5 DEF RowsDone
<1>6. CASE BuildFails
    BY <1>6 DEF BuildFails
<1>7. CASE Build
    BY <1>7 DEF Build
<1>8. CASE BuildTuned
    BY <1>8 DEF BuildTuned
<1>9. CASE Allocate
    BY <1>9 DEF Allocate
<1>10. CASE StepFails
    BY <1>10 DEF StepFails
<1>11. CASE Measure
    BY <1>11 DEF Measure
<1>12. CASE Fallback
    BY <1>12 DEF Fallback
<1>13. CASE Validate
    BY <1>13 DEF Validate
<1>14. CASE MarkTuned
    BY <1>14 DEF MarkTuned
<1>15. CASE LaunchTuned
    BY <1>15 DEF LaunchTuned
<1>16. CASE Release
    BY <1>16 DEF Release
<1>17. CASE Profile
    BY <1>17 DEF Profile
<1>18. CASE FinishRow
    BY <1>18 DEF FinishRow
<1>19. CASE MeasurePytorch
    BY <1>19 DEF MeasurePytorch
<1>20. CASE PytorchFails
    BY <1>20 DEF PytorchFails
<1>21. CASE Extract
    BY <1>21 DEF Extract
<1>22. CASE PytorchDone
    BY <1>22 DEF PytorchDone
<1>23. CASE PytorchChild
    BY <1>23 DEF PytorchChild
<1>24. CASE PytorchUnsupported
    BY <1>24 DEF PytorchUnsupported
<1>25. CASE NoProvider
    BY <1>25 DEF NoProvider
<1>26. CASE ReferenceRow
    BY <1>26 DEF ReferenceRow
<1>27. CASE ChooseReference
    BY <1>27 DEF ChooseReference
<1>28. CASE Float64
    BY <1>28 DEF Float64
<1>29. CASE Float64CopyRaises
    BY <1>29 DEF Float64CopyRaises
<1>30. CASE HostReference
    BY <1>30 DEF HostReference
<1>31. CASE Start
    BY <1>31 DEF Start
<1>32. CASE Killed
    BY <1>32 DEF Killed
<1>33. CASE Rerun
    BY <1>33 DEF Rerun
<1>34. CASE UNCHANGED vars
    BY <1>34 DEF vars
<1>. QED
  BY <1>1, <1>2, <1>3, <1>4, <1>5, <1>6, <1>7, <1>8, <1>9, <1>10, <1>11, <1>12,
     <1>13, <1>14, <1>15, <1>16, <1>17, <1>18, <1>19, <1>20, <1>21, <1>22, <1>23, <1>24,
     <1>25, <1>26, <1>27, <1>28, <1>29, <1>30, <1>31, <1>32, <1>33, <1>34
  DEF Next, Run

(* Filling a field of an untuned row keeps it untuned.                     *)
LEMMA FillRow ==
  ASSUME NEW r \in Untuned
  PROVE  /\ \A m \in {"none", "staged", "events"} : [r EXCEPT !.mode = m] \in Untuned
         /\ \A x \in {"none", "ok", "error"} : [r EXCEPT !.oracle = x] \in Untuned
         /\ \A v \in {"none", "match", "mismatch", "unchecked"} :
              [r EXCEPT !.verdict = v] \in Untuned
         /\ [r EXCEPT !.served = FALSE] \in Untuned
BY DEF Untuned

LEMMA BlankUntuned == Blank \in Untuned
BY DEF Untuned, Blank

LEMMA NewRowUntuned ==
  ASSUME ConfigOK, NEW runtime \in Runtimes \cup {"none"}, NEW engine \in Engines \cup {0},
         NEW role \in {"engine", "reference", "none"},
         NEW status \in {"success", "error", "skipped", "none"}
  PROVE  /\ NewRow(runtime, engine, role) \in Untuned
         /\ [NewRow(runtime, engine, role) EXCEPT !.status = status] \in Untuned
BY DEF ConfigOK, SuiteConfigs, NewRow, Untuned

LEMMA AppendUntuned ==
  ASSUME RowsUntuned, NEW r \in Untuned, Append1(r)
  PROVE  RowsUntuned'
BY BlankUntuned DEF RowsUntuned, Append1

LEMMA FailedRowUntuned ==
  ASSUME RowsUntuned, ConfigOK, NEW status \in {"error", "skipped"}, FailedRow(status)
  PROVE  RowsUntuned'
<1>1. /\ row.runtime \in Runtimes \cup {"none"} /\ row.engine \in Engines \cup {0}
      /\ row.role \in {"engine", "reference", "none"}
    BY DEF RowsUntuned, Untuned
<1>2. [NewRow(row.runtime, row.engine, row.role) EXCEPT !.status = status] \in Untuned
    BY <1>1, NewRowUntuned
<1>. QED
    BY <1>2, AppendUntuned DEF FailedRow

LEMMA AttemptUntuned == ASSUME StartAttempt PROVE RowsUntuned'
BY BlankUntuned DEF StartAttempt, FreshRows, RowsUntuned

LEMMA RowsStep == IInv /\ [Next]_vars => RowsUntuned'
<1> SUFFICES ASSUME IInv, [Next]_vars PROVE RowsUntuned'
    OBVIOUS
<1>. RowsUntuned /\ ConfigOK /\ JobsOK
    BY DEF IInv
<1> USE DEF job, oracle, device
<1>1. CASE Plan
    BY <1>1 DEF Plan, RowsUntuned
<1>2. CASE GenerateInputs
    BY <1>2 DEF GenerateInputs, RowsUntuned
<1>3. CASE InputsFail
    BY <1>3 DEF InputsFail, RowsUntuned
<1>4. CASE StartRow
  <2>. PICK k \in 1..Len(jobs) : row' = NewRow(jobs[k].runtime, jobs[k].engine, "engine")
    BY <1>4 DEF StartRow
  <2>1. row' \in Untuned
    BY JobFields, NewRowUntuned DEF IInv
  <2>. QED
    BY <1>4, <2>1 DEF StartRow, RowsUntuned
<1>5. CASE RowsDone
    BY <1>5 DEF RowsDone, RowsUntuned
<1>6. CASE BuildFails
    BY <1>6, FailedRowUntuned DEF BuildFails, IInv
<1>7. CASE Build
  <2>1. Pair \notin winners \cup (IF cache_off THEN {} ELSE disk)
    BY <1>7 DEF Build, Refused, IInv, Registered
  <2>2. (Pair \in winners \cup (IF cache_off THEN {} ELSE disk)) = FALSE
    BY <2>1
  <2>3. row' = [row EXCEPT !.served = FALSE]
    BY <1>7, <2>2 DEF Build
  <2>. QED
    BY <1>7, <2>3, FillRow DEF Build, RowsUntuned
<1>8. CASE BuildTuned
    BY <1>8, FillRow DEF BuildTuned, RowsUntuned
<1>9. CASE Allocate
    BY <1>9 DEF Allocate, RowsUntuned
<1>10. CASE StepFails
    BY <1>10, FailedRowUntuned DEF StepFails, IInv
<1>11. CASE Measure
    BY <1>11, FillRow DEF Measure, ModesOf, Mode, RowsUntuned
<1>12. CASE Fallback
    BY <1>12 DEF Fallback, RowsUntuned
<1>13. CASE Validate
  <2>1. Verdicts \subseteq {"none", "match", "mismatch", "unchecked"}
    BY DEF Verdicts, NoReference
  <2>. QED
    BY <1>13, <2>1, FillRow DEF Validate, RowsUntuned
<1>14. CASE MarkTuned
    BY <1>14 DEF MarkTuned, RowsUntuned
<1>15. CASE LaunchTuned
    BY <1>15, FillRow DEF LaunchTuned, RowsUntuned
<1>16. CASE Release
    BY <1>16 DEF Release, RowsUntuned
<1>17. CASE Profile
    BY <1>17 DEF Profile, RowsUntuned
<1>18. CASE FinishRow
    BY <1>18, AppendUntuned DEF FinishRow, RowsUntuned
<1>19. CASE MeasurePytorch
    BY <1>19, FillRow DEF MeasurePytorch, ModesOf, Mode, RowsUntuned
<1>20. CASE PytorchFails
    BY <1>20, FailedRowUntuned DEF PytorchFails, IInv
<1>21. CASE Extract
    BY <1>21 DEF Extract, RowsUntuned
<1>22. CASE PytorchDone
    BY <1>22 DEF PytorchDone, RowsUntuned
<1>23. CASE PytorchChild
    BY <1>23, FillRow DEF PytorchChild, RowsUntuned
<1>24. CASE PytorchUnsupported
    BY <1>24, FailedRowUntuned DEF PytorchUnsupported, IInv
<1>25. CASE NoProvider
    BY <1>25 DEF NoProvider, RowsUntuned
<1>26. CASE ReferenceRow
  <2>1. NewRow("pytorch", 0, "reference") \in Untuned
    BY NewRowUntuned DEF IInv, Runtimes
  <2>. QED
    BY <1>26, <2>1 DEF ReferenceRow, RowsUntuned
<1>27. CASE ChooseReference
    BY <1>27 DEF ChooseReference, RowsUntuned
<1>28. CASE Float64
    BY <1>28 DEF Float64, RowsUntuned
<1>29. CASE Float64CopyRaises
    BY <1>29 DEF Float64CopyRaises, RowsUntuned
<1>30. CASE HostReference
    BY <1>30 DEF HostReference, RowsUntuned
<1>31. CASE Start
    BY <1>31, AttemptUntuned DEF Start
<1>32. CASE Killed
    BY <1>32, BlankUntuned DEF Killed, RowsUntuned
<1>33. CASE Rerun
    BY <1>33, AttemptUntuned DEF Rerun
<1>34. CASE UNCHANGED vars
    BY <1>34 DEF vars, RowsUntuned
<1>. QED
  BY <1>1, <1>2, <1>3, <1>4, <1>5, <1>6, <1>7, <1>8, <1>9, <1>10, <1>11, <1>12,
     <1>13, <1>14, <1>15, <1>16, <1>17, <1>18, <1>19, <1>20, <1>21, <1>22, <1>23, <1>24,
     <1>25, <1>26, <1>27, <1>28, <1>29, <1>30, <1>31, <1>32, <1>33, <1>34
  DEF Next, Run

(* IInv is inductive.                                                      *)
THEOREM Inductive == Spec => []IInv
<1>1. IInv /\ [Next]_vars => IInv'
    BY ConfigStep, JobsStep, RegisteredStep, CachesStep, RowsStep DEF IInv
<1>. QED
    BY InitInv, <1>1, PTL DEF Spec

(* No OOTB timing is of a kernel that a tuned search picked: the registry  *)
(* knows every winner in memory, and none is ever on disk.                 *)
THEOREM OotbIsUntuned == Spec => []OotbUntuned
<1>1. IInv => OotbUntuned
  <2> SUFFICES ASSUME IInv, NEW r \in Recorded PROVE ~r.served
      BY DEF OotbUntuned
  <2>1. PICK k \in 1..Len(rows) : r = rows[k]
      BY DEF Recorded
  <2>2. rows[k] \in Untuned
      BY DEF IInv, RowsUntuned
  <2>. QED
      BY <2>1, <2>2 DEF Untuned
<1>. QED
    BY Inductive, <1>1, PTL

(* The cache switch is off outside the tuned launch, whatever it raised.   *)
THEOREM CachesAreRestored == Spec => []CachesRestored
<1>1. IInv => CachesRestored
    BY DEF IInv
<1>. QED
    BY Inductive, <1>1, PTL

-----------------------------------------------------------------------------
(* Types.                                                                  *)

(* The row under way is whole, or there is none.                           *)
NoRow == {"idle", "plan", "reference", "rows", "choose_reference", "float64",
          "host_reference", "fallback", "result", "raised"}
Whole(r) == r.runtime # "none" /\ r.role # "none" /\ r.status # "none"
RowsWhole ==
  /\ row = Blank \/ Whole(row)
  /\ pc \notin NoRow => Whole(row)
  /\ \A k \in 1..Len(rows) : Whole(rows[k])

(* A tuned plan is of a hipDNN row, which has an engine.                   *)
HipEngines ==
  /\ \A k \in 1..Len(jobs) : jobs[k].runtime = "hipdnn" => jobs[k].engine \in Engines
  /\ pc \in {"hipdnn", "build_tuned"} => row.engine \in Engines
  /\ tuned # "none" => pc \notin NoRow /\ row.engine \in Engines

(* The types of what is neither a row nor a job.                           *)
Rest ==
  /\ pc \in Steps /\ graph \in Graphs
  /\ planned \in 0..Len(config.runtimes)
  /\ ref \in [outputs : {"none", "native", "float64"}, device : BOOLEAN,
              why : {"none", "error", "skipped"}]
  /\ tuned \in {"none", "plain", "tunable"} /\ held \subseteq {"ootb", "tuned", "buffers"}
  /\ erred \in BOOLEAN /\ inputs \in BOOLEAN /\ cache_off \in BOOLEAN
  /\ registry \subseteq Pairs /\ winners \subseteq Pairs

TInv == RowsWhole /\ HipEngines /\ Rest

LEMMA WholeRow == ASSUME NEW r \in Untuned, Whole(r) PROVE r \in Rows
BY DEF Untuned, Whole, Rows

LEMMA TypesFollow == IInv /\ TInv => TypeOK
<1> SUFFICES ASSUME IInv, TInv PROVE TypeOK
    OBVIOUS
<1>1. row = Blank \/ row \in Rows
    BY WholeRow DEF IInv, RowsUntuned, TInv, RowsWhole
<1>2. rows \in Seq(Rows)
    <2>1. \A k \in 1..Len(rows) : rows[k] \in Rows
        BY WholeRow DEF IInv, RowsUntuned, TInv, RowsWhole
    <2>2. rows \in Seq(Untuned)
        BY DEF IInv, RowsUntuned
    <2>. QED BY <2>1, <2>2
<1>3. asked \in BOOLEAN /\ disk \subseteq Pairs
    BY DEF IInv, ConfigOK, Registered
<1>. QED BY <1>1, <1>2, <1>3 DEF TypeOK, TInv, Rest

LEMMA InitTypes == Init => TInv
<1> SUFFICES ASSUME Init PROVE TInv
    OBVIOUS
<1>1. planned \in 0..Len(config.runtimes)
    BY GraphRunAssumption DEF Init, SuiteConfigs
<1>2. RowsWhole /\ HipEngines
    BY DEF Init, RowsWhole, HipEngines, NoRow
<1>3. Rest
    BY <1>1 DEF Init, Rest, Steps, NoRef
<1>. QED BY <1>2, <1>3 DEF TInv

LEMMA AttemptTypes == IInv /\ TInv /\ (Start \/ Rerun \/ Killed) => TInv'
<1> SUFFICES ASSUME IInv, TInv, Start \/ Rerun \/ Killed PROVE TInv'
    OBVIOUS
<1>1. RowsWhole' /\ HipEngines'
    BY DEF Start, Rerun, Killed, StartAttempt, FreshRows, Goto, RowsWhole, HipEngines, NoRow
<1>2. config' \in SuiteConfigs
    BY ConfigStep DEF IInv, ConfigOK, Next, Run
<1>3. planned' \in 0..Len(config'.runtimes)
    BY <1>2 DEF Start, Rerun, Killed, StartAttempt, SuiteConfigs
<1>4. /\ graph' \in Graphs /\ cache_off' \in BOOLEAN
      /\ registry' \subseteq Pairs /\ winners' \subseteq Pairs
    BY DEF Start, Rerun, Killed, Rest, TInv, oracle
<1>5. ref' = NoRef /\ tuned' = "none" /\ held' = {} /\ erred' = FALSE /\ inputs' = FALSE
    BY DEF Start, Rerun, Killed, StartAttempt
<1>6. pc' \in Steps
    BY DEF Start, Rerun, Killed, StartAttempt, Goto, Steps
<1>. QED BY <1>1, <1>3, <1>4, <1>5, <1>6 DEF TInv, Rest, NoRef

LEMMA JobTypes ==
  ASSUME IInv, TInv, Plan
  PROVE  \A k \in 1..Len(jobs') : jobs'[k].runtime = "hipdnn" => jobs'[k].engine \in Engines
<1> DEFINE Good == {j \in JobSet : j.runtime = "hipdnn" => j.engine \in Engines}
<1>1. /\ jobs \in Seq(JobSet)
      /\ \A k \in 1..Len(jobs) : jobs[k].runtime = "hipdnn" => jobs[k].engine \in Engines
    BY DEF IInv, JobsOK, TInv, HipEngines
<1>2. \A k \in 1..Len(jobs) : jobs[k] \in Good
    BY <1>1
<1>3. jobs \in Seq(Good)
    BY <1>1, <1>2
<1>4. ASSUME NEW new \in Seq(Good), NEW needs, Promise(new, needs) PROVE jobs' \in Seq(Good)
    BY <1>3, <1>4 DEF Promise
<1>5. ASSUME NEW list \in EngineLists,
             Promise([k \in 1..Len(list) |-> Job("hipdnn", list[k])], TRUE)
      PROVE  jobs' \in Seq(Good)
    <2>1. [k \in 1..Len(list) |-> Job("hipdnn", list[k])] \in Seq(Good)
        BY GraphRunAssumption DEF Job, JobSet, Runtimes
    <2>. QED BY <1>4, <1>5, <2>1
<1>6. ASSUME NEW runtime \in {"pytorch", "pytorch_unsupported", "rocke"}, NEW needs,
             Promise(<<Job(runtime, 0)>>, needs)
      PROVE  jobs' \in Seq(Good)
    <2>1. <<Job(runtime, 0)>> \in Seq(Good)
        BY DEF Job, JobSet, Runtimes
    <2>. QED BY <1>4, <1>6, <2>1
<1>7. ASSUME Promise(<<>>, FALSE) \/ SelectionFails PROVE jobs' \in Seq(Good)
    <2>1. <<>> \in Seq(Good)
        OBVIOUS
    <2>. QED BY <1>3, <1>4, <1>7, <2>1 DEF SelectionFails
<1>8. jobs' \in Seq(Good)
    BY <1>5, <1>6, <1>7 DEF Plan
<1>. QED BY <1>8

LEMMA PlanTypes ==
  IInv /\ TInv /\ (Plan \/ GenerateInputs \/ InputsFail \/ StartRow \/ RowsDone) => TInv'
<1> SUFFICES ASSUME IInv, TInv, Plan \/ GenerateInputs \/ InputsFail \/ StartRow \/ RowsDone
             PROVE  TInv'
    OBVIOUS
<1> USE DEF TInv, job, oracle, device, Goto
<1>1. CASE Plan
    <2>1. RowsWhole'
        BY <1>1 DEF Plan, RowsWhole, NoRow
    <2>2. HipEngines'
        BY <1>1, JobTypes DEF Plan, HipEngines
    <2>3. planned' \in 0..Len(config'.runtimes)
        BY <1>1 DEF Plan, Rest, IInv, ConfigOK, SuiteConfigs
    <2>4. erred' \in BOOLEAN /\ inputs' \in BOOLEAN
        BY <1>1 DEF Plan, Promise, SelectionFails, Rest
    <2>. QED BY <1>1, <2>1, <2>2, <2>3, <2>4 DEF Plan, Rest
<1>2. CASE GenerateInputs \/ InputsFail \/ RowsDone
    <2> USE <1>2 DEF GenerateInputs, InputsFail, RowsDone, PlansDone
    <2>1. RowsWhole' /\ HipEngines'
        BY DEF RowsWhole, HipEngines, NoRow
    <2>2. Rest'
        BY DEF Rest, Steps
    <2>. QED BY <2>1, <2>2
<1>3. CASE StartRow
    <2>. PICK k \in 1..Len(jobs) :
           /\ row' = NewRow(jobs[k].runtime, jobs[k].engine, "engine")
           /\ pc' = jobs[k].runtime
        BY <1>3 DEF StartRow
    <2>1. jobs[k].runtime \in Runtimes
        BY JobFields DEF IInv
    <2>2. Whole(row') /\ row'.engine = jobs[k].engine
        BY <2>1 DEF NewRow, Whole, Runtimes
    <2>3. RowsWhole'
        BY <1>3, <2>2 DEF StartRow, RowsWhole
    <2>4. tuned = "none"
        BY <1>3 DEF StartRow, HipEngines, NoRow
    <2>5. HipEngines'
        BY <1>3, <2>1, <2>2, <2>4 DEF StartRow, HipEngines, Runtimes
    <2>6. Rest'
        BY <1>3, <2>1 DEF StartRow, Rest, Steps, Runtimes
    <2>. QED BY <2>3, <2>5, <2>6
<1>. QED BY <1>1, <1>2, <1>3

LEMMA FailedTypes ==
  IInv /\ TInv /\ (BuildFails \/ StepFails \/ FinishRow \/ PytorchFails \/ PytorchUnsupported)
  => TInv'
<1> SUFFICES ASSUME IInv, TInv,
                    BuildFails \/ StepFails \/ FinishRow \/ PytorchFails \/ PytorchUnsupported
             PROVE  TInv'
    OBVIOUS
<1>1. /\ pc \notin NoRow
      /\ UNCHANGED <<job, ref, cache_off, oracle>>
    BY DEF BuildFails, StepFails, FinishRow, PytorchFails, PytorchUnsupported, NoRow
<1>2. Whole(row)
    BY <1>1 DEF TInv, RowsWhole
<1>3. ASSUME NEW status \in {"skipped", "error"}
      PROVE  Whole([NewRow(row.runtime, row.engine, row.role) EXCEPT !.status = status])
    BY <1>2 DEF Whole, NewRow
<1>4. PICK r : Append1(r) /\ Whole(r)
    BY <1>2, <1>3 DEF BuildFails, StepFails, FinishRow, PytorchFails, PytorchUnsupported, FailedRow
<1>5. rows \in Seq(Untuned)
    BY DEF IInv, RowsUntuned
<1>6. \A k \in 1..Len(rows') : Whole(rows'[k])
    <2>1. rows' = Append(rows, r)
        BY <1>4 DEF Append1
    <2>. QED BY <1>4, <1>5, <2>1 DEF TInv, RowsWhole
<1>7. pc' \in NoRow \cap Steps /\ row' = Blank /\ tuned' = "none" /\ held' = {}
    BY <1>4 DEF Append1, Goto, NoRow, Steps
<1>. QED BY <1>1, <1>6, <1>7 DEF TInv, RowsWhole, HipEngines, Rest, NoRow, job, oracle

(* The steps of a row that is under way.                                   *)
Underway ==
  \/ Build \/ BuildTuned \/ Allocate \/ Measure \/ Fallback \/ Validate \/ MarkTuned
  \/ LaunchTuned \/ Release \/ Profile \/ MeasurePytorch \/ Extract \/ PytorchDone
  \/ PytorchChild

LEMMA UnderwayRow == IInv /\ TInv /\ Underway => RowsWhole' /\ row'.engine = row.engine
<1> SUFFICES ASSUME IInv, TInv, Underway PROVE RowsWhole' /\ row'.engine = row.engine
    OBVIOUS
<1>1. pc \notin NoRow /\ rows' = rows
    BY DEF Underway, Build, BuildTuned, Allocate, Measure, Fallback, Validate, MarkTuned,
           LaunchTuned, Release, Profile, MeasurePytorch, Extract, PytorchDone, PytorchChild,
           Hip, NoRow
<1>2. Whole(row) /\ row \in Untuned
    BY <1>1 DEF TInv, RowsWhole, IInv, RowsUntuned
<1>3. \/ row' = row
      \/ \E v : \/ row' = [row EXCEPT !.mode = v] \/ row' = [row EXCEPT !.oracle = v]
               \/ row' = [row EXCEPT !.verdict = v] \/ row' = [row EXCEPT !.served = v]
    BY DEF Underway, Build, BuildTuned, Allocate, Measure, Fallback, Validate, MarkTuned,
           LaunchTuned, Release, Profile, MeasurePytorch, Extract, PytorchDone, PytorchChild
<1>4. CASE row' = row
    BY <1>1, <1>2, <1>4 DEF TInv, RowsWhole
<1>5. ASSUME NEW v,
             \/ row' = [row EXCEPT !.mode = v] \/ row' = [row EXCEPT !.oracle = v]
             \/ row' = [row EXCEPT !.verdict = v] \/ row' = [row EXCEPT !.served = v]
      PROVE  Whole(row') /\ row'.engine = row.engine
    BY <1>2, <1>5 DEF Untuned, Whole
<1>. QED BY <1>1, <1>3, <1>4, <1>5 DEF TInv, RowsWhole

LEMMA UnderwayTypes == IInv /\ TInv /\ Underway => TInv'
<1> SUFFICES ASSUME IInv, TInv, Underway PROVE TInv'
    OBVIOUS
<1>1. RowsWhole' /\ row'.engine = row.engine
    BY UnderwayRow
<1>2. job' = job
    BY DEF Underway, Build, BuildTuned, Allocate, Measure, Fallback, Validate, MarkTuned,
           LaunchTuned, Release, Profile, MeasurePytorch, Extract, PytorchDone, PytorchChild
<1>3. tuned = "tunable" => Pair \in Pairs
    BY DEF TInv, HipEngines, Rest, Pair, Pairs
<1> USE DEF TInv, oracle, device, Goto
<1>4. CASE Build \/ BuildTuned \/ Allocate \/ Measure
    <2> USE <1>4 DEF Build, BuildTuned, Allocate, Measure, Hip
    <2>1. HipEngines'
        BY <1>1, <1>2 DEF HipEngines, NoRow, job
    <2>2. Rest'
        BY <1>2 DEF Rest, Steps, job
    <2>. QED BY <1>1, <2>1, <2>2
<1>5. CASE Fallback
    <2> USE <1>5 DEF Fallback, Restored, Found
    <2>1. HipEngines'
        BY <1>2 DEF HipEngines, NoRow, job
    <2>2. winners' \subseteq Pairs
        BY <1>3 DEF Rest
    <2>3. Rest'
        BY <1>2, <2>2 DEF Rest, Steps, job
    <2>. QED BY <1>1, <2>1, <2>3
<1>6. CASE Validate \/ MarkTuned \/ LaunchTuned
    <2> USE <1>6 DEF Validate, MarkTuned, LaunchTuned, Marked, Restored, TunedEnv
    <2>1. HipEngines'
        BY <1>1, <1>2 DEF HipEngines, NoRow, job
    <2>2. winners' \subseteq Pairs /\ registry' \subseteq Pairs
        BY <1>3 DEF Rest
    <2>3. Rest'
        BY <1>2, <2>2 DEF Rest, Steps, job
    <2>. QED BY <1>1, <2>1, <2>3
<1>7. CASE Release \/ Profile \/ PytorchDone \/ PytorchChild
    <2> USE <1>7 DEF Release, Released, Profile, PytorchDone, PytorchChild
    <2>1. HipEngines'
        BY <1>1, <1>2 DEF HipEngines, NoRow, job
    <2>2. Rest'
        BY <1>2 DEF Rest, Steps, job
    <2>. QED BY <1>1, <2>1, <2>2
<1>8. CASE MeasurePytorch \/ Extract
    <2> USE <1>8 DEF MeasurePytorch, Extract
    <2>1. HipEngines'
        BY <1>1, <1>2 DEF HipEngines, NoRow, job
    <2>2. OnDevice(TRUE) \in BOOLEAN
        BY DEF OnDevice, IInv, ConfigOK, SuiteConfigs
    <2>3. Rest'
        BY <1>2, <2>2 DEF Rest, Steps, job, NoRef
    <2>. QED BY <1>1, <2>1, <2>3
<1>. QED BY <1>4, <1>5, <1>6, <1>7, <1>8 DEF Underway

LEMMA ReferenceTypes ==
  /\ IInv /\ TInv
  /\ \/ NoProvider \/ ReferenceRow \/ ChooseReference \/ Float64 \/ Float64CopyRaises
     \/ HostReference
  => TInv'
<1> SUFFICES ASSUME IInv, TInv,
                    \/ NoProvider \/ ReferenceRow \/ ChooseReference \/ Float64
                    \/ Float64CopyRaises \/ HostReference
             PROVE  TInv'
    OBVIOUS
<1> USE DEF TInv, job, oracle, device, Goto, NoRef, Missing
<1>1. CASE ReferenceRow
    <2> USE <1>1 DEF ReferenceRow
    <2>1. RowsWhole'
        BY DEF RowsWhole, Whole, NewRow
    <2>2. HipEngines'
        BY DEF HipEngines, NoRow
    <2>3. Rest'
        BY DEF Rest, Steps
    <2>. QED BY <2>1, <2>2, <2>3
<1>2. CASE NoProvider \/ ChooseReference \/ Float64CopyRaises \/ HostReference
    <2> USE <1>2 DEF NoProvider, ChooseReference, Float64CopyRaises, HostReference
    <2>1. RowsWhole' /\ HipEngines'
        BY DEF RowsWhole, HipEngines, NoRow
    <2>2. ref' \in [outputs : {"none", "native", "float64"}, device : BOOLEAN,
                    why : {"none", "error", "skipped"}]
        BY DEF Rest
    <2>3. pc' \in Steps
        BY DEF Steps
    <2>4. Rest'
        BY <2>2, <2>3 DEF Rest
    <2>. QED BY <2>1, <2>4
<1>3. CASE Float64
    <2> USE <1>3 DEF Float64
    <2>1. RowsWhole' /\ HipEngines'
        BY DEF RowsWhole, HipEngines, NoRow
    <2>2. OnDevice(ref.outputs = "native") \in BOOLEAN
        BY DEF OnDevice, IInv, ConfigOK, SuiteConfigs
    <2>3. /\ ref.outputs \in {"none", "native", "float64"} /\ ref.device \in BOOLEAN
          /\ ref = [outputs |-> ref.outputs, device |-> ref.device, why |-> ref.why]
          /\ ref.why \in {"none", "error", "skipped"}
        BY DEF Rest
    <2>4. ref' \in [outputs : {"none", "native", "float64"}, device : BOOLEAN,
                    why : {"none", "error", "skipped"}]
        <3>1. CASE ref' = [NoRef EXCEPT !.outputs = "float64",
                                        !.device = OnDevice(ref.outputs = "native")]
            BY <2>2, <3>1
        <3>2. CASE ref' = ref
            BY <2>3, <3>2
        <3>. QED BY <3>1, <3>2
    <2>5. pc' \in Steps
        BY DEF Steps
    <2>6. Rest'
        BY <2>4, <2>5 DEF Rest
    <2>. QED BY <2>1, <2>6
<1>. QED BY <1>1, <1>2, <1>3

LEMMA TypesInductive == Spec => []TInv
<1>1. IInv /\ TInv /\ [Next]_vars => TInv'
    <2>1. TInv /\ UNCHANGED vars => TInv'
        BY DEF vars, TInv, RowsWhole, HipEngines, Rest
    <2>. QED
        BY <2>1, AttemptTypes, PlanTypes, FailedTypes, UnderwayTypes, ReferenceTypes
        DEF Next, Run, Underway
<1>. QED
    BY <1>1, InitTypes, Inductive, PTL DEF Spec

(* The state of run_graph() keeps its types: every recorded row is whole,  *)
(* and only pairs of a graph and an engine are registered or won.          *)
THEOREM TypeCorrect == Spec => []TypeOK
BY TypesInductive, TypesFollow, Inductive, PTL

-----------------------------------------------------------------------------
(* Children on the GPU.                                                    *)

(* What leads to a child process: its row let go of everything, and where  *)
(* profilers will run no reference was put on the device.                  *)
Room ==
  /\ pc \in {"profile", "pytorch_child"} => held = {}
  /\ pc = "profile" => config.profile
  /\ ref.device => ~config.profile

(* A step to no child, that puts no reference on the device.               *)
NoChild ==
  /\ pc' \notin {"profile", "pytorch_child"}
  /\ config'.profile = config.profile
  /\ ref' = ref \/ ~ref'.device

LEMMA NoChildRoom == Room /\ NoChild => Room'
BY DEF Room, NoChild

LEMMA AttemptNoChild ==
  ASSUME StartAttempt PROVE pc' \notin {"profile", "pytorch_child"} /\ ~ref'.device
BY DEF StartAttempt, Goto, NoRef

LEMMA PlanNoChild ==
  /\ JobsOK
  /\ \/ Plan \/ GenerateInputs \/ InputsFail \/ StartRow \/ RowsDone \/ NoProvider
     \/ ReferenceRow
  => NoChild
<1> SUFFICES ASSUME JobsOK,
                    \/ Plan \/ GenerateInputs \/ InputsFail \/ StartRow \/ RowsDone
                    \/ NoProvider \/ ReferenceRow
             PROVE  NoChild
    OBVIOUS
<1> USE DEF NoChild, job, Goto
<1>1. CASE Plan \/ GenerateInputs \/ InputsFail
    BY <1>1 DEF Plan, GenerateInputs, InputsFail, PlansDone
<1>2. CASE StartRow
    <2>. PICK k \in 1..Len(jobs) : pc' = jobs[k].runtime
        BY <1>2 DEF StartRow
    <2>1. jobs[k].runtime \in Runtimes
        BY JobFields
    <2>. QED BY <1>2, <2>1 DEF StartRow, Runtimes
<1>3. CASE RowsDone \/ NoProvider \/ ReferenceRow
    BY <1>3 DEF RowsDone, NoProvider, ReferenceRow, Missing, NoRef
<1>. QED BY <1>1, <1>2, <1>3

LEMMA RowNoChild ==
  \/ BuildFails \/ Build \/ BuildTuned \/ Allocate \/ StepFails \/ Measure \/ Fallback
  \/ Validate \/ MarkTuned \/ LaunchTuned \/ Profile \/ FinishRow
  => NoChild
<1> USE DEF NoChild, job, Goto, Append1, FailedRow
<1>1. BuildFails \/ Build \/ BuildTuned \/ Allocate => NoChild
    BY DEF BuildFails, Build, BuildTuned, Allocate
<1>2. StepFails \/ Measure \/ Fallback \/ Validate => NoChild
    BY DEF StepFails, Measure, Fallback, Validate
<1>3. MarkTuned \/ LaunchTuned \/ Profile \/ FinishRow => NoChild
    BY DEF MarkTuned, LaunchTuned, Profile, FinishRow
<1>. QED BY <1>1, <1>2, <1>3

LEMMA TorchNoChild ==
  \/ MeasurePytorch \/ PytorchFails \/ PytorchChild \/ PytorchUnsupported
  \/ ChooseReference \/ Float64CopyRaises \/ HostReference
  => NoChild
<1> USE DEF NoChild, job, Goto, Append1, FailedRow
<1>1. MeasurePytorch \/ PytorchFails \/ PytorchChild \/ PytorchUnsupported => NoChild
    BY DEF MeasurePytorch, PytorchFails, PytorchChild, PytorchUnsupported
<1>2. ChooseReference \/ Float64CopyRaises \/ HostReference => NoChild
    BY DEF ChooseReference, Float64CopyRaises, HostReference, Missing, NoRef
<1>. QED BY <1>1, <1>2

LEMMA RoomStep == ConfigOK /\ JobsOK /\ Room /\ [Next]_vars => Room'
<1> SUFFICES ASSUME ConfigOK, JobsOK, Room, [Next]_vars PROVE Room'
    OBVIOUS
<1>1. CASE Start \/ Rerun
    <2>1. config'.profile = config.profile
        BY <1>1 DEF Start, Rerun, Unstalled, ConfigOK, SuiteConfigs
    <2>. QED BY <1>1, <2>1, AttemptNoChild, NoChildRoom DEF Start, Rerun, NoChild
<1>2. CASE Killed
    BY <1>2 DEF Killed, Goto, Room, NoRef
<1>3. CASE Release
    BY <1>3 DEF Release, Released, Room, Goto, job
<1>4. CASE PytorchDone
    BY <1>4 DEF PytorchDone, Room, Goto, job
<1>5. CASE Extract \/ Float64
    BY <1>5 DEF Extract, Float64, OnDevice, NoRef, Room, Goto, job
<1>6. CASE UNCHANGED vars
    BY <1>6 DEF vars, Room
<1>. QED
    BY <1>1, <1>2, <1>3, <1>4, <1>5, <1>6, PlanNoChild, RowNoChild, TorchNoChild, NoChildRoom
    DEF Next, Run

(* A child process that uses the GPU finds nothing of its row there, and a *)
(* profiler no reference, whichever rows failed, fell back or were killed. *)
THEOREM ChildrenGetRoom == Spec => []ChildrenHaveRoom
<1>1. Init => Room
    BY DEF Init, Room, NoRef
<1>2. Room => ChildrenHaveRoom
    BY DEF Room, ChildrenHaveRoom
<1>3. IInv /\ Room /\ [Next]_vars => Room'
    BY RoomStep DEF IInv
<1>. QED
    BY <1>1, <1>2, <1>3, Inductive, PTL DEF Spec

-----------------------------------------------------------------------------
(* The order of the rows.                                                  *)

(* Row r is the one promised by the k-th job.                              *)
KeepsPromise(r, k) ==
  /\ k \in 1..Len(jobs) /\ r.role = "engine"
  /\ r.runtime = jobs[k].runtime /\ r.engine = jobs[k].engine

(* Every recorded row is of this attempt, the first may be the reference's *)
(* and the others keep the promises in order.                              *)
InOrder ==
  \A n \in 1..Len(rows) :
    /\ rows[n].stalled = config.stall
    /\ rows[n].role = "reference" => n = 1
    /\ n > Ahead => KeepsPromise(rows[n], n - Ahead)

(* The row under way comes next, and a reference only before all others.   *)
IsNext ==
  pc \notin NoRow =>
    /\ row.stalled = config.stall
    /\ \/ row.role = "reference" /\ rows = <<>>
       \/ KeepsPromise(row, Len(rows) + 1 - Ahead)

OrderInv ==
  /\ InOrder /\ IsNext
  /\ pc \in {"idle", "plan", "reference"} => rows = <<>>
  /\ pc = "result" => (erred /\ rows = <<>>) \/ Len(rows) = Ahead + Len(jobs)

LEMMA NoRowsInOrder ==
  /\ rows = <<>> => InOrder
  /\ rows' = <<>> => InOrder'
BY DEF InOrder

LEMMA AttemptOrder == Start \/ Rerun \/ Killed => OrderInv'
<1> SUFFICES ASSUME Start \/ Rerun \/ Killed PROVE OrderInv'
    OBVIOUS
<1>1. rows' = <<>> /\ pc' \in {"plan", "idle"}
    BY DEF Start, Rerun, Killed, StartAttempt, FreshRows, Goto
<1> QED BY <1>1, NoRowsInOrder DEF OrderInv, IsNext, NoRow

(* A step that records nothing and plans nothing keeps the recorded rows.  *)
LEMMA KeptInOrder ==
  ASSUME InOrder, UNCHANGED <<rows, jobs, config>>
  PROVE  InOrder' /\ Ahead' = Ahead
BY DEF InOrder, Ahead, KeepsPromise

LEMMA PlanOrder ==
  OrderInv /\ (Plan \/ GenerateInputs \/ InputsFail \/ RowsDone) => OrderInv'
<1> SUFFICES ASSUME OrderInv, Plan \/ GenerateInputs \/ InputsFail \/ RowsDone
             PROVE  OrderInv'
    OBVIOUS
<1> USE DEF OrderInv, IsNext, NoRow, Goto, PlansDone, job
<1>1. CASE Plan
    BY <1>1, NoRowsInOrder DEF Plan
<1>2. CASE GenerateInputs \/ InputsFail
    <2>1. /\ rows = <<>> /\ rows' = rows /\ pc' \in {"reference", "rows", "result"}
          /\ pc' = "result" => erred'
        BY <1>2 DEF GenerateInputs, InputsFail
    <2> QED BY <2>1, NoRowsInOrder
<1>3. CASE RowsDone
    BY <1>3, KeptInOrder DEF RowsDone
<1> QED BY <1>1, <1>2, <1>3

LEMMA StartRowOrder == IInv /\ OrderInv /\ StartRow => OrderInv'
<1> SUFFICES ASSUME IInv, OrderInv, StartRow PROVE OrderInv'
    OBVIOUS
<1> PICK k \in 1..Len(jobs) : /\ Ahead + k = Len(rows) + 1
                              /\ row' = NewRow(jobs[k].runtime, jobs[k].engine, "engine")
                              /\ pc' = jobs[k].runtime
    BY DEF StartRow, Goto
<1>1. InOrder' /\ Ahead' = Ahead /\ UNCHANGED <<rows, jobs, config>>
    BY KeptInOrder DEF StartRow, OrderInv, job
<1>2. jobs[k].runtime \in Runtimes
    BY JobFields DEF IInv
<1>3. Len(rows) + 1 - Ahead = k
    <2>1. Len(rows) \in Nat /\ Ahead \in Nat /\ k \in Nat
        BY DEF IInv, RowsUntuned, JobsOK, Ahead
    <2> QED BY <2>1
<1>4. row'.stalled = config.stall /\ KeepsPromise(row', k)
    BY DEF NewRow, KeepsPromise
<1>5. IsNext'
    BY <1>1, <1>3, <1>4 DEF IsNext, KeepsPromise
<1> QED BY <1>1, <1>2, <1>5 DEF OrderInv, Runtimes

LEMMA UnderwayOrder == IInv /\ OrderInv /\ Underway => OrderInv'
<1> SUFFICES ASSUME IInv, OrderInv, Underway PROVE OrderInv'
    OBVIOUS
<1>1. /\ pc \notin NoRow /\ UNCHANGED <<rows, jobs, config>>
      /\ pc' \notin {"idle", "plan", "reference", "result"}
    BY DEF Underway, Build, BuildTuned, Allocate, Measure, Fallback, Validate, MarkTuned,
           LaunchTuned, Release, Profile, MeasurePytorch, Extract, PytorchDone, PytorchChild,
           Hip, NoRow, Goto, job
<1>2. \/ row' = row
      \/ \E v : \/ row' = [row EXCEPT !.mode = v] \/ row' = [row EXCEPT !.oracle = v]
               \/ row' = [row EXCEPT !.verdict = v] \/ row' = [row EXCEPT !.served = v]
    BY DEF Underway, Build, BuildTuned, Allocate, Measure, Fallback, Validate, MarkTuned,
           LaunchTuned, Release, Profile, MeasurePytorch, Extract, PytorchDone, PytorchChild
<1>3. /\ row'.stalled = row.stalled /\ row'.role = row.role
      /\ row'.runtime = row.runtime /\ row'.engine = row.engine
    BY <1>2 DEF IInv, RowsUntuned, Untuned
<1>4. InOrder' /\ Ahead' = Ahead
    BY <1>1, KeptInOrder DEF OrderInv
<1>5. IsNext'
    BY <1>1, <1>3, <1>4 DEF OrderInv, IsNext, KeepsPromise
<1> QED BY <1>1, <1>4, <1>5 DEF OrderInv

LEMMA ReferenceOrder ==
  /\ OrderInv
  /\ \/ NoProvider \/ ReferenceRow \/ ChooseReference \/ Float64 \/ Float64CopyRaises
     \/ HostReference
  => OrderInv'
<1> SUFFICES ASSUME OrderInv,
                    \/ NoProvider \/ ReferenceRow \/ ChooseReference \/ Float64
                    \/ Float64CopyRaises \/ HostReference
             PROVE  OrderInv'
    OBVIOUS
<1>1. UNCHANGED <<rows, jobs, config>>
    BY DEF NoProvider, ReferenceRow, ChooseReference, Float64, Float64CopyRaises,
           HostReference, job
<1>2. InOrder'
    BY <1>1, KeptInOrder DEF OrderInv
<1>3. CASE ReferenceRow
    <2>1. /\ rows' = <<>> /\ pc' = "pytorch_reference"
          /\ row'.stalled = config.stall /\ row'.role = "reference"
        BY <1>1, <1>3 DEF ReferenceRow, OrderInv, NewRow, Goto
    <2> QED BY <1>1, <1>2, <2>1 DEF OrderInv, IsNext
<1>4. CASE ~ReferenceRow
    <2>1. pc' \in {"rows", "float64", "host_reference", "raised"}
        BY <1>4 DEF NoProvider, ChooseReference, Float64, Float64CopyRaises, HostReference, Goto
    <2> QED BY <1>2, <2>1 DEF OrderInv, IsNext, NoRow
<1> QED BY <1>3, <1>4

(* The row under way is recorded, whole or replaced by a failed one.       *)
LEMMA AppendOrder ==
  /\ IInv /\ OrderInv
  /\ BuildFails \/ StepFails \/ FinishRow \/ PytorchFails \/ PytorchUnsupported
  => OrderInv'
<1> SUFFICES ASSUME IInv, OrderInv,
                    BuildFails \/ StepFails \/ FinishRow \/ PytorchFails \/ PytorchUnsupported
             PROVE  OrderInv'
    OBVIOUS
<1>1. pc \notin NoRow /\ UNCHANGED <<jobs, config>>
    BY DEF BuildFails, StepFails, FinishRow, PytorchFails, PytorchUnsupported, NoRow, job
<1>2. /\ row.stalled = config.stall
      /\ (row.role = "reference" /\ rows = <<>>) \/ KeepsPromise(row, Len(rows) + 1 - Ahead)
    BY <1>1 DEF OrderInv, IsNext
<1> DEFINE Same(r) == /\ r.stalled = config.stall /\ r.role = row.role
                      /\ r.runtime = row.runtime /\ r.engine = row.engine
<1>3. \A status : Same([NewRow(row.runtime, row.engine, row.role) EXCEPT !.status = status])
    BY DEF NewRow
<1>4. PICK r : Append1(r) /\ Same(r)
    BY <1>2, <1>3
       DEF BuildFails, StepFails, FinishRow, PytorchFails, PytorchUnsupported, FailedRow
<1>5. rows \in Seq(Untuned) /\ rows' = Append(rows, r) /\ pc' \in {"choose_reference", "rows"}
    BY <1>4 DEF IInv, RowsUntuned, Append1, Goto
<1>6. /\ Len(rows) \in Nat /\ Len(rows') = Len(rows) + 1
      /\ \A n \in 1..Len(rows) : rows'[n] = rows[n]
      /\ rows'[Len(rows) + 1] = r /\ rows' # <<>>
    BY <1>5
<1>7. rows # <<>> => Len(rows) >= 1
    BY <1>5
<1>8. Ahead' = IF r.role = "reference" THEN 1 ELSE Ahead
    <2>1. CASE rows = <<>>
        BY <1>6, <2>1 DEF Ahead
    <2>2. CASE rows # <<>>
        <3>1. r.role = "engine" /\ rows'[1] = rows[1]
            BY <1>2, <1>4, <1>6, <1>7, <2>2 DEF KeepsPromise
        <3> QED BY <1>6, <2>2, <3>1 DEF Ahead
    <2> QED BY <2>1, <2>2
<1>9. Ahead \in Nat /\ Ahead' \in Nat
    BY DEF Ahead
<1>10. ASSUME NEW n \in 1..Len(rows')
       PROVE  /\ rows'[n].stalled = config.stall
              /\ rows'[n].role = "reference" => n = 1
              /\ n > Ahead' => KeepsPromise(rows'[n], n - Ahead')
    <2>1. CASE n = Len(rows) + 1 /\ r.role = "reference"
        <3>1. rows = <<>> /\ Len(rows) = 0
            BY <1>2, <1>4, <2>1 DEF KeepsPromise
        <3>2. n = 1 /\ rows'[n] = r /\ Ahead' = 1
            BY <1>6, <1>8, <2>1, <3>1
        <3> QED BY <1>4, <3>2
    <2>2. CASE n = Len(rows) + 1 /\ r.role # "reference"
        <3>1. rows'[n] = r /\ Ahead' = Ahead
            BY <1>6, <1>8, <2>2
        <3>2. KeepsPromise(row, Len(rows) + 1 - Ahead)
            BY <1>2, <1>4, <2>2
        <3>3. KeepsPromise(r, Len(rows) + 1 - Ahead)
            BY <1>4, <3>2 DEF KeepsPromise
        <3>4. n - Ahead' = Len(rows) + 1 - Ahead
            BY <1>6, <1>9, <2>2, <3>1
        <3>5. KeepsPromise(rows'[n], n - Ahead')
            BY <3>1, <3>3, <3>4, Zenon
        <3> QED BY <1>2, <1>4, <2>2, <3>1, <3>5
    <2>3. CASE n \in 1..Len(rows)
        <3>1. Ahead' = Ahead
            <4>1. rows # <<>>
                BY <2>3
            <4> QED BY <1>2, <1>4, <1>8, <4>1 DEF KeepsPromise
        <3>2. rows'[n] = rows[n]
            BY <1>6, <2>3
        <3> QED BY <2>3, <3>1, <3>2 DEF OrderInv, InOrder
    <2> QED BY <1>6, <2>1, <2>2, <2>3
<1>11. InOrder'
    <2>1. \A q, k : KeepsPromise(q, k) => KeepsPromise(q, k)'
        BY <1>1 DEF KeepsPromise
    <2> QED BY <1>1, <1>10, <2>1 DEF InOrder, KeepsPromise
<1> QED BY <1>5, <1>11 DEF OrderInv, IsNext, NoRow

LEMMA OrderInductive == Spec => []OrderInv
<1>1. Init => OrderInv
    BY NoRowsInOrder DEF Init, OrderInv, IsNext, NoRow
<1>2. IInv /\ OrderInv /\ [Next]_vars => OrderInv'
    <2>1. OrderInv /\ UNCHANGED vars => OrderInv'
        BY DEF vars, OrderInv, InOrder, IsNext, KeepsPromise, Ahead
    <2> QED BY <2>1, AttemptOrder, PlanOrder, StartRowOrder, UnderwayOrder, ReferenceOrder,
               AppendOrder DEF Next, Run, Underway
<1> QED BY <1>1, <1>2, Inductive, PTL DEF Spec

(* The rows of a graph that returns are the promised ones, in order, after *)
(* at most one reference row, and none is left of the attempt before a     *)
(* rerun (_run_graph(), run_graph()).                                      *)
THEOREM RowsArePlanned == Spec => []RowsAsPlanned
<1>1. IInv /\ OrderInv => RowsAsPlanned
    <2> SUFFICES ASSUME IInv, OrderInv, pc = "result", ~(erred /\ rows = <<>>)
                 PROVE  RowsAsPlanned
        BY DEF RowsAsPlanned
    <2>1. Len(rows) = Ahead + Len(jobs) /\ InOrder
        BY DEF OrderInv
    <2>2. Len(jobs) \in Nat /\ Ahead \in Nat
        BY DEF IInv, JobsOK, Ahead
    <2>3. ASSUME NEW k \in 1..Len(jobs) PROVE KeepsPromise(rows[Ahead + k], k)
        <3>1. PICK n \in 1..Len(rows) : n > Ahead /\ n = Ahead + k /\ n - Ahead = k
            BY <2>1, <2>2
        <3>2. KeepsPromise(rows[n], n - Ahead)
            BY <2>1, <3>1 DEF InOrder
        <3> QED BY <3>1, <3>2, Zenon
    <2>4. \A k \in 1..Len(rows) :
            /\ rows[k].role = "reference" => k = 1
            /\ rows[k].stalled = config.stall
        BY <2>1 DEF InOrder
    <2>5. \A k \in 1..Len(jobs) :
            /\ Engine(rows[Ahead + k])
            /\ rows[Ahead + k].runtime = jobs[k].runtime
            /\ rows[Ahead + k].engine = jobs[k].engine
        BY <2>3 DEF Engine, KeepsPromise
    <2> QED BY <2>1, <2>4, <2>5 DEF RowsAsPlanned
<1> QED BY <1>1, OrderInductive, Inductive, PTL

-----------------------------------------------------------------------------
(* --validate is a hard gate.                                              *)

(* With --validate no PyTorch engine is planned (SuiteConfig).             *)
NoTorch ==
  /\ planned \in Nat
  /\ config.validate =>
       /\ \A k \in 1..Len(config.runtimes) : config.runtimes[k] # "pytorch"
       /\ \A k \in 1..Len(jobs) : jobs[k].runtime \in {"hipdnn", "rocke"}

(* What makes the row of an engine fit to be recorded.                     *)
Gated(r) ==
  \/ r.verdict = "mismatch"
  \/ r.verdict = "match" /\ ref.outputs # "none"
  \/ r.verdict = "unchecked" /\ ref.why = "skipped"

BeforeReference == {"idle", "plan", "reference", "pytorch_reference", "extract"}
AfterReferenceRow == {"choose_reference", "float64", "host_reference"}
Judged == {"mark_tuned", "launch_tuned", "release", "profile"}
EngineSteps == {"hipdnn", "rocke", "build_tuned", "allocate", "measure", "validate"} \cup Judged
ReferenceSteps == {"pytorch_reference", "extract", "pytorch_done", "pytorch_child"}

(* Whose row is under way, and whether it has been judged.                 *)
RowOfStep ==
  /\ pc \notin {"pytorch", "pytorch_unsupported"}
  /\ pc \in EngineSteps => row.role = "engine"
  /\ pc \in ReferenceSteps => row.role = "reference"
  /\ pc \in Judged => Gated(row)
  /\ pc = "finish" => row.role = "reference" \/ (row.role = "engine" /\ Gated(row))
  /\ row.role # "none" => Succeeded(row)

(* The reference is settled before the first engine row is recorded, and a *)
(* strict selection that failed leaves none.                               *)
RefOfStep ==
  /\ pc \in BeforeReference \/ row.role = "reference" => Recorded = {}
  /\ pc \in {"plan", "reference", "pytorch_reference", "extract"} => ref.outputs = "none"
  /\ pc \in AfterReferenceRow => \A r \in Recorded : ~Engine(r)
  /\ pc \in {"float64", "host_reference"} => ~StrictFailed
  /\ StrictFailed => ref.outputs = "none"

AllGated == \A r \in Recorded : Engine(r) /\ Succeeded(r) => Gated(r)

Gate == config.validate => RowOfStep /\ RefOfStep /\ AllGated
GInv == NoTorch /\ Gate

LEMMA SameRecorded == rows' = rows => Recorded' = Recorded
BY DEF Recorded

LEMMA NoneRecorded == rows = <<>> => Recorded = {}
BY DEF Recorded

LEMMA NoneRecordedNext == rows' = <<>> => Recorded' = {}
BY DEF Recorded

LEMMA OneRecorded ==
  ASSUME rows \in Seq(Untuned), NEW r \in Untuned, rows' = Append(rows, r)
  PROVE  Recorded' = Recorded \cup {r}
<1>1. /\ Len(rows) \in Nat /\ Len(rows') = Len(rows) + 1
      /\ \A k \in 1..Len(rows) : rows'[k] = rows[k]
      /\ rows'[Len(rows) + 1] = r
    OBVIOUS
<1> QED BY <1>1 DEF Recorded

LEMMA InitGate == Init => GInv
<1> SUFFICES ASSUME Init PROVE GInv
    OBVIOUS
<1>1. NoTorch
    BY GraphRunAssumption DEF Init, NoTorch
<1>2. Recorded = {}
    BY NoneRecorded DEF Init
<1>3. RowOfStep /\ RefOfStep /\ AllGated
    BY <1>2 DEF Init, Blank, RowOfStep, RefOfStep, AllGated, EngineSteps, Judged,
                ReferenceSteps, BeforeReference, AfterReferenceRow, StrictFailed
<1> QED BY <1>1, <1>3 DEF GInv, Gate

LEMMA PlanJobs ==
  ASSUME JobsOK, ConfigOK, NoTorch, Plan
  PROVE  NoTorch'
<1> SUFFICES ASSUME config.validate PROVE NoTorch'
    BY DEF Plan, NoTorch
<1> DEFINE Both == {j \in JobSet : j.runtime \in {"hipdnn", "rocke"}}
<1>1. jobs \in Seq(JobSet) /\ \A k \in 1..Len(jobs) : jobs[k].runtime \in {"hipdnn", "rocke"}
    BY DEF JobsOK, NoTorch
<1>2. \A k \in 1..Len(jobs) : jobs[k] \in Both
    BY <1>1
<1>3. jobs \in Seq(Both)
    BY <1>1, <1>2
<1>4. ASSUME NEW new \in Seq(Both), NEW needs, Promise(new, needs) PROVE jobs' \in Seq(Both)
    BY <1>3, <1>4 DEF Promise
<1>5. ASSUME NEW list \in EngineLists,
             Promise([k \in 1..Len(list) |-> Job("hipdnn", list[k])], TRUE)
      PROVE  jobs' \in Seq(Both)
    <2>1. [k \in 1..Len(list) |-> Job("hipdnn", list[k])] \in Seq(Both)
        BY GraphRunAssumption DEF Job, JobSet, Runtimes
    <2> QED BY <1>4, <1>5, <2>1
<1>6. ASSUME Promise(<<Job("rocke", 0)>>, TRUE) \/ Promise(<<>>, FALSE)
      PROVE  jobs' \in Seq(Both)
    <2>1. <<Job("rocke", 0)>> \in Seq(Both) /\ <<>> \in Seq(Both)
        BY DEF Job, JobSet, Runtimes
    <2> QED BY <1>4, <1>6, <2>1
<1>7. ASSUME SelectionFails PROVE jobs' \in Seq(Both)
    BY <1>3, <1>7 DEF SelectionFails
<1>8. config' = config /\ config.runtimes[planned + 1] # "pytorch"
    BY DEF Plan, NoTorch, ConfigOK, SuiteConfigs
<1>9. jobs' \in Seq(Both)
    BY <1>5, <1>6, <1>7, <1>8 DEF Plan
<1>10. \A k \in 1..Len(jobs') : jobs'[k] \in Both
    BY <1>9
<1> QED BY <1>8, <1>10 DEF NoTorch, Plan

(* The steps that change neither what is recorded nor the reference, and   *)
(* of their row only what the gate does not see.                           *)
Aside ==
  /\ rows' = rows /\ ref' = ref /\ config' = config
  /\ row'.role = row.role /\ row'.status = row.status /\ row'.verdict = row.verdict

LEMMA AsideSteps ==
  /\ RowsUntuned
  /\ \/ Plan \/ GenerateInputs \/ InputsFail \/ RowsDone \/ Build \/ BuildTuned \/ Allocate
     \/ Measure \/ Fallback \/ MarkTuned \/ LaunchTuned \/ Release \/ Profile
     \/ MeasurePytorch \/ PytorchDone \/ PytorchChild \/ Float64CopyRaises
  => Aside
<1> USE DEF Aside, RowsUntuned, Untuned, job, oracle, device
<1>1. RowsUntuned /\ (Plan \/ GenerateInputs \/ InputsFail \/ RowsDone) => Aside
    BY DEF Plan, GenerateInputs, InputsFail, RowsDone
<1>2. RowsUntuned /\ (Build \/ BuildTuned \/ Allocate \/ Measure) => Aside
    BY DEF Build, BuildTuned, Allocate, Measure
<1>3. RowsUntuned /\ (Fallback \/ MarkTuned \/ LaunchTuned \/ Release \/ Profile) => Aside
    BY DEF Fallback, MarkTuned, LaunchTuned, Release, Profile
<1>4. RowsUntuned /\ (MeasurePytorch \/ PytorchDone \/ PytorchChild \/ Float64CopyRaises)
        => Aside
    BY DEF MeasurePytorch, PytorchDone, PytorchChild, Float64CopyRaises
<1> QED BY <1>1, <1>2, <1>3, <1>4

LEMMA AsideGate ==
  /\ IInv /\ GInv
  /\ \/ Plan \/ GenerateInputs \/ InputsFail \/ RowsDone \/ Build \/ BuildTuned \/ Allocate
     \/ Measure \/ Fallback \/ MarkTuned \/ LaunchTuned \/ Release \/ Profile
     \/ MeasurePytorch \/ PytorchDone \/ PytorchChild \/ Float64CopyRaises
  => Gate'
<1> DEFINE Step ==
     \/ Plan \/ GenerateInputs \/ InputsFail \/ RowsDone \/ Build \/ BuildTuned \/ Allocate
     \/ Measure \/ Fallback \/ MarkTuned \/ LaunchTuned \/ Release \/ Profile
     \/ MeasurePytorch \/ PytorchDone \/ PytorchChild \/ Float64CopyRaises
<1> SUFFICES ASSUME IInv, GInv, Step, config.validate, config' = config PROVE Gate'
    BY AsideSteps DEF Gate, IInv, Aside
<1>1. Aside /\ Recorded' = Recorded
    BY AsideSteps, SameRecorded DEF IInv, Aside
<1>2. RowOfStep /\ RefOfStep /\ AllGated
    BY DEF GInv, Gate
<1>3. AllGated'
    BY <1>1, <1>2 DEF AllGated, Aside, Gated, Engine, Succeeded
<1>4. StrictFailed' = StrictFailed
    BY <1>1 DEF StrictFailed, Aside, Succeeded
<1>5. RowOfStep' /\ RefOfStep'
    <2> USE <1>1, <1>2, <1>4
        DEF RowOfStep, RefOfStep, EngineSteps, ReferenceSteps, BeforeReference,
            AfterReferenceRow, Judged, Aside, Gated, Succeeded, Engine, Goto
    <2>1. CASE Plan              BY <2>1 DEF Plan
    <2>2. CASE GenerateInputs    BY <2>2 DEF GenerateInputs, PlansDone
    <2>3. CASE InputsFail        BY <2>3 DEF InputsFail
    <2>4. CASE RowsDone          BY <2>4 DEF RowsDone
    <2>5. CASE Build             BY <2>5 DEF Build
    <2>6. CASE BuildTuned        BY <2>6 DEF BuildTuned
    <2>7. CASE Allocate          BY <2>7 DEF Allocate, Hip
    <2>8. CASE Measure           BY <2>8 DEF Measure
    <2>9. CASE Fallback          BY <2>9 DEF Fallback
    <2>10. CASE MarkTuned        BY <2>10 DEF MarkTuned
    <2>11. CASE LaunchTuned      BY <2>11 DEF LaunchTuned
    <2>12. CASE Release          BY <2>12 DEF Release
    <2>13. CASE Profile          BY <2>13 DEF Profile
    <2>14. CASE MeasurePytorch   BY <2>14 DEF MeasurePytorch
    <2>15. CASE PytorchDone      BY <2>15 DEF PytorchDone
    <2>16. CASE PytorchChild     BY <2>16 DEF PytorchChild
    <2>17. CASE Float64CopyRaises BY <2>17 DEF Float64CopyRaises
    <2> QED BY <2>1, <2>2, <2>3, <2>4, <2>5, <2>6, <2>7, <2>8, <2>9, <2>10, <2>11,
               <2>12, <2>13, <2>14, <2>15, <2>16, <2>17
<1> QED BY <1>3, <1>5 DEF Gate

(* A row that is appended: the reference row of a graph without engine     *)
(* rows, or an engine row that failed or passed the gate.                  *)
LEMMA AppendGate ==
  ASSUME IInv, GInv, config.validate, config' = config, ref' = ref,
         NEW r \in Untuned, Append1(r), r.role = row.role,
         \/ r.role = "reference" /\ (Succeeded(r) \/ ref.outputs = "none")
         \/ r.role = "engine" /\ (Succeeded(r) => Gated(r))
  PROVE  Gate'
<1>1. /\ Recorded' = Recorded \cup {r}
      /\ row' = Blank /\ pc' = IF r.role = "reference" THEN "choose_reference" ELSE "rows"
    BY OneRecorded DEF IInv, RowsUntuned, Append1, Goto
<1>2. RowOfStep /\ RefOfStep /\ AllGated
    BY DEF GInv, Gate
<1>3. AllGated'
    BY <1>1, <1>2 DEF AllGated, Gated, Engine, Succeeded
<1>4. StrictFailed' => ref.outputs = "none"
    BY <1>1, <1>2 DEF StrictFailed, RefOfStep, Succeeded
<1>5. RowOfStep'
    BY <1>1 DEF RowOfStep, EngineSteps, ReferenceSteps, Judged, Blank
<1>6. RefOfStep'
    BY <1>1, <1>2, <1>4 DEF RefOfStep, BeforeReference, AfterReferenceRow, Engine, Blank
<1> QED BY <1>3, <1>5, <1>6 DEF Gate

(* A row that failed.                                                      *)
LEMMA FailedGate ==
  ASSUME IInv, GInv, config.validate, config' = config, ref' = ref,
         NEW status \in {"error", "skipped"}, FailedRow(status),
         row.role = "engine" \/ (row.role = "reference" /\ ref.outputs = "none")
  PROVE  Gate'
<1> DEFINE r == [NewRow(row.runtime, row.engine, row.role) EXCEPT !.status = status]
<1>1. /\ row.runtime \in Runtimes \cup {"none"} /\ row.engine \in Engines \cup {0}
      /\ row.role \in {"engine", "reference", "none"}
    BY DEF IInv, RowsUntuned, Untuned
<1>2. r \in Untuned
    BY <1>1, NewRowUntuned DEF IInv
<1>3. r.role = row.role /\ ~Succeeded(r) /\ Append1(r)
    BY DEF NewRow, Succeeded, FailedRow
<1> HIDE DEF r
<1> QED BY <1>2, <1>3, AppendGate

LEMMA EndGate ==
  IInv /\ GInv /\ (BuildFails \/ StepFails \/ PytorchFails \/ PytorchUnsupported \/ FinishRow)
    => Gate'
<1> SUFFICES ASSUME IInv, GInv,
                    BuildFails \/ StepFails \/ PytorchFails \/ PytorchUnsupported \/ FinishRow,
                    config'.validate
             PROVE  Gate'
    BY DEF Gate
<1>1. config' = config /\ ref' = ref
    BY DEF BuildFails, StepFails, PytorchFails, PytorchUnsupported, FinishRow, job
<1>2. config.validate /\ RowOfStep /\ RefOfStep
    BY <1>1 DEF GInv, Gate
<1>3. CASE BuildFails
    <2>1. row.role = "engine"
        BY <1>2, <1>3 DEF BuildFails, RowOfStep, EngineSteps
    <2> QED BY <1>1, <1>2, <1>3, <2>1, FailedGate DEF BuildFails
<1>4. CASE StepFails
    <2>1. row.role = "engine"
        BY <1>2, <1>4 DEF StepFails, RowOfStep, EngineSteps
    <2> QED BY <1>1, <1>2, <1>4, <2>1, FailedGate DEF StepFails
<1>5. CASE PytorchFails
    <2>1. row.role = "reference" /\ ref.outputs = "none"
        BY <1>2, <1>5 DEF PytorchFails, RowOfStep, RefOfStep, ReferenceSteps
    <2> QED BY <1>1, <1>2, <1>5, <2>1, FailedGate DEF PytorchFails
<1>6. CASE PytorchUnsupported
    BY <1>2, <1>6 DEF PytorchUnsupported, RowOfStep
<1>7. CASE FinishRow
    <2>1. row.role \in {"reference", "engine"} /\ Succeeded(row)
          /\ (row.role = "engine" => Gated(row))
        BY <1>2, <1>7 DEF FinishRow, RowOfStep
    <2>2. row \in Untuned /\ Append1(row)
        BY <1>7 DEF FinishRow, IInv, RowsUntuned
    <2> QED BY <1>1, <1>2, <2>1, <2>2, AppendGate
<1> QED BY <1>3, <1>4, <1>5, <1>6, <1>7

(* The reference is computed, or given up.                                 *)
LEMMA ReferenceGate ==
  IInv /\ GInv /\ (Extract \/ NoProvider \/ ChooseReference \/ Float64 \/ HostReference)
    => Gate'
<1> SUFFICES ASSUME IInv, GInv,
                    Extract \/ NoProvider \/ ChooseReference \/ Float64 \/ HostReference,
                    config'.validate
             PROVE  Gate'
    BY DEF Gate
<1>1. config' = config /\ rows' = rows /\ row' = row
    BY DEF Extract, NoProvider, ChooseReference, Float64, HostReference, job
<1>2. RowOfStep /\ RefOfStep /\ Recorded' = Recorded
    BY <1>1, SameRecorded DEF GInv, Gate
<1>3. \A r \in Recorded : ~Engine(r)
    BY <1>2 DEF Extract, NoProvider, ChooseReference, Float64, HostReference, RefOfStep,
                BeforeReference, AfterReferenceRow
<1>4. AllGated'
    BY <1>2, <1>3 DEF AllGated, Engine
<1>5. StrictFailed' = StrictFailed
    BY <1>1, <1>2 DEF StrictFailed, Succeeded
<1>6. RowOfStep' /\ RefOfStep'
    <2> USE <1>1, <1>2, <1>3, <1>5
        DEF RowOfStep, RefOfStep, EngineSteps, ReferenceSteps, BeforeReference,
            AfterReferenceRow, Judged, Goto, NoRef, Missing, Succeeded
    <2>1. CASE Extract
        <3>1. ~StrictFailed
            BY <2>1 DEF Extract, StrictFailed
        <3> QED BY <2>1, <3>1 DEF Extract
    <2>2. CASE NoProvider       BY <2>2 DEF NoProvider
    <2>3. CASE ChooseReference
        <3>1. StrictFailed => config.strict
            BY DEF StrictFailed
        <3> QED BY <2>3, <3>1 DEF ChooseReference, FallsBack, Strict
    <2>4. CASE Float64          BY <2>4 DEF Float64
    <2>5. CASE HostReference    BY <2>5 DEF HostReference
    <2> QED BY <2>1, <2>2, <2>3, <2>4, <2>5
<1> QED BY <1>4, <1>6 DEF Gate

(* A row begins, or is judged.                                             *)
LEMMA RowGate ==
  IInv /\ GInv /\ (StartRow \/ ReferenceRow \/ Validate) => Gate'
<1> SUFFICES ASSUME IInv, GInv, StartRow \/ ReferenceRow \/ Validate, config'.validate
             PROVE  Gate'
    BY DEF Gate
<1>1. config' = config /\ rows' = rows /\ ref' = ref
    BY DEF StartRow, ReferenceRow, Validate, job
<1>2. RowOfStep /\ RefOfStep /\ AllGated /\ Recorded' = Recorded /\ config.validate
    BY <1>1, SameRecorded DEF GInv, Gate
<1>3. AllGated'
    BY <1>1, <1>2 DEF AllGated, Gated, Engine, Succeeded
<1>4. StrictFailed' = StrictFailed
    BY <1>1, <1>2 DEF StrictFailed, Succeeded
<1>5. CASE StartRow
    <2> PICK k \in 1..Len(jobs) : /\ pc' = jobs[k].runtime
                                  /\ row' = NewRow(jobs[k].runtime, jobs[k].engine, "engine")
        BY <1>5 DEF StartRow, Goto
    <2>1. pc' \in {"hipdnn", "rocke"} /\ row'.role = "engine" /\ row'.status = "success"
        BY <1>2 DEF GInv, NoTorch, NewRow
    <2>2. RowOfStep' /\ RefOfStep'
        BY <1>1, <1>2, <1>4, <2>1
           DEF RowOfStep, RefOfStep, EngineSteps, ReferenceSteps, BeforeReference,
               AfterReferenceRow, Judged, Succeeded
    <2> QED BY <1>3, <2>2 DEF Gate
<1>6. CASE ReferenceRow
    <2>1. pc' = "pytorch_reference" /\ row'.role = "reference" /\ row'.status = "success"
        BY <1>6 DEF ReferenceRow, NewRow, Goto
    <2>2. RowOfStep' /\ RefOfStep'
        BY <1>1, <1>2, <1>4, <1>6, <2>1
           DEF RowOfStep, RefOfStep, EngineSteps, ReferenceSteps, BeforeReference,
               AfterReferenceRow, Judged, Succeeded, ReferenceRow
    <2> QED BY <1>3, <2>2 DEF Gate
<1>7. CASE Validate
    <2>1. /\ row'.role = row.role /\ row'.status = row.status /\ row'.verdict \in Verdicts
          /\ pc' \in {"mark_tuned", "release", "finish"} /\ row.role = "engine"
        BY <1>2, <1>7 DEF Validate, IInv, RowsUntuned, Untuned, Goto, RowOfStep, EngineSteps
    <2>2. Gated(row)'
        BY <1>1, <1>2, <2>1 DEF Verdicts, Gated, NoReference
    <2>3. RowOfStep' /\ RefOfStep'
        BY <1>1, <1>2, <1>4, <2>1, <2>2
           DEF RowOfStep, RefOfStep, EngineSteps, ReferenceSteps, BeforeReference,
               AfterReferenceRow, Judged, Succeeded
    <2> QED BY <1>3, <2>3 DEF Gate
<1> QED BY <1>5, <1>6, <1>7

(* An attempt or a process begins: nothing is recorded, nothing is known.  *)
LEMMA ResetGate == Start \/ Rerun \/ Killed => Gate'
<1> SUFFICES ASSUME Start \/ Rerun \/ Killed PROVE Gate'
    OBVIOUS
<1>1. rows' = <<>> /\ row' = Blank /\ ref' = NoRef /\ pc' \in {"plan", "idle"}
    BY DEF Start, Rerun, Killed, StartAttempt, FreshRows, Goto
<1>2. Recorded' = {}
    BY <1>1, NoneRecordedNext
<1> QED
    BY <1>1, <1>2
       DEF Gate, RowOfStep, RefOfStep, AllGated, EngineSteps, ReferenceSteps, BeforeReference,
           AfterReferenceRow, Judged, StrictFailed, Blank, NoRef

LEMMA NoTorchStep == IInv /\ NoTorch /\ Next => NoTorch'
<1> SUFFICES ASSUME IInv, NoTorch, Next PROVE NoTorch'
    OBVIOUS
<1> USE GraphRunAssumption DEF NoTorch
<1>1. CASE Plan
    BY <1>1, PlanJobs DEF IInv
<1>2. CASE Start \/ Rerun
    BY <1>2 DEF Start, Rerun, StartAttempt, Unstalled, IInv, ConfigOK, SuiteConfigs
<1>3. CASE Killed
    BY <1>3 DEF Killed
<1>4. ASSUME UNCHANGED <<planned, config, jobs>> PROVE NoTorch'
    BY <1>4
<1>5. CASE \/ GenerateInputs \/ InputsFail \/ StartRow \/ RowsDone \/ BuildFails \/ Build
           \/ BuildTuned \/ Allocate \/ StepFails \/ Measure \/ Fallback \/ Validate
    BY <1>4, <1>5
       DEF job, GenerateInputs, InputsFail, StartRow, RowsDone, BuildFails, Build, BuildTuned,
           Allocate, StepFails, Measure, Fallback, Validate
<1>6. CASE \/ MarkTuned \/ LaunchTuned \/ Release \/ Profile \/ FinishRow \/ MeasurePytorch
           \/ PytorchFails \/ Extract \/ PytorchDone \/ PytorchChild
    BY <1>4, <1>6
       DEF job, MarkTuned, LaunchTuned, Release, Profile, FinishRow, MeasurePytorch,
           PytorchFails, Extract, PytorchDone, PytorchChild
<1>7. CASE \/ PytorchUnsupported \/ NoProvider \/ ReferenceRow \/ ChooseReference \/ Float64
           \/ Float64CopyRaises \/ HostReference
    BY <1>4, <1>7
       DEF job, PytorchUnsupported, NoProvider, ReferenceRow, ChooseReference, Float64,
           Float64CopyRaises, HostReference
<1> QED BY <1>1, <1>2, <1>3, <1>5, <1>6, <1>7 DEF Next, Run

(* The inductive invariant behind the gate.                                *)
THEOREM GateInductive == Spec => []GInv
<1>1. IInv /\ GInv /\ [Next]_vars => GInv'
    <2> SUFFICES ASSUME IInv, GInv, [Next]_vars PROVE GInv'
        OBVIOUS
    <2>1. CASE Next
        <3>1. NoTorch'
            BY <2>1, NoTorchStep DEF GInv
        <3>2. Gate'
            BY <2>1, AsideGate, EndGate, ReferenceGate, RowGate, ResetGate DEF Next, Run
        <3> QED BY <3>1, <3>2 DEF GInv
    <2>2. CASE UNCHANGED vars
        BY <2>2 DEF vars, GInv, NoTorch, Gate, RowOfStep, RefOfStep, AllGated, Gated,
                    StrictFailed, Recorded, Succeeded
    <2> QED BY <2>1, <2>2
<1> QED BY <1>1, InitGate, Inductive, PTL DEF Spec

(* With --validate every recorded engine row that ran was compared with a  *)
(* reference or failed for want of one; only a reference too large for the *)
(* host lets it through unchecked.  (_validate_row(), _prepare_references())*)
THEOREM GateIsHard == Spec => []HardGate
<1>1. GInv => HardGate
    BY DEF GInv, Gate, AllGated, RefOfStep, Gated, HardGate
<1> QED BY <1>1, GateInductive, PTL

-----------------------------------------------------------------------------
(* The modes of the rows.                                                  *)

(* From its timing on a row is in the mode of the attempt, or in events    *)
(* mode if it is not hipDNN's.                                             *)
Timed(r) == /\ r.mode # "none" /\ (r.mode = "staged" => config.stall)
            /\ r.runtime = "hipdnn" => r.mode = Mode
AfterTiming == {"validate", "mark_tuned", "launch_tuned", "release", "profile", "finish",
                "extract", "pytorch_done", "pytorch_child"}
ModeInv ==
  /\ pc \in AfterTiming => Timed(row)
  /\ \A r \in Recorded : Succeeded(r) => Timed(r)

LEMMA SameTimed ==
  ASSUME UNCHANGED <<config, rows>>, ModeInv PROVE (\A r \in Recorded : Succeeded(r) => Timed(r))'
<1>1. Recorded' = Recorded
    BY SameRecorded
<1> QED BY <1>1 DEF ModeInv, Timed, Mode, Succeeded

LEMMA UnderwayMode == IInv /\ ModeInv /\ Underway => ModeInv'
<1> SUFFICES ASSUME IInv, ModeInv, Underway PROVE ModeInv'
    OBVIOUS
<1>1. UNCHANGED <<rows, config>>
    BY DEF Underway, Build, BuildTuned, Allocate, Measure, Fallback, Validate, MarkTuned,
           LaunchTuned, Release, Profile, MeasurePytorch, Extract, PytorchDone, PytorchChild, job
<1>2. (\A r \in Recorded : Succeeded(r) => Timed(r))'
    BY <1>1, SameTimed
<1> USE DEF AfterTiming, Goto
<1>3. row \in Untuned
    BY DEF IInv, RowsUntuned
<1>4. CASE Measure \/ MeasurePytorch
    <2>1. row'.runtime = row.runtime /\ row'.mode \in ModesOf(row.runtime)
        BY <1>3, <1>4 DEF Measure, MeasurePytorch, Untuned
    <2>2. Timed(row)'
        BY <1>1, <2>1 DEF ModesOf, Timed, Mode
    <2> QED BY <1>2, <2>2 DEF ModeInv
<1>5. CASE Build \/ BuildTuned \/ Allocate \/ Fallback
    <2>1. pc' \notin AfterTiming
        BY <1>5 DEF Build, BuildTuned, Allocate, Fallback
    <2> QED BY <1>2, <2>1 DEF ModeInv
<1>6. CASE Validate \/ MarkTuned \/ LaunchTuned \/ Release \/ Profile \/ Extract \/ PytorchDone
           \/ PytorchChild
    <2>1. row'.runtime = row.runtime /\ row'.mode = row.mode
        BY <1>3, <1>6 DEF Validate, MarkTuned, LaunchTuned, Release, Profile, Extract,
                          PytorchDone, PytorchChild, Untuned
    <2>2. pc \in AfterTiming
        BY <1>6 DEF Validate, MarkTuned, LaunchTuned, Release, Profile, Extract,
                    PytorchDone, PytorchChild
    <2> QED BY <1>1, <1>2, <2>1, <2>2 DEF ModeInv, Timed, Mode
<1> QED BY <1>4, <1>5, <1>6 DEF Underway

LEMMA AppendMode ==
  /\ IInv /\ ModeInv
  /\ BuildFails \/ StepFails \/ FinishRow \/ PytorchFails \/ PytorchUnsupported
  => ModeInv'
<1> SUFFICES ASSUME IInv, ModeInv,
                    BuildFails \/ StepFails \/ FinishRow \/ PytorchFails \/ PytorchUnsupported
             PROVE  ModeInv'
    OBVIOUS
<1> DEFINE Failed(status) ==
             [NewRow(row.runtime, row.engine, row.role) EXCEPT !.status = status]
<1>1. \A status \in {"error", "skipped"} : Failed(status) \in Untuned /\ ~Succeeded(Failed(status))
    <2> SUFFICES ASSUME NEW status \in {"error", "skipped"}
                 PROVE  Failed(status) \in Untuned /\ Failed(status).status = status
        BY DEF Succeeded
    <2>1. /\ row.runtime \in Runtimes \cup {"none"} /\ row.engine \in Engines \cup {0}
          /\ row.role \in {"engine", "reference", "none"} /\ ConfigOK
        BY DEF IInv, RowsUntuned, Untuned
    <2>2. Failed(status) \in Untuned
        BY <2>1, NewRowUntuned
    <2> QED BY <2>2 DEF NewRow
<1>2. row \in Untuned /\ (FinishRow => Timed(row))
    BY DEF IInv, RowsUntuned, ModeInv, AfterTiming, FinishRow
<1>3. PICK r \in Untuned : Append1(r) /\ (Succeeded(r) => Timed(r))
    <2>1. CASE FinishRow
        BY <1>2, <2>1 DEF FinishRow
    <2>2. CASE ~FinishRow
        <3>1. PICK status \in {"error", "skipped"} : FailedRow(status)
            BY <2>2 DEF BuildFails, StepFails, PytorchFails, PytorchUnsupported
        <3> QED BY <1>1, <3>1 DEF FailedRow
    <2> QED BY <2>1, <2>2
<1>4. Recorded' = Recorded \cup {r} /\ config' = config
    BY <1>3, OneRecorded DEF Append1, IInv, RowsUntuned, BuildFails, StepFails, FinishRow,
                             PytorchFails, PytorchUnsupported, job
<1>5. pc' \in {"choose_reference", "rows"}
    BY <1>3 DEF Append1, Goto
<1> QED BY <1>3, <1>4, <1>5 DEF ModeInv, Timed, Mode, Succeeded, AfterTiming

LEMMA ModeStep == IInv /\ ModeInv /\ [Next]_vars => ModeInv'
<1> SUFFICES ASSUME IInv, ModeInv, [Next]_vars PROVE ModeInv'
    OBVIOUS
<1> USE DEF AfterTiming, Goto
<1>1. CASE Start \/ Rerun \/ Killed
    <2>1. Recorded' = {} /\ pc' \in {"plan", "idle"}
        BY <1>1, NoneRecordedNext DEF Start, Rerun, Killed, StartAttempt, FreshRows
    <2> QED BY <2>1 DEF ModeInv
<1>2. CASE StartRow
    <2>1. PICK k \in 1..Len(jobs) : /\ row' = NewRow(jobs[k].runtime, jobs[k].engine, "engine")
                                    /\ pc' = jobs[k].runtime
        BY <1>2 DEF StartRow
    <2>2. row'.runtime = pc'
        BY <2>1 DEF NewRow
    <2>3. pc' \in Runtimes
        BY <2>1, JobFields DEF IInv
    <2>4. (\A r \in Recorded : Succeeded(r) => Timed(r))'
        BY <1>2, SameTimed DEF StartRow, job
    <2> QED BY <2>2, <2>3, <2>4 DEF Runtimes, ModeInv
<1>3. CASE ReferenceRow
    BY <1>3, SameTimed DEF ReferenceRow, NewRow, ModeInv, job
<1>4. CASE Plan \/ GenerateInputs \/ InputsFail \/ RowsDone \/ NoProvider \/ ChooseReference
           \/ Float64 \/ Float64CopyRaises \/ HostReference
    <2>1. UNCHANGED <<config, rows>>
        BY <1>4 DEF Plan, GenerateInputs, InputsFail, RowsDone, NoProvider, ChooseReference,
                    Float64, Float64CopyRaises, HostReference, job
    <2>2. pc' \in {"plan", "reference", "rows", "result", "float64", "host_reference", "raised"}
        BY <1>4 DEF Plan, GenerateInputs, InputsFail, RowsDone, NoProvider, ChooseReference,
                    Float64, Float64CopyRaises, HostReference
    <2> QED BY <2>1, <2>2, SameTimed DEF ModeInv
<1>5. CASE UNCHANGED vars
    BY <1>5, SameTimed DEF vars, ModeInv, Timed, Mode
<1> QED BY <1>1, <1>2, <1>3, <1>4, <1>5, UnderwayMode, AppendMode DEF Next, Run, Underway

(* The hipDNN rows of a graph were timed in one mode, and its rocKE and    *)
(* PyTorch rows in it or in events mode, whichever rows failed, fell back  *)
(* or were killed (run_graph(), measure()).                                *)
THEOREM EnginesAgree == Spec => []EnginesShareMode
<1>1. Init => ModeInv
    BY NoneRecorded DEF Init, ModeInv, AfterTiming
<1>2. ModeInv => EnginesShareMode
    BY DEF ModeInv, Timed, Mode, EnginesShareMode
<1> QED BY <1>1, <1>2, ModeStep, Inductive, PTL DEF Spec

-----------------------------------------------------------------------------
(* run_graph() ends.                                                       *)

(* How far run_graph() is from its end: the attempts, the stage of this    *)
(* one, the planners or rows to go in it, the steps of the row.            *)
Over == {"idle", "fallback", "result", "raised"}
ForReference == {"reference", "pytorch_reference", "extract", "choose_reference", "float64",
                 "host_reference"}
Shared == {"pytorch_done", "pytorch_child", "finish"}

Stage ==
  IF pc \in Over THEN 0
  ELSE IF pc = "plan" THEN 3
  ELSE IF pc \in ForReference \/ (pc \in Shared /\ row.role = "reference") THEN 2
  ELSE 1

ToGo ==
  IF Stage = 3 THEN Len(config.runtimes) - planned
  ELSE IF Stage = 1 THEN Ahead + Len(jobs) - Len(rows)
  ELSE 0

StepsToGo ==
  [idle |-> 0, fallback |-> 0, result |-> 0, raised |-> 0, plan |-> 0,
   host_reference |-> 0, float64 |-> 1, choose_reference |-> 2,
   finish |-> 3, pytorch_unsupported |-> 3, profile |-> 4, pytorch_child |-> 4,
   release |-> 5, pytorch_done |-> 5, launch_tuned |-> 6, extract |-> 6, pytorch |-> 6,
   mark_tuned |-> 7, pytorch_reference |-> 7, validate |-> 8, reference |-> 8,
   measure |-> 9, allocate |-> 10, rocke |-> 10, build_tuned |-> 11, hipdnn |-> 12, rows |-> 13]

Rank == <<IF config.stall THEN 1 ELSE 0, Stage, ToGo, StepsToGo[pc]>>

(* Every step of run_graph() brings its end nearer, also the rerun after a *)
(* stall failure: no planner, row, reference or tuned launch can be done   *)
(* again and again.  (run_graph(), _run_graph(), _prepare_references())    *)
RunDescends == [][Run => Below(Rank', Rank)]_vars

ForEngine == {"hipdnn", "rocke", "pytorch", "pytorch_unsupported", "build_tuned", "allocate",
              "measure", "validate", "mark_tuned", "launch_tuned", "release", "profile"}

(* A rerun follows a stalled attempt, and whose row a step fills.          *)
RoleInv ==
  /\ pc = "fallback" => config.stall
  /\ pc \in ForEngine => row.role = "engine"
  /\ pc \in {"pytorch_reference", "extract"} => row.role = "reference"

LEMMA RoleStep == IInv /\ RoleInv /\ [Next]_vars => RoleInv'
<1> SUFFICES ASSUME IInv, RoleInv, [Next]_vars PROVE RoleInv'
    OBVIOUS
<1> USE DEF RoleInv, ForEngine, Goto
<1>1. CASE Underway
    <2>1. row'.role = row.role /\ config' = config
        BY <1>1 DEF Underway, Build, BuildTuned, Allocate, Measure, Fallback, Validate, MarkTuned,
               LaunchTuned, Release, Profile, MeasurePytorch, Extract, PytorchDone,
               PytorchChild, job, IInv, RowsUntuned, Untuned
    <2>2. CASE Build \/ BuildTuned \/ Allocate \/ Measure \/ Validate \/ MarkTuned \/ LaunchTuned
        BY <2>1, <2>2 DEF Build, BuildTuned, Allocate, Measure, Validate, MarkTuned,
                          LaunchTuned, Hip
    <2>3. CASE Fallback \/ Release \/ Profile \/ MeasurePytorch \/ Extract \/ PytorchDone
               \/ PytorchChild
        BY <2>1, <2>3 DEF Fallback, Release, Profile, MeasurePytorch, Extract, PytorchDone,
                          PytorchChild
    <2> QED BY <1>1, <2>2, <2>3 DEF Underway
<1>2. CASE StartRow
    <2>1. PICK k \in 1..Len(jobs) : /\ row' = NewRow(jobs[k].runtime, jobs[k].engine, "engine")
                                    /\ pc' = jobs[k].runtime
        BY <1>2 DEF StartRow
    <2>2. row'.role = "engine"
        BY <2>1 DEF NewRow
    <2>3. pc' \in Runtimes
        BY <2>1, JobFields DEF IInv
    <2> QED BY <2>2, <2>3 DEF Runtimes
<1>3. CASE ReferenceRow
    BY <1>3 DEF ReferenceRow, NewRow
<1>4. CASE BuildFails \/ StepFails \/ FinishRow \/ PytorchFails \/ PytorchUnsupported
    <2>1. pc' \in {"choose_reference", "rows"}
        BY <1>4 DEF BuildFails, StepFails, FinishRow, PytorchFails, PytorchUnsupported,
                    FailedRow, Append1
    <2> QED BY <2>1
<1>5. CASE Start \/ Killed \/ Rerun
    <2>1. pc' \in {"plan", "idle"}
        BY <1>5 DEF Start, Killed, Rerun, StartAttempt
    <2> QED BY <2>1
<1>6. CASE Plan \/ GenerateInputs \/ InputsFail \/ RowsDone \/ NoProvider \/ ChooseReference
           \/ Float64 \/ Float64CopyRaises \/ HostReference
    <2>1. pc' \in {"plan", "reference", "rows", "result", "float64", "host_reference", "raised"}
        BY <1>6 DEF Plan, GenerateInputs, InputsFail, RowsDone, NoProvider, ChooseReference,
                    Float64, Float64CopyRaises, HostReference
    <2> QED BY <2>1
<1>7. CASE UNCHANGED vars
    BY <1>7 DEF vars
<1> QED BY <1>1, <1>2, <1>3, <1>4, <1>5, <1>6, <1>7 DEF Next, Run, Underway

(* What the rank rests on.                                                 *)
EndInv == IInv /\ TInv /\ OrderInv /\ RoleInv

(* In an attempt's rows there is one to go while one is under way.         *)
LEMMA RowsToGo ==
  EndInv /\ Stage = 1 =>
    /\ ToGo = Ahead + Len(jobs) - Len(rows) /\ ToGo \in Nat
    /\ pc # "rows" => ToGo # 0 /\ row.role = "engine"
<1> SUFFICES ASSUME EndInv, Stage = 1
             PROVE  /\ ToGo = Ahead + Len(jobs) - Len(rows) /\ ToGo \in Nat
                    /\ pc # "rows" => ToGo # 0 /\ row.role = "engine"
    OBVIOUS
<1> DEFINE n == Len(rows)
<1>0. \A x, y, z \in Nat :
        /\ (x > y => x - y <= z) => y + z - x \in Nat
        /\ x + 1 - y \in 1..z => y + z - x \in Nat /\ y + z - x # 0
    OBVIOUS
<1>1. n \in Nat /\ Ahead \in Nat /\ Len(jobs) \in Nat
    BY DEF EndInv, IInv, RowsUntuned, JobsOK, Ahead
<1>2. ToGo = Ahead + Len(jobs) - n
    BY DEF ToGo
<1>3. CASE pc = "rows"
    <2>1. n > Ahead => n - Ahead <= Len(jobs)
        BY <1>1 DEF EndInv, OrderInv, InOrder, KeepsPromise
    <2>2. Ahead + Len(jobs) - n \in Nat
        BY <1>0, <1>1, <2>1
    <2> QED BY <1>2, <1>3, <2>2
<1>4. CASE pc # "rows"
    <2>1. pc \notin NoRow /\ row.role # "reference"
        BY <1>4 DEF Stage, Over, ForReference, Shared, NoRow, EndInv, RoleInv, ForEngine, TInv,
                    Rest, Steps
    <2>2. row.role = "engine" /\ n + 1 - Ahead \in 1..Len(jobs)
        BY <2>1 DEF EndInv, OrderInv, IsNext, KeepsPromise
    <2>3. Ahead + Len(jobs) - n \in Nat /\ Ahead + Len(jobs) - n # 0
        BY <1>0, <1>1, <2>2
    <2> QED BY <1>2, <2>2, <2>3
<1> QED BY <1>3, <1>4

LEMMA StepsToGoType == \A p \in Steps : StepsToGo[p] \in Nat
BY DEF Steps, StepsToGo

LEMMA RankIsNat == EndInv => Rank \in Ranks
<1> SUFFICES ASSUME EndInv PROVE Rank \in Ranks
    OBVIOUS
<1>1. StepsToGo[pc] \in Nat
    BY StepsToGoType DEF EndInv, TInv, Rest
<1>2. Stage \in Nat
    BY DEF Stage
<1>3. ToGo \in Nat
    <2>1. CASE Stage = 1
        BY <2>1, RowsToGo
    <2>2. CASE Stage = 3
        <3>1. planned \in 0..Len(config.runtimes) /\ Len(config.runtimes) \in Nat
            BY DEF EndInv, TInv, Rest, IInv, ConfigOK, SuiteConfigs
        <3> QED BY <2>2, <3>1 DEF ToGo
    <2>3. CASE Stage \notin {1, 3}
        BY <2>3 DEF ToGo
    <2> QED BY <2>1, <2>2, <2>3
<1> QED BY <1>1, <1>2, <1>3 DEF Rank, Ranks

(* Rank r is below s when it is lower in the first place they differ in.   *)
LEMMA LowerPlace ==
  ASSUME NEW r \in Ranks, NEW s \in Ranks,
         \/ r[1] < s[1]
         \/ r[1] = s[1] /\ r[2] < s[2]
         \/ r[1] = s[1] /\ r[2] = s[2] /\ r[3] < s[3]
         \/ r[1] = s[1] /\ r[2] = s[2] /\ r[3] = s[3] /\ r[4] < s[4]
  PROVE  Below(r, s)
<1>1. /\ 1..0 = {} /\ 1..1 = {1} /\ 1..2 = {1, 2} /\ 1..3 = {1, 2, 3}
      /\ 1..4 = {1, 2, 3, 4}
    OBVIOUS
<1>2. /\ r[1] < s[1] => \E k \in 1..4 : r[k] < s[k] /\ \A j \in 1..(k - 1) : r[j] = s[j]
      /\ r[1] = s[1] /\ r[2] < s[2] =>
           \E k \in 1..4 : r[k] < s[k] /\ \A j \in 1..(k - 1) : r[j] = s[j]
      /\ r[1] = s[1] /\ r[2] = s[2] /\ r[3] < s[3] =>
           \E k \in 1..4 : r[k] < s[k] /\ \A j \in 1..(k - 1) : r[j] = s[j]
      /\ r[1] = s[1] /\ r[2] = s[2] /\ r[3] = s[3] /\ r[4] < s[4] =>
           \E k \in 1..4 : r[k] < s[k] /\ \A j \in 1..(k - 1) : r[j] = s[j]
    BY <1>1
<1> QED BY <1>2 DEF Below, Ranks

LEMMA RankFalls ==
  ASSUME EndInv, EndInv',
         \/ config.stall /\ ~config'.stall
         \/ config' = config /\ Stage' < Stage
         \/ config' = config /\ Stage' = Stage /\ ToGo' < ToGo
         \/ config' = config /\ Stage' = Stage /\ ToGo' = ToGo /\ StepsToGo[pc'] < StepsToGo[pc]
  PROVE  Below(Rank', Rank)
<1>1. Rank \in Ranks
    BY RankIsNat
<1>2. Rank' \in Ranks
    <2>1. (EndInv => Rank \in Ranks)'
        BY RankIsNat, PTL
    <2> QED BY <2>1
<1>3. /\ Rank[1] = IF config.stall THEN 1 ELSE 0
      /\ Rank[2] = Stage /\ Rank[3] = ToGo /\ Rank[4] = StepsToGo[pc]
    BY DEF Rank
<1>4. /\ Rank'[1] = IF config'.stall THEN 1 ELSE 0
      /\ Rank'[2] = Stage' /\ Rank'[3] = ToGo' /\ Rank'[4] = StepsToGo[pc']
    BY DEF Rank, StepsToGo
<1>5. \/ Rank'[1] < Rank[1]
      \/ Rank'[1] = Rank[1] /\ Rank'[2] < Rank[2]
      \/ Rank'[1] = Rank[1] /\ Rank'[2] = Rank[2] /\ Rank'[3] < Rank[3]
      \/ Rank'[1] = Rank[1] /\ Rank'[2] = Rank[2] /\ Rank'[3] = Rank[3] /\ Rank'[4] < Rank[4]
    BY <1>3, <1>4
<1> QED BY <1>1, <1>2, <1>5, LowerPlace

(* The stages of an attempt come in order.                                 *)
LEMMA StageFalls ==
  ASSUME EndInv,
         \/ GenerateInputs \/ InputsFail \/ RowsDone \/ Fallback \/ NoProvider
         \/ Float64CopyRaises
         \/ (ChooseReference \/ Float64 \/ HostReference) /\ pc' = "rows"
  PROVE  config' = config /\ Stage' < Stage
<1> USE DEF Goto, PlansDone, job, Over, ForReference, Shared
<1>1. CASE GenerateInputs \/ InputsFail
    <2>1. pc = "plan" /\ pc' \in {"reference", "rows", "result"} /\ config' = config
        BY <1>1 DEF GenerateInputs, InputsFail
    <2> QED BY <2>1 DEF Stage
<1>2. CASE RowsDone
    <2>1. pc = "rows" /\ pc' = "result" /\ config' = config
        BY <1>2 DEF RowsDone
    <2> QED BY <2>1 DEF Stage
<1>3. CASE Fallback
    <2>1. /\ pc \in {"measure", "pytorch", "pytorch_reference", "launch_tuned"}
          /\ pc' = "fallback" /\ config' = config
        BY <1>3 DEF Fallback
    <2> QED BY <2>1 DEF Stage
<1>4. CASE NoProvider \/ Float64CopyRaises
           \/ ((ChooseReference \/ Float64 \/ HostReference) /\ pc' = "rows")
    <2>1. /\ pc \in ForReference /\ pc' \in {"rows", "raised"} /\ config' = config
        BY <1>4 DEF NoProvider, Float64CopyRaises, ChooseReference, Float64, HostReference
    <2> QED BY <2>1 DEF Stage
<1> QED BY <1>1, <1>2, <1>3, <1>4

(* A planner is done.                                                      *)
LEMMA PlanFalls ==
  ASSUME EndInv, Plan PROVE config' = config /\ Stage' = Stage /\ ToGo' < ToGo
<1>1. /\ pc = "plan" /\ pc' = pc /\ config' = config /\ planned' = planned + 1
      /\ planned < Len(config.runtimes)
    BY DEF Plan
<1>2. Stage = 3 /\ Stage' = 3
    BY <1>1 DEF Stage, Over
<1>3. planned \in Nat /\ Len(config.runtimes) \in Nat
    BY DEF EndInv, TInv, Rest, IInv, ConfigOK, SuiteConfigs
<1> QED BY <1>1, <1>2, <1>3 DEF ToGo

(* A step of the row under way or of the reference.                        *)
LEMMA StepFalls ==
  ASSUME EndInv,
         \/ Underway /\ ~Fallback
         \/ StartRow \/ ReferenceRow
         \/ (ChooseReference \/ Float64 \/ HostReference) /\ pc' # "rows"
  PROVE  /\ config' = config /\ Stage' = Stage /\ ToGo' = ToGo
         /\ StepsToGo[pc'] < StepsToGo[pc]
<1> USE DEF Goto, job, Over, ForReference, Shared
<1> DEFINE Kept == UNCHANGED <<config, planned, rows, jobs>>
<1>1. CASE Underway /\ ~Fallback
    <2>1. Kept /\ row'.role = row.role
        BY <1>1 DEF Underway, Build, BuildTuned, Allocate, Measure, Validate, MarkTuned,
               LaunchTuned, Release, Profile, MeasurePytorch, Extract, PytorchDone,
               PytorchChild, EndInv, IInv, RowsUntuned, Untuned
    <2>2. row.role \in {"engine", "reference"}
        <3>1. pc \notin NoRow
            BY <1>1 DEF Underway, Build, BuildTuned, Allocate, Measure, Validate, MarkTuned,
                   LaunchTuned, Release, Profile, MeasurePytorch, Extract, PytorchDone,
                   PytorchChild, Hip, NoRow
        <3> QED BY <3>1 DEF EndInv, TInv, RowsWhole, Whole, IInv, RowsUntuned, Untuned
    <2>3. CASE Build \/ BuildTuned \/ Allocate \/ Measure \/ Validate \/ MarkTuned \/ LaunchTuned
               \/ Release \/ Profile
        <3>1. row.role = "engine"
            BY <2>3 DEF Build, BuildTuned, Allocate, Measure, Validate, MarkTuned, LaunchTuned,
                        Release, Profile, Hip, EndInv, RoleInv, ForEngine
        <3>2. /\ pc \in ForEngine /\ pc \notin {"pytorch", "pytorch_unsupported"}
              /\ pc' \in (ForEngine \cup {"finish"}) \ {"pytorch", "pytorch_unsupported"}
              /\ StepsToGo[pc'] < StepsToGo[pc]
            BY <2>3 DEF Build, BuildTuned, Allocate, Measure, Validate, MarkTuned, LaunchTuned,
                        Release, Profile, Hip, ForEngine, StepsToGo
        <3>3. Stage = 1 /\ Stage' = 1
            BY <2>1, <3>1, <3>2 DEF Stage, ForEngine
        <3> QED BY <2>1, <3>2, <3>3 DEF ToGo, Ahead
    <2>4. CASE MeasurePytorch \/ Extract \/ PytorchDone \/ PytorchChild
        <3>0. /\ pc = "pytorch" => row.role = "engine"
              /\ pc \in {"pytorch_reference", "extract"} => row.role = "reference"
            BY DEF EndInv, RoleInv, ForEngine
        <3>1. /\ pc \in {"pytorch", "pytorch_reference", "extract", "pytorch_done",
                         "pytorch_child"}
              /\ pc' \in {"extract", "pytorch_done", "pytorch_child", "finish"}
              /\ pc' = "extract" => row.role = "reference"
              /\ StepsToGo[pc'] < StepsToGo[pc]
            BY <2>4, <3>0 DEF MeasurePytorch, Extract, PytorchDone, PytorchChild, StepsToGo
        <3>2. /\ Stage = IF row.role = "reference" THEN 2 ELSE 1
              /\ Stage' = IF row.role = "reference" THEN 2 ELSE 1
            <4>1. Stage = IF row.role = "reference" THEN 2 ELSE 1
                BY <2>2, <3>0, <3>1 DEF Stage
            <4>2. Stage' = IF row.role = "reference" THEN 2 ELSE 1
                BY <2>1, <2>2, <3>0, <3>1 DEF Stage
            <4> QED BY <4>1, <4>2
        <3>3. Stage' = Stage
            BY <3>2
        <3> QED BY <2>1, <3>1, <3>3 DEF ToGo, Ahead
    <2> QED BY <1>1, <2>3, <2>4 DEF Underway
<1>2. CASE StartRow
    <2>1. PICK k \in 1..Len(jobs) : pc' = jobs[k].runtime
        BY <1>2 DEF StartRow
    <2>2. pc' \in Runtimes
        BY <2>1, JobFields DEF EndInv, IInv
    <2>3. Kept /\ pc = "rows" /\ StepsToGo[pc'] < StepsToGo[pc]
        <3>1. Kept /\ pc = "rows"
            BY <1>2 DEF StartRow, job
        <3>2. \A q \in Runtimes : StepsToGo[q] < StepsToGo["rows"]
            BY DEF Runtimes, StepsToGo
        <3> QED BY <2>2, <3>1, <3>2
    <2>4. Stage = 1 /\ Stage' = 1
        BY <2>2, <2>3 DEF Stage, Runtimes
    <2> QED BY <2>3, <2>4 DEF ToGo, Ahead
<1>3. CASE ReferenceRow \/ ((ChooseReference \/ Float64 \/ HostReference) /\ pc' # "rows")
    <2>1. /\ Kept /\ pc \in ForReference /\ pc' \in ForReference
          /\ StepsToGo[pc'] < StepsToGo[pc]
        BY <1>3 DEF ReferenceRow, ChooseReference, Float64, HostReference, StepsToGo
    <2>2. Stage = 2 /\ Stage' = 2
        BY <2>1 DEF Stage
    <2> QED BY <2>1, <2>2 DEF ToGo
<1> QED BY <1>1, <1>2, <1>3

(* A row is recorded: an engine's is one to go less.                       *)
LEMMA AppendFalls ==
  ASSUME EndInv, EndInv',
         BuildFails \/ StepFails \/ FinishRow \/ PytorchFails \/ PytorchUnsupported
  PROVE  /\ config' = config /\ Stage' = Stage
         /\ ToGo' < ToGo \/ (ToGo' = ToGo /\ StepsToGo[pc'] < StepsToGo[pc])
<1> USE DEF Over, ForReference, Shared
<1>1. UNCHANGED <<jobs, config>> /\ pc \notin NoRow
    BY DEF BuildFails, StepFails, FinishRow, PytorchFails, PytorchUnsupported, NoRow, job
<1>2. PICK r : Append1(r) /\ r.role = row.role
    <2>1. ASSUME NEW status, FailedRow(status) PROVE \E r : Append1(r) /\ r.role = row.role
        <3> DEFINE r == [NewRow(row.runtime, row.engine, row.role) EXCEPT !.status = status]
        <3>1. r.role = row.role
            BY DEF NewRow
        <3> HIDE DEF r
        <3> QED BY <2>1, <3>1 DEF FailedRow, r
    <2>2. (\E status : FailedRow(status)) \/ Append1(row)
        BY DEF BuildFails, StepFails, FinishRow, PytorchFails, PytorchUnsupported
    <2> QED BY <2>1, <2>2
<1>3. /\ rows' = Append(rows, r) /\ row' = Blank
      /\ pc' = IF row.role = "reference" THEN "choose_reference" ELSE "rows"
    BY <1>2 DEF Append1, Goto
<1>4. rows \in Seq(Untuned)
    BY DEF EndInv, IInv, RowsUntuned
<1>5. CASE row.role = "reference"
    <2>1. pc \in {"pytorch_reference", "extract"} \cup Shared
        BY <1>1, <1>5 DEF EndInv, RoleInv, ForEngine, TInv, Rest, Steps, NoRow
    <2>2. Stage = 2
        BY <1>5, <2>1 DEF Stage
    <2>3. Stage' = 2
        BY <1>3, <1>5 DEF Stage
    <2>4. StepsToGo[pc'] < StepsToGo[pc]
        BY <1>3, <1>5, <2>1 DEF StepsToGo
    <2> QED BY <1>1, <2>2, <2>3, <2>4 DEF ToGo
<1>6. CASE row.role # "reference"
    <2>1. pc' = "rows" /\ Stage' = 1
        BY <1>3, <1>6 DEF Stage
    <2>2. pc \notin {"pytorch_reference", "extract"} /\ pc # "rows"
        BY <1>1, <1>6 DEF EndInv, RoleInv, NoRow
    <2>3. Stage = 1
        BY <1>1, <1>6, <2>2 DEF Stage, NoRow
    <2>4. ToGo = Ahead + Len(jobs) - Len(rows)
        BY <2>3, RowsToGo
    <2>5. ToGo' = Ahead' + Len(jobs) - Len(rows')
        BY <1>1, <2>1 DEF ToGo
    <2>6. Len(rows') = Len(rows) + 1 /\ Len(rows) \in Nat /\ Len(jobs) \in Nat
        BY <1>3, <1>4 DEF EndInv, IInv, JobsOK
    <2>7. Ahead' = Ahead /\ Ahead \in Nat
        <3>1. CASE rows = <<>>
            BY <1>2, <1>3, <1>6, <3>1 DEF Ahead
        <3>2. CASE rows # <<>>
            <4>1. rows'[1] = rows[1] /\ rows' # <<>>
                BY <1>3, <1>4, <3>2
            <4> QED BY <3>2, <4>1 DEF Ahead
        <3> QED BY <3>1, <3>2
    <2>8. ToGo' < ToGo
        BY <2>4, <2>5, <2>6, <2>7
    <2> QED BY <1>1, <2>1, <2>3, <2>8
<1> QED BY <1>5, <1>6

(* Every step of run_graph() brings its end nearer, whatever the planners  *)
(* promise and whichever steps fail (run_graph(), _run_graph(),            *)
(* _prepare_references()).                                                 *)
THEOREM EndComesNearer == Spec => RunDescends
<1>1. ASSUME EndInv, EndInv', Run PROVE Below(Rank', Rank)
    <2>1. CASE Rerun
        <3>1. config.stall /\ ~config'.stall
            BY <1>1, <2>1 DEF Rerun, Unstalled, EndInv, RoleInv, IInv, ConfigOK, SuiteConfigs
        <3> QED BY <1>1, <3>1, RankFalls
    <2>2. CASE \/ GenerateInputs \/ InputsFail \/ RowsDone \/ Fallback \/ NoProvider
               \/ Float64CopyRaises
               \/ (ChooseReference \/ Float64 \/ HostReference) /\ pc' = "rows"
        BY <1>1, <2>2, StageFalls, RankFalls
    <2>3. CASE Plan
        BY <1>1, <2>3, PlanFalls, RankFalls
    <2>4. CASE \/ Underway /\ ~Fallback
               \/ StartRow \/ ReferenceRow
               \/ (ChooseReference \/ Float64 \/ HostReference) /\ pc' # "rows"
        BY <1>1, <2>4, StepFalls, RankFalls
    <2>5. CASE BuildFails \/ StepFails \/ FinishRow \/ PytorchFails \/ PytorchUnsupported
        BY <1>1, <2>5, AppendFalls, RankFalls
    <2> QED BY <1>1, <2>1, <2>2, <2>3, <2>4, <2>5 DEF Run, Underway
<1>2. Init => RoleInv
    BY DEF Init, RoleInv, ForEngine
<1>3. Spec => []RoleInv
    BY <1>2, RoleStep, Inductive, PTL DEF Spec
<1>4. Spec => []EndInv
    BY <1>3, Inductive, TypesInductive, OrderInductive, PTL DEF EndInv
<1>5. EndInv /\ EndInv' /\ [Next]_vars => [Run => Below(Rank', Rank)]_vars
    BY <1>1
<1> QED BY <1>4, <1>5, PTL DEF Spec, RunDescends

(* Ranks cannot fall for ever: run_graph() takes finitely many steps.      *)
THEOREM RanksEnd ==
  \A f \in [Nat -> Ranks] : \E n \in Nat : ~ Below(f[n + 1], f[n])
<1> SUFFICES ASSUME NEW f \in [Nat -> Ranks],
                    \A n \in Nat : Below(f[n + 1], f[n])
             PROVE  FALSE
    OBVIOUS
<1> DEFINE less == OpToRel(<, Nat)
           lex == LexProductOrdering(less, Nat, 4)
           g == [n \in Nat |-> [i \in 1..4 |-> f[n][i]]]
<1>1. IsWellFoundedOn(lex, [1..4 -> Nat])
    BY NatLessThanWellFounded, WFLexProductOrdering
<1>2. g \in [Nat -> [1..4 -> Nat]]
    <2>1. \A n \in Nat : \A i \in 1..4 : f[n][i] \in Nat
        <3> SUFFICES ASSUME NEW n \in Nat, NEW i \in 1..4 PROVE f[n][i] \in Nat
            OBVIOUS
        <3>1. f[n] \in Ranks /\ i \in {1, 2, 3, 4}
            OBVIOUS
        <3> QED BY <3>1 DEF Ranks
    <2> QED BY <2>1
<1>3. ASSUME NEW n \in Nat PROVE <<g[n + 1], g[n]>> \in lex
    <2>0. g[n] \in [1..4 -> Nat] /\ g[n + 1] \in [1..4 -> Nat]
        <3>1. n + 1 \in Nat
            OBVIOUS
        <3> HIDE DEF g
        <3> QED BY <1>2, <3>1
    <2>1. PICK k \in 1..4 : /\ f[n + 1][k] < f[n][k]
                            /\ \A j \in 1..(k - 1) : f[n + 1][j] = f[n][j]
        BY DEF Below
    <2>2. \A j \in 1..4 : g[n + 1][j] = f[n + 1][j] /\ g[n][j] = f[n][j]
        OBVIOUS
    <2>3. 1..(k - 1) \subseteq 1..4
        OBVIOUS
    <2> HIDE DEF g
    <2>4. g[n + 1][k] < g[n][k] /\ \A j \in 1..(k - 1) : g[n + 1][j] = g[n][j]
        BY <2>1, <2>2, <2>3
    <2>5. <<g[n + 1][k], g[n][k]>> \in less
        <3>1. g[n + 1][k] \in Nat /\ g[n][k] \in Nat
            BY <2>0
        <3> HIDE <2>0, <2>1, <2>2
        <3> QED BY <2>4, <3>1 DEF OpToRel
    <2> HIDE DEF less
    <2> QED BY <2>0, <2>4, <2>5 DEF LexProductOrdering
<1> HIDE DEF g, lex
<1> QED BY <1>1, <1>2, <1>3, Zenon DEF IsWellFoundedOn
=============================================================================
