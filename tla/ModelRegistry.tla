--------------------------- MODULE ModelRegistry ---------------------------
(***************************************************************************)
(* The life of a model: a benchmark run writes artifacts and their         *)
(* metadata file, the registry takes the version from candidate to active  *)
(* and back, and a process that starts loads what its configuration names. *)
(* The code is backend/model_benchmark.py, model_registry.py, the model    *)
(* endpoints of main.py and ModelDetector._load in inference.py.           *)
(*                                                                         *)
(* The state of a version is kept twice, in its row and in its metadata    *)
(* file; a request writes the files first and commits the rows after.  A   *)
(* file's bytes are the number of the benchmark run that wrote them, and   *)
(* so is its checksum.                                                     *)
(***************************************************************************)
EXTENDS DataSplits

CONSTANTS
    Run,           \* run ids: directories of artifacts
    Version,       \* pairs of a run and a type: the trained models that are followed
    Requested,     \* split strategies asked for
    Trained,       \* what a trained model answers: its classes and two samples
    ThresholdPolicy,
    Gates,         \* quality gates an administrator asks for
    MaxBenchmarks, \* bound
    MaxRequests,   \* bound
    MaxRestarts    \* bound

Type == {"transformer", "random_forest"}

\* Rates are not negative.
ASSUME RegistryAssumption ==
    /\ Version \subseteq Run \X Type
    /\ \A t \in Trained :
           /\ t.classes \in Seq(STRING) /\ t.classes # << >>
           /\ t.validation \in Sample(Len(t.classes)) /\ t.test \in Sample(Len(t.classes))
    /\ \A g \in Gates : g.falsePositives[1] \in Nat /\ g.falsePositives[2] \in Nat
    /\ MaxBenchmarks \in Nat /\ MaxRequests \in Nat /\ MaxRestarts \in Nat

VARIABLES
    made,       \* what each benchmark run trained, in order
    scaler,     \* per run directory: the scaler file, 0 when there is none
    model,      \* per version: the artifact file, 0 when there is none
    file,       \* per version: the metadata file, or None
    row,        \* model_versions: per version a row, or None
    benchmark,  \* the benchmark in progress, or None
    request,    \* the administrator's request in flight, or None
    runtime,    \* what the API process loaded at its start
    served, restarts

files == <<scaler, model, file>>
vars == <<made, scaler, model, file, row, benchmark, request, runtime, served, restarts>>

MODEL_STATES == {"candidate", "validated", "active", "rejected", "archived"}

RuntimeStates == {"down", "degraded_fallback", "legacy_compatibility", "active_trained"}

Metadata == [status : MODEL_STATES, model : 1..MaxBenchmarks, scaler : 1..MaxBenchmarks]

ModelVersion == [status : MODEL_STATES, checksum : 1..MaxBenchmarks, metadata : Metadata,
                 passed : {None} \cup BOOLEAN]

\* None is no file and no row.
ASSUME NoneAssumption ==
    None \notin Metadata /\ None \notin ModelVersion /\ None \notin BOOLEAN

TypeOK ==
    /\ Len(made) <= MaxBenchmarks
    /\ scaler \in [Run -> 0..MaxBenchmarks]
    /\ model \in [Version -> 0..MaxBenchmarks]
    /\ \A v \in Version :
        /\ file[v] = None \/ file[v] \in Metadata
        /\ row[v] = None \/ row[v] \in ModelVersion
        /\ row[v] # None => row[v].checksum = row[v].metadata.model
    /\ runtime.state \in RuntimeStates

Init ==
    /\ made = << >>
    /\ scaler = [r \in Run |-> 0]
    /\ model = [v \in Version |-> 0]
    /\ file = [v \in Version |-> None]
    /\ row = [v \in Version |-> None]
    /\ benchmark = None
    /\ request = None
    /\ runtime = [state |-> "down"]
    /\ served = 0 /\ restarts = 0

-----------------------------------------------------------------------------
\* run_benchmark: the scaler, then for each type the artifact and its metadata.
\* A directory may be written again.

BenchmarkSteps ==
    <<<<"model", "random_forest">>, <<"metadata", "random_forest">>,
      <<"model", "transformer">>, <<"metadata", "transformer">>>>

\* What a benchmark may train: a split that can be made, the threshold selected
\* on the validation windows, and the confusion matrix of the test windows.
Benchmarks ==
    {[strategy |-> x[2], classes |-> t.classes,
      test |-> Confusion(Len(t.classes), t.test,
                         SelectThreshold(t.classes, t.validation, policy))] :
        x \in {x \in Dataset \X Requested : Loadable(x[1]) /\ Splits(x[1], x[2]) # {}},
        policy \in ThresholdPolicy, t \in Trained}

StartBenchmark(r, m) ==
    /\ benchmark = None
    /\ Len(made) < MaxBenchmarks
    /\ made' = Append(made, m)
    /\ scaler' = [scaler EXCEPT ![r] = Len(made')]
    /\ benchmark' = [run |-> r,
                     todo |-> SelectSeq(BenchmarkSteps, LAMBDA s : <<r, s[2]>> \in Version)]
    /\ UNCHANGED <<model, file, row, request, runtime, served, restarts>>

WriteArtifact ==
    /\ benchmark # None /\ benchmark.todo # << >>
    /\ LET s == Head(benchmark.todo)
           v == <<benchmark.run, s[2]>>
           k == scaler[benchmark.run]
       IN  IF s[1] = "model"
           THEN model' = [model EXCEPT ![v] = k] /\ UNCHANGED file
           ELSE /\ model[v] # 0  \* it is read for its checksum
                /\ file' = [file EXCEPT ![v] = [status |-> "candidate", model |-> model[v],
                                                scaler |-> k]]
                /\ UNCHANGED model
    /\ benchmark' = [benchmark EXCEPT !.todo = Tail(@)]
    /\ UNCHANGED <<made, scaler, row, request, runtime, served, restarts>>

\* The report is written, or the process dies where it is.
EndBenchmark ==
    /\ benchmark # None
    /\ benchmark' = None
    /\ UNCHANGED <<made, files, row, request, runtime, served, restarts>>

-----------------------------------------------------------------------------
\* validate_model_metadata with its files: the bytes are those of the metadata.
Verifies(v, metadata) == model[v] = metadata.model /\ scaler[v[1]] = metadata.scaler

FileOf(v, status) == [row[v].metadata EXCEPT !.status = status]
Marked(v, status) == [row[v] EXCEPT !.status = status, !.metadata = FileOf(v, status)]

Serve == request = None /\ served < MaxRequests /\ served' = served + 1

\* A version is registered once.
Register(v) ==
    /\ request = None
    /\ file[v] # None /\ Verifies(v, file[v])
    /\ row[v] = None
    /\ row' = [row EXCEPT ![v] = [status |-> "candidate", checksum |-> file[v].model,
                                  metadata |-> file[v], passed |-> None]]
    /\ UNCHANGED <<made, files, benchmark, request, runtime, served, restarts>>

\* No status is required: an active version may be validated again.
Validate(v, gates) ==
    /\ Serve
    /\ row[v] # None /\ Verifies(v, row[v].metadata)
    /\ LET passed == PassesGates(made[row[v].metadata.model], gates)
           status == IF passed THEN "validated" ELSE "rejected"
       IN  row' = [row EXCEPT ![v] = [Marked(v, status) EXCEPT !.passed = passed]]
    /\ UNCHANGED <<made, files, benchmark, request, runtime, restarts>>

\* Mutant of BeginPromote: only an active version of the same run is found.
PreviousOfRun(v) ==
    /\ Serve
    /\ row[v] # None /\ row[v].status = "validated" /\ row[v].passed = TRUE
    /\ Verifies(v, row[v].metadata) /\ row[v].metadata.model = row[v].checksum
    /\ request' = [kind |-> "promote", version |-> v, pc |-> "previous",
                   previous |-> {w \in Version \ {v} :
                       row[w] # None /\ row[w].status = "active" /\ w[1] = v[1]}]
    /\ UNCHANGED <<made, files, row, benchmark, runtime, restarts>>

BeginPromote(v) ==
    /\ Serve
    /\ row[v] # None /\ row[v].status = "validated" /\ row[v].passed = TRUE
    /\ Verifies(v, row[v].metadata) /\ row[v].metadata.model = row[v].checksum
    /\ request' = [kind |-> "promote", version |-> v, pc |-> "previous",
                   previous |-> {w \in Version \ {v} : row[w] # None /\ row[w].status = "active"}]
    /\ UNCHANGED <<made, files, row, benchmark, runtime, restarts>>

\* Mutant of ArchiveFiles: the rows will be archived, the files stay.
ArchiveRowsOnly ==
    /\ request # None /\ request.pc = "previous"
    /\ request' = [request EXCEPT !.pc = "own"]
    /\ UNCHANGED <<made, scaler, model, file, row, benchmark, runtime, served, restarts>>

ArchiveFiles ==
    /\ request # None /\ request.pc = "previous"
    /\ file' = [v \in Version |->
           IF v \in request.previous THEN FileOf(v, "archived") ELSE file[v]]
    /\ request' = [request EXCEPT !.pc = "own"]
    /\ UNCHANGED <<made, scaler, model, row, benchmark, runtime, served, restarts>>

BeginArchive(v) ==
    /\ Serve
    /\ row[v] # None
    /\ request' = [kind |-> "archive", version |-> v, pc |-> "own", previous |-> {}]
    /\ UNCHANGED <<made, files, row, benchmark, runtime, restarts>>

NewStatus == IF request.kind = "promote" THEN "active" ELSE "archived"

WriteFile ==
    /\ request # None /\ request.pc = "own"
    /\ file' = [file EXCEPT ![request.version] = FileOf(request.version, NewStatus)]
    /\ request' = [request EXCEPT !.pc = "commit"]
    /\ UNCHANGED <<made, scaler, model, row, benchmark, runtime, served, restarts>>

CommitRows ==
    /\ request # None /\ request.pc = "commit"
    /\ row' = [v \in Version |->
           IF v = request.version THEN Marked(v, NewStatus)
           ELSE IF v \in request.previous THEN Marked(v, "archived")
           ELSE row[v]]
    /\ request' = None
    /\ UNCHANGED <<made, files, benchmark, runtime, served, restarts>>

-----------------------------------------------------------------------------
\* Mutant of Load: the checksums of the metadata are not compared.
LoadUnverified(v) ==
    /\ runtime.state = "down"
    /\ runtime' = IF file[v] # None /\ file[v].status = "active" /\ v[2] = "transformer"
                  THEN [state |-> "active_trained", version |-> v, model |-> model[v]]
                  ELSE [state |-> "degraded_fallback"]
    /\ UNCHANGED <<made, files, row, benchmark, request, served, restarts>>

\* The process starts with the version its configuration names.
Load(v) ==
    /\ runtime.state = "down"
    /\ runtime' = IF /\ file[v] # None
                     /\ Verifies(v, file[v])
                     /\ file[v].status = "active"
                     /\ v[2] = "transformer"
                  THEN [state |-> "active_trained", version |-> v, model |-> model[v]]
                  ELSE [state |-> "degraded_fallback"]
    /\ UNCHANGED <<made, files, row, benchmark, request, served, restarts>>

\* Loose metadata, without a schema version, as it was written before benchmarks were.
LoadLegacy ==
    /\ runtime.state = "down"
    /\ runtime' = [state |-> "legacy_compatibility"]
    /\ UNCHANGED <<made, files, row, benchmark, request, served, restarts>>

\* The request in flight is lost with the process: files it wrote stay.
Restart ==
    /\ restarts < MaxRestarts
    /\ restarts' = restarts + 1
    /\ runtime' = [state |-> "down"]
    /\ request' = None
    /\ UNCHANGED <<made, files, row, benchmark, served>>

Next ==
    \/ \E r \in Run, m \in Benchmarks : StartBenchmark(r, m)
    \/ WriteArtifact
    \/ EndBenchmark
    \/ \E v \in Version :
        \/ Register(v)
        \/ \E g \in Gates : Validate(v, g)
        \/ BeginPromote(v)
        \/ BeginArchive(v)
        \/ Load(v)
    \/ LoadLegacy
    \/ ArchiveFiles
    \/ WriteFile
    \/ CommitRows
    \/ Restart

Spec == Init /\ [][Next]_vars

-----------------------------------------------------------------------------
\* Properties.

\* One administrator at a time: at most one version of the task is active, with
\* restarts between the steps of a promotion.
OneActive ==
    \A v, w \in Version :
        row[v] # None /\ row[w] # None /\ row[v].status = "active" /\ row[w].status = "active"
        => v = w

\* What the registry holds as archived no start takes for active, although file
\* and row are written one after the other.
ArchivedIsDown ==
    \A v \in Version :
        row[v] # None /\ row[v].status = "archived" => file[v].status # "active"

\* A model that answers as active_trained was registered with exactly these
\* bytes, and passed gates somebody asked for.  They look at the mean over the k
\* classes: on the test windows no class has false alarms, and BENIGN's are the
\* attacks it misses, beyond k times the gate's rate.
RuntimeIsGoverned ==
    runtime.state = "active_trained" =>
        LET v == runtime.version
            m == made[runtime.model]
            k == Len(m.classes)
        IN  /\ row[v] # None /\ row[v].checksum = runtime.model
            /\ m.strategy # "random_dev_only"
            /\ \E g \in Gates : \A c \in 1..k :
                   AtMost(Ratio(m.test[c].fp, m.test[c].fp + m.test[c].tn),
                          <<k * g.falsePositives[1], g.falsePositives[2]>>)

=============================================================================
