----------------------- MODULE ModelRegistry_proofs ------------------------
(***************************************************************************)
(* Proofs about the model registry, for any versions and any number of     *)
(* benchmarks, requests and restarts: one model is active, no file of an   *)
(* archived one says so, and a model that answers was registered with its  *)
(* bytes and passed somebody's gates, whatever its classes.                *)
(***************************************************************************)
EXTENDS ModelRegistry, FiniteSetTheorems, SequenceTheorems, WellFoundedInduction, TLAPS

-----------------------------------------------------------------------------
\* What the tables and files hold.

Meta == [status : MODEL_STATES, model : Nat, scaler : Nat]

Registered ==
    [status : MODEL_STATES, checksum : Nat, metadata : Meta, passed : {None} \cup BOOLEAN]

InProgress ==
    [kind : {"promote", "archive"}, version : Version, pc : {"previous", "own", "commit"},
     previous : SUBSET Version]

Types ==
    /\ made \in Seq(Benchmarks)
    /\ scaler \in [Run -> Nat]
    /\ model \in [Version -> Nat]
    /\ file \in [Version -> Meta \cup {None}]
    /\ row \in [Version -> Registered \cup {None}]
    /\ request \in InProgress \cup {None}

\* A request in flight holds the registry: what it read of the rows is still so, and
\* the files it has written do not say that what it will archive is active.
Holds ==
    request # None =>
        LET v == request.version
        IN  /\ row[v] \in Registered
            /\ v \notin request.previous
            /\ \A w \in request.previous : row[w] \in Registered
            /\ request.kind = "promote" =>
                   /\ row[v].status = "validated"
                   /\ \A w \in Version : row[w] # None /\ row[w].status = "active" =>
                                             w \in request.previous
            /\ request.kind = "archive" => request.previous = {}
            /\ request.pc # "previous" =>
                   \A w \in request.previous : file[w] \in Meta /\ file[w].status # "active"
            /\ request.pc = "commit" /\ request.kind = "archive" =>
                   file[v] \in Meta /\ file[v].status # "active"

\* ArchivedIsDown, and that there is a file.
ArchivedHasFile ==
    \A v \in Version :
        row[v] # None /\ row[v].status = "archived" => file[v] \in Meta /\ file[v].status # "active"

IInv == Types /\ Holds /\ OneActive /\ ArchivedHasFile

-----------------------------------------------------------------------------
\* Marking a version keeps the types of its row and its file.
LEMMA MarkedTypes ==
    ASSUME NEW v, row[v] \in Registered, NEW s \in MODEL_STATES
    PROVE  /\ FileOf(v, s) \in Meta /\ FileOf(v, s).status = s
           /\ Marked(v, s) \in Registered /\ Marked(v, s).status = s
<1>1. row[v].metadata \in Meta
  BY DEF Registered
<1>2. FileOf(v, s) \in Meta /\ FileOf(v, s).status = s
  BY <1>1 DEF FileOf, Meta
<1>3. Marked(v, s) \in Registered /\ Marked(v, s).status = s
  BY <1>2 DEF Marked, Registered
<1> QED
  BY <1>2, <1>3

\* The empty registry satisfies the invariant.
LEMMA InitIInv == Init => IInv
<1> SUFFICES ASSUME Init PROVE IInv
  OBVIOUS
<1>1. Types
  BY DEF Init, Types
<1>2. Holds
  BY DEF Init, Holds
<1>3. OneActive /\ ArchivedHasFile
  BY DEF Init, OneActive, ArchivedHasFile
<1> QED
  BY <1>1, <1>2, <1>3 DEF IInv

\* A step that leaves rows, files and the request alone, or forgets the request.
LEMMA IdleKeeps ==
    ASSUME IInv, UNCHANGED <<made, scaler, model, file, row>>, request' \in {request, None}
    PROVE  IInv'
<1>1. Types'
  BY DEF IInv, Types
<1>2. Holds'
  BY DEF IInv, Holds
<1>3. OneActive' /\ ArchivedHasFile'
  BY DEF IInv, OneActive, ArchivedHasFile
<1> QED
  BY <1>1, <1>2, <1>3 DEF IInv

\* A benchmark writes files, of candidates only.
LEMMA BenchmarkKeeps ==
    ASSUME IInv, WriteArtifact \/ \E r \in Run, m \in Benchmarks : StartBenchmark(r, m)
    PROVE  IInv'
<1> USE DEF IInv
<1>1. CASE \E r \in Run, m \in Benchmarks : StartBenchmark(r, m)
  <2>1. UNCHANGED <<model, file, row, request>>
    BY <1>1 DEF StartBenchmark
  <2>2. PICK r \in Run, m \in Benchmarks : StartBenchmark(r, m)
    BY <1>1
  <2>3. made' \in Seq(Benchmarks) /\ Len(made') \in Nat
    BY <2>2 DEF StartBenchmark, Types
  <2>4. scaler' \in [Run -> Nat]
    BY <2>2, <2>3 DEF StartBenchmark, Types
  <2>5. Types'
    BY <2>1, <2>3, <2>4 DEF Types
  <2>6. Holds' /\ OneActive' /\ ArchivedHasFile'
    BY <2>1 DEF Holds, OneActive, ArchivedHasFile
  <2> QED
    BY <2>5, <2>6
<1>2. CASE WriteArtifact
  <2> DEFINE v == <<benchmark.run, Head(benchmark.todo)[2]>>
             candidate == [status |-> "candidate", model |-> model[v],
                           scaler |-> scaler[benchmark.run]]
  <2>1. UNCHANGED <<made, scaler, row, request>>
    BY <1>2 DEF WriteArtifact
  <2>2. v \in Version => benchmark.run \in Run
    BY RegistryAssumption
  <2>3. v \in Version => candidate \in Meta /\ candidate.status = "candidate"
    BY <2>2 DEF Types, Meta, MODEL_STATES
  <2>4. /\ model' \in {model, [model EXCEPT ![v] = scaler[benchmark.run]]}
        /\ file' \in {file, [file EXCEPT ![v] = candidate]}
    BY <1>2 DEF WriteArtifact
  <2> HIDE DEF v, candidate
  <2>5. model' \in [Version -> Nat]
    BY <2>2, <2>4 DEF Types
  <2>6. /\ file' \in [Version -> Meta \cup {None}]
        /\ \A w \in Version : file'[w] = file[w] \/ (file'[w] \in Meta /\ file'[w].status = "candidate")
    BY <2>3, <2>4 DEF Types
  <2>7. Types'
    BY <2>1, <2>5, <2>6 DEF Types
  <2>8. Holds'
    <3> SUFFICES ASSUME request # None PROVE Holds'
      BY <2>1 DEF Holds
    <3>1. request.version \in Version /\ request.previous \subseteq Version
      BY DEF Types, InProgress
    <3> QED
      BY <2>1, <2>6, <3>1 DEF Holds
  <2>9. OneActive' /\ ArchivedHasFile'
    BY <2>1, <2>6 DEF OneActive, ArchivedHasFile
  <2> QED
    BY <2>7, <2>8, <2>9
<1> QED
  BY <1>1, <1>2

\* With no request in flight, a row that becomes neither active nor archived.
LEMMA RowKeeps ==
    ASSUME IInv, request = None, UNCHANGED <<made, scaler, model, file, request>>,
           NEW v \in Version, NEW r \in Registered, r.status \notin {"active", "archived"},
           row' = [row EXCEPT ![v] = r]
    PROVE  IInv'
<1> USE DEF IInv
<1>1. Types'
  BY DEF Types
<1>2. Holds'
  BY DEF Holds
<1>3. OneActive'
  BY DEF OneActive, Types
<1>4. ArchivedHasFile'
  BY DEF ArchivedHasFile, Types
<1> QED
  BY <1>1, <1>2, <1>3, <1>4

\* Registering a version keeps the invariant.
LEMMA RegisterKeeps ==
    ASSUME IInv, NEW v \in Version, Register(v) PROVE IInv'
<1>1. file[v] \in Meta
  BY DEF IInv, Types, Register
<1> DEFINE r == [status |-> "candidate", checksum |-> file[v].model,
                 metadata |-> file[v], passed |-> None]
<1>2. r \in Registered /\ r.status \notin {"active", "archived"}
  BY <1>1 DEF Registered, Meta, MODEL_STATES
<1>3. /\ request = None /\ UNCHANGED <<made, scaler, model, file, request>>
      /\ row' = [row EXCEPT ![v] = r]
  BY DEF Register, files
<1> HIDE DEF r
<1> QED
  BY <1>2, <1>3, RowKeeps

\* Validating a version keeps the invariant.
LEMMA ValidateKeeps ==
    ASSUME IInv, NEW v \in Version, NEW g \in Gates, Validate(v, g) PROVE IInv'
<1>1. row[v] \in Registered
  BY DEF IInv, Types, Validate
<1>2. PICK s \in {"validated", "rejected"}, p \in BOOLEAN :
        row' = [row EXCEPT ![v] = [Marked(v, s) EXCEPT !.passed = p]]
  BY DEF Validate, PassesGates
<1> DEFINE r == [Marked(v, s) EXCEPT !.passed = p]
<1>3. Marked(v, s) \in Registered /\ Marked(v, s).status = s
  BY <1>1, MarkedTypes DEF MODEL_STATES
<1>4. r \in Registered /\ r.status = s
  BY <1>3 DEF Registered
<1>5. request = None /\ UNCHANGED <<made, scaler, model, file, request>>
  BY DEF Validate, Serve, files
<1> HIDE DEF r
<1> QED
  BY <1>2, <1>4, <1>5, RowKeeps DEF r

\* Starting a promotion or an archival keeps the invariant.
LEMMA BeginKeeps ==
    ASSUME IInv, NEW v \in Version, BeginPromote(v) \/ BeginArchive(v) PROVE IInv'
<1> USE DEF IInv
<1>1. UNCHANGED <<made, scaler, model, file, row>>
  BY DEF BeginPromote, BeginArchive, files
<1>2. row[v] \in Registered
  BY DEF BeginPromote, BeginArchive, Types
<1> DEFINE active == {w \in Version \ {v} : row[w] # None /\ row[w].status = "active"}
<1>3. CASE BeginPromote(v)
  <2>1. /\ request' = [kind |-> "promote", version |-> v, pc |-> "previous", previous |-> active]
        /\ row[v].status = "validated"
    BY <1>3 DEF BeginPromote
  <2>2. active \subseteq Version /\ v \notin active /\ \A w \in active : row[w] \in Registered
    BY DEF Types
  <2>3. \A w \in Version : row[w] # None /\ row[w].status = "active" => w \in active
    BY <2>1
  <2> HIDE DEF active
  <2>4. request' \in InProgress
    BY <2>1, <2>2 DEF InProgress
  <2>5. Holds'
    BY <1>1, <1>2, <2>1, <2>2, <2>3 DEF Holds
  <2>6. Types' /\ OneActive' /\ ArchivedHasFile'
    BY <1>1, <2>4 DEF Types, OneActive, ArchivedHasFile
  <2> QED
    BY <2>5, <2>6
<1>4. CASE BeginArchive(v)
  <2>1. request' = [kind |-> "archive", version |-> v, pc |-> "own", previous |-> {}]
    BY <1>4 DEF BeginArchive
  <2>2. request' \in InProgress
    BY <2>1 DEF InProgress
  <2>3. Holds'
    BY <1>1, <1>2, <2>1 DEF Holds
  <2>4. Types' /\ OneActive' /\ ArchivedHasFile'
    BY <1>1, <2>2 DEF Types, OneActive, ArchivedHasFile
  <2> QED
    BY <2>3, <2>4
<1> QED
  BY <1>3, <1>4

\* Archiving the previous file keeps the invariant.
LEMMA ArchiveFilesKeeps == ASSUME IInv, ArchiveFiles PROVE IInv'
<1> USE DEF IInv
<1>1. request # None /\ request \in InProgress /\ request.pc = "previous"
  BY DEF ArchiveFiles, Types
<1>2. /\ UNCHANGED <<made, scaler, model, row>>
      /\ request' = [request EXCEPT !.pc = "own"]
  BY DEF ArchiveFiles
<1>3. request' \in InProgress /\ request'.pc = "own" /\ request'.kind = request.kind
      /\ request'.version = request.version /\ request'.previous = request.previous
  BY <1>1, <1>2 DEF InProgress
<1>4. \A w \in request.previous : FileOf(w, "archived") \in Meta /\ FileOf(w, "archived").status = "archived"
  BY <1>1, MarkedTypes DEF Holds, MODEL_STATES
<1>5. /\ file' \in [Version -> Meta \cup {None}]
      /\ \A w \in Version : \/ w \notin request.previous /\ file'[w] = file[w]
                            \/ file'[w] \in Meta /\ file'[w].status = "archived"
  BY <1>4 DEF ArchiveFiles, Types
<1>6. Types'
  BY <1>2, <1>3, <1>5 DEF Types
<1>7. request.previous \subseteq Version
  BY <1>1 DEF InProgress
<1>8. Holds'
  BY <1>1, <1>2, <1>3, <1>5, <1>7 DEF Holds
<1>9. OneActive' /\ ArchivedHasFile'
  BY <1>2, <1>5 DEF OneActive, ArchivedHasFile
<1> QED
  BY <1>6, <1>8, <1>9

\* Writing the version's file keeps the invariant.
LEMMA WriteFileKeeps == ASSUME IInv, WriteFile PROVE IInv'
<1> USE DEF IInv
<1> DEFINE v == request.version
<1>1. request # None /\ request \in InProgress /\ request.pc = "own"
  BY DEF WriteFile, Types
<1>2. /\ UNCHANGED <<made, scaler, model, row>>
      /\ request' = [request EXCEPT !.pc = "commit"]
      /\ file' = [file EXCEPT ![v] = FileOf(v, NewStatus)]
  BY DEF WriteFile
<1>3. request' \in InProgress /\ request'.pc = "commit" /\ request'.kind = request.kind
      /\ request'.version = v /\ request'.previous = request.previous
  BY <1>1, <1>2 DEF InProgress
<1>4. /\ NewStatus \in MODEL_STATES
      /\ request.kind = "promote" => NewStatus = "active"
      /\ request.kind = "archive" => NewStatus = "archived"
  BY DEF NewStatus, MODEL_STATES
<1>5. FileOf(v, NewStatus) \in Meta /\ FileOf(v, NewStatus).status = NewStatus
  BY <1>1, <1>4, MarkedTypes DEF Holds
<1>6. v \in Version /\ request.previous \subseteq Version /\ v \notin request.previous
  BY <1>1 DEF InProgress, Holds
<1>7. /\ file' \in [Version -> Meta \cup {None}]
      /\ file'[v] \in Meta /\ file'[v].status = NewStatus
      /\ \A w \in Version : w # v => file'[w] = file[w]
  BY <1>2, <1>5, <1>6 DEF Types
<1>8. Types'
  BY <1>2, <1>3, <1>7 DEF Types
<1>9. Holds'
  BY <1>1, <1>2, <1>3, <1>4, <1>6, <1>7 DEF Holds
<1>10. ArchivedHasFile'
  <2> SUFFICES ASSUME NEW w \in Version, row[w] # None, row[w].status = "archived"
               PROVE  file'[w] \in Meta /\ file'[w].status # "active"
    BY <1>2 DEF ArchivedHasFile
  <2>1. CASE w = v
    <3>1. request.kind = "archive"
      BY <1>1, <2>1 DEF Holds, InProgress
    <3> QED
      BY <1>4, <1>7, <2>1, <3>1
  <2>2. CASE w # v
    BY <1>7, <2>2 DEF ArchivedHasFile
  <2> QED
    BY <2>1, <2>2
<1>11. OneActive'
  BY <1>2 DEF OneActive
<1> QED
  BY <1>8, <1>9, <1>10, <1>11

\* Committing the rows keeps the invariant.
LEMMA CommitRowsKeeps == ASSUME IInv, CommitRows PROVE IInv'
<1> USE DEF IInv
<1> DEFINE v == request.version
<1>1. request # None /\ request \in InProgress /\ request.pc = "commit"
  BY DEF CommitRows, Types
<1>2. UNCHANGED <<made, scaler, model, file>> /\ request' = None
  BY DEF CommitRows, files
<1>3. v \in Version /\ request.previous \subseteq Version /\ v \notin request.previous
  BY <1>1 DEF InProgress, Holds
<1>4. /\ NewStatus \in MODEL_STATES
      /\ request.kind = "promote" => NewStatus = "active"
      /\ request.kind = "archive" => NewStatus = "archived"
  BY DEF NewStatus, MODEL_STATES
<1>5. Marked(v, NewStatus) \in Registered /\ Marked(v, NewStatus).status = NewStatus
  BY <1>1, <1>4, MarkedTypes DEF Holds
<1>6. \A w \in request.previous : /\ Marked(w, "archived") \in Registered
                                  /\ Marked(w, "archived").status = "archived"
  BY <1>1, MarkedTypes DEF Holds, MODEL_STATES
<1>7. /\ row' \in [Version -> Registered \cup {None}]
      /\ row'[v].status = NewStatus
      /\ \A w \in request.previous : row'[w].status = "archived"
      /\ \A w \in Version : w # v /\ w \notin request.previous => row'[w] = row[w]
  BY <1>3, <1>5, <1>6 DEF CommitRows, Types
<1>8. Types' /\ Holds'
  BY <1>2, <1>7 DEF Types, Holds
<1>9. OneActive'
  <2> SUFFICES ASSUME NEW w \in Version, row'[w] # None, row'[w].status = "active"
               PROVE  \/ request.kind = "promote" /\ w = v
                      \/ row[w] # None /\ row[w].status = "active" /\ request.kind = "archive"
    BY DEF OneActive
  <2>1. w \notin request.previous
    BY <1>7
  <2>2. CASE w = v
    BY <1>1, <1>4, <1>7, <2>2 DEF InProgress
  <2>3. CASE w # v
    BY <1>1, <1>7, <2>1, <2>3 DEF Holds, InProgress
  <2> QED
    BY <2>2, <2>3
<1>10. ArchivedHasFile'
  <2> SUFFICES ASSUME NEW w \in Version, row'[w] # None, row'[w].status = "archived"
               PROVE  file[w] \in Meta /\ file[w].status # "active"
    BY <1>2 DEF ArchivedHasFile
  <2>1. CASE w = v
    <3>1. request.kind = "archive"
      BY <1>1, <1>4, <1>7, <2>1 DEF InProgress
    <3> QED
      BY <1>1, <2>1, <3>1 DEF Holds
  <2>2. CASE w \in request.previous
    BY <1>1, <2>2 DEF Holds
  <2>3. CASE w # v /\ w \notin request.previous
    BY <1>7, <2>3 DEF ArchivedHasFile
  <2> QED
    BY <2>1, <2>2, <2>3
<1> QED
  BY <1>8, <1>9, <1>10

\* Every step keeps the invariant.
LEMMA NextIInv == IInv /\ [Next]_vars => IInv'
<1> SUFFICES ASSUME IInv, [Next]_vars PROVE IInv'
  OBVIOUS
<1>1. CASE UNCHANGED vars
  BY <1>1, IdleKeeps DEF vars, files
<1>2. ASSUME EndBenchmark \/ Restart \/ LoadLegacy \/ \E v \in Version : Load(v)
      PROVE  IInv'
  BY <1>2, IdleKeeps DEF EndBenchmark, Restart, LoadLegacy, Load, files
<1> QED
  BY <1>1, <1>2, BenchmarkKeeps, RegisterKeeps, ValidateKeeps, BeginKeeps, ArchiveFilesKeeps,
     WriteFileKeeps, CommitRowsKeeps DEF Next

-----------------------------------------------------------------------------
\* Where the bytes of files, rows and the running process come from.

Governed(k) == k \in DOMAIN made /\ \E g \in Gates : PassesGates(made[k], g)

\* The numbers that files and rows carry are those of benchmarks that have run.
Numbers ==
    /\ Len(made) <= MaxBenchmarks
    /\ \A r \in Run : scaler[r] \in 0..Len(made)
    /\ \A v \in Version : model[v] \in 0..Len(made)
    /\ \A v \in Version : file[v] # None =>
           file[v].model \in 1..Len(made) /\ file[v].scaler \in 1..Len(made)
    /\ \A v \in Version : row[v] # None =>
           /\ row[v].metadata.model \in 1..Len(made) /\ row[v].metadata.scaler \in 1..Len(made)
           /\ row[v].checksum = row[v].metadata.model
    /\ benchmark # None => benchmark.run \in Run /\ scaler[benchmark.run] \in 1..Len(made)

\* A version's bytes are those it was registered with, and a benchmark of them passed.
Vouched(v, k) == row[v] # None /\ row[v].checksum = k /\ Governed(k)

Trace ==
    /\ \A v \in Version : row[v] # None /\ row[v].passed = TRUE => Governed(row[v].metadata.model)
    /\ \A v \in Version : file[v] # None /\ file[v].status = "active" => Vouched(v, file[v].model)
    /\ request # None =>
           /\ row[request.version] # None
           /\ \A w \in request.previous : row[w] # None
           /\ request.kind = "promote" => row[request.version].passed = TRUE
    /\ runtime.state \in RuntimeStates
    /\ runtime.state = "active_trained" =>
           runtime.version \in Version /\ Vouched(runtime.version, runtime.model)

\* With nothing registered there is nothing to trace.
LEMMA InitTrace == Init => Numbers /\ Trace
BY RegistryAssumption DEF Init, Numbers, Trace, RuntimeStates

\* Marking a version changes no checksum and no bytes.
LEMMA MarkedKeepsBytes ==
    ASSUME NEW v, row[v] \in Registered, NEW s \in MODEL_STATES
    PROVE  /\ Marked(v, s).checksum = row[v].checksum /\ Marked(v, s).passed = row[v].passed
           /\ Marked(v, s).metadata.model = row[v].metadata.model
           /\ Marked(v, s).metadata.scaler = row[v].metadata.scaler
           /\ FileOf(v, s).model = row[v].metadata.model
           /\ FileOf(v, s).scaler = row[v].metadata.scaler
<1>1. row[v].metadata \in Meta
  BY DEF Registered
<1>2. FileOf(v, s).model = row[v].metadata.model /\ FileOf(v, s).scaler = row[v].metadata.scaler
  BY <1>1 DEF FileOf, Meta
<1>3. /\ Marked(v, s).checksum = row[v].checksum /\ Marked(v, s).passed = row[v].passed
      /\ Marked(v, s).metadata = FileOf(v, s)
  BY DEF Marked, Registered
<1> QED
  BY <1>2, <1>3

\* What is a row or a file is not None.
LEMMA NotNone ==
    ASSUME Numbers, Types
    PROVE  /\ \A m \in Meta : m.model \in 1..Len(made) /\ m.scaler \in 1..Len(made) =>
                 m # None /\ m \in Metadata
           /\ \A r \in Registered :
                 /\ r.checksum \in 1..Len(made) /\ r.metadata.model \in 1..Len(made)
                 /\ r.metadata.scaler \in 1..Len(made)
                 => r # None /\ r \in ModelVersion
<1>1. Len(made) \in Nat /\ Len(made) <= MaxBenchmarks /\ MaxBenchmarks \in Nat
  BY RegistryAssumption DEF Types, Numbers
<1>2. \A m \in Meta : m.model \in 1..Len(made) /\ m.scaler \in 1..Len(made) => m \in Metadata
  BY <1>1 DEF Meta, Metadata
<1>3. \A r \in Registered :
        r.checksum \in 1..Len(made) /\ r.metadata \in Metadata => r \in ModelVersion
  BY <1>1 DEF Registered, ModelVersion
<1>4. \A r \in Registered : r.metadata \in Meta
  BY DEF Registered
<1> QED
  BY <1>2, <1>3, <1>4, NoneAssumption

\* A benchmark that comes later changes nothing for the earlier ones.
LEMMA GovernedStays ==
    ASSUME made \in Seq(Benchmarks), NEW m \in Benchmarks, made' = Append(made, m)
    PROVE  \A k : Governed(k) => Governed(k)'
<1>1. /\ Len(made') = Len(made) + 1 /\ Len(made) \in Nat
      /\ DOMAIN made = 1..Len(made) /\ DOMAIN made' = 1..Len(made')
      /\ \A k \in 1..Len(made) : made'[k] = made[k]
  BY AppendProperties
<1>2. ASSUME NEW k, Governed(k) PROVE Governed(k)'
  <2>1. k \in DOMAIN made /\ k \in DOMAIN made' /\ made'[k] = made[k]
    BY <1>1, <1>2 DEF Governed
  <2> QED
    BY <1>2, <2>1 DEF Governed
<1> QED
  BY <1>2

\* A step of a benchmark's start.
LEMMA StartTrace ==
    ASSUME IInv, Numbers, Trace, NEW r \in Run, NEW m \in Benchmarks, StartBenchmark(r, m)
    PROVE  Numbers' /\ Trace'
<1> USE DEF IInv
<1>1. /\ made' = Append(made, m) /\ made \in Seq(Benchmarks)
      /\ scaler' = [scaler EXCEPT ![r] = Len(made')]
      /\ benchmark' # None => benchmark'.run = r
      /\ UNCHANGED <<model, file, row, request, runtime>>
      /\ Len(made) < MaxBenchmarks
  BY DEF StartBenchmark, Types
<1>2. Len(made') = Len(made) + 1 /\ Len(made) \in Nat /\ MaxBenchmarks \in Nat
  BY <1>1, AppendProperties, RegistryAssumption
<1>3. Numbers'
  BY <1>1, <1>2 DEF Numbers, Types
<1>4. \A k : Governed(k) => Governed(k)'
  BY <1>1, GovernedStays
<1>5. \A v, k : Vouched(v, k) => Vouched(v, k)'
  BY <1>1, <1>4 DEF Vouched
<1>6. Trace'
  BY <1>1, <1>4, <1>5 DEF Trace
<1> QED
  BY <1>3, <1>6

\* Writing an artifact over the last keeps the trace of what is active.
LEMMA WriteTrace ==
    ASSUME IInv, Numbers, Trace, WriteArtifact
    PROVE  Numbers' /\ Trace'
<1> USE DEF IInv
<1> DEFINE v == <<benchmark.run, Head(benchmark.todo)[2]>>
           candidate == [status |-> "candidate", model |-> model[v],
                         scaler |-> scaler[benchmark.run]]
<1>1. UNCHANGED <<made, scaler, row, request, runtime>> /\ benchmark # None
      /\ benchmark' = [benchmark EXCEPT !.todo = Tail(@)]
  BY DEF WriteArtifact
<1>2. benchmark.run \in Run /\ scaler[benchmark.run] \in 1..Len(made)
  BY <1>1 DEF Numbers
<1>3. \/ model' = [model EXCEPT ![v] = scaler[benchmark.run]] /\ file' = file
      \/ model[v] # 0 /\ file' = [file EXCEPT ![v] = candidate] /\ model' = model
  BY DEF WriteArtifact
<1>4. candidate.model = model[v] /\ candidate.scaler = scaler[benchmark.run]
      /\ candidate.status = "candidate"
  OBVIOUS
<1>5. Len(made) \in Nat
  BY DEF Types
<1> HIDE DEF v, candidate
<1>6. \A w \in Version : model'[w] \in 0..Len(made)
  BY <1>2, <1>3, <1>5 DEF Numbers, Types
<1>7. \A w \in Version :
        \/ file'[w] = file[w]
        \/ /\ file'[w].model \in 1..Len(made) /\ file'[w].scaler \in 1..Len(made)
           /\ file'[w].status = "candidate"
  <2> SUFFICES ASSUME NEW w \in Version, file'[w] # file[w]
               PROVE  /\ file'[w].model \in 1..Len(made) /\ file'[w].scaler \in 1..Len(made)
                      /\ file'[w].status = "candidate"
    OBVIOUS
  <2>1. w = v /\ file'[w] = candidate /\ model[w] # 0
    BY <1>3 DEF Types
  <2> QED
    BY <1>2, <1>4, <1>5, <2>1 DEF Numbers
<1>8. benchmark' # None => benchmark'.run = benchmark.run
  BY <1>1
<1>9. Numbers'
  BY <1>1, <1>2, <1>6, <1>7, <1>8 DEF Numbers
<1>10. Trace'
  BY <1>1, <1>7 DEF Trace, Vouched, Governed
<1> QED
  BY <1>9, <1>10

\* A step that writes rows keeps what they were registered with.
LEMMA RowsTrace ==
    ASSUME IInv, IInv', Numbers, Trace,
           UNCHANGED <<made, scaler, model, file, benchmark, runtime>>, request' \in {request, None},
           \A v \in Version :
              row'[v] # None /\ row'[v] # row[v] =>
                 /\ row'[v].metadata.model \in 1..Len(made)
                 /\ row'[v].metadata.scaler \in 1..Len(made)
                 /\ row'[v].checksum = row'[v].metadata.model
                 /\ row'[v].passed = TRUE => Governed(row'[v].metadata.model),
           \A v \in Version : row[v] # None => row'[v] # None /\ row'[v].checksum = row[v].checksum,
           request' = None \/ row' = row
    PROVE  Numbers' /\ Trace'
<1>1. Numbers'
  BY DEF Numbers
<1>2. \A k : Governed(k)' <=> Governed(k)
  BY DEF Governed
<1>3. \A v \in Version : \A k : Vouched(v, k) => Vouched(v, k)'
  BY DEF Vouched, Governed
<1>4. \A v \in Version : row'[v] # None /\ row'[v].passed = TRUE => Governed(row'[v].metadata.model)
  BY DEF Trace
<1>5. \A v \in Version : file[v] # None /\ file[v].status = "active" => Vouched(v, file[v].model)'
  BY <1>3 DEF Trace, Vouched, Governed
<1>6. runtime.state = "active_trained" => Vouched(runtime.version, runtime.model)'
  BY <1>3 DEF Trace, Vouched, Governed
<1> QED
  BY <1>1, <1>4, <1>5, <1>6 DEF Trace, Governed, Vouched

\* A registered row names benchmarks that have run.
LEMMA RegisterTrace ==
    ASSUME IInv, IInv', Numbers, Trace, NEW v \in Version, Register(v)
    PROVE  Numbers' /\ Trace'
<1>1. /\ UNCHANGED <<made, scaler, model, file, benchmark, request, runtime>> /\ request = None
      /\ row[v] = None /\ file[v] # None
      /\ row' = [row EXCEPT ![v] = [status |-> "candidate", checksum |-> file[v].model,
                                    metadata |-> file[v], passed |-> None]]
  BY DEF Register, files
<1>2. /\ row'[v].metadata = file[v] /\ row'[v].checksum = file[v].model /\ row'[v].passed = None
      /\ \A w \in Version : w # v => row'[w] = row[w]
  BY <1>1 DEF IInv, Types
<1>3. row'[v].passed # TRUE
  BY <1>2, NoneAssumption
<1> QED
  BY <1>1, <1>2, <1>3, RowsTrace DEF Numbers

\* Only a row whose artifact passed the gates is marked as passed.
LEMMA ValidateTrace ==
    ASSUME IInv, IInv', Numbers, Trace, NEW v \in Version, NEW g \in Gates, Validate(v, g)
    PROVE  Numbers' /\ Trace'
<1> USE DEF IInv
<1>1. row[v] \in Registered /\ row[v] # None
  BY DEF Types, Validate
<1> DEFINE k == row[v].metadata.model
           passed == PassesGates(made[k], g)
           s == IF passed THEN "validated" ELSE "rejected"
           r == [Marked(v, s) EXCEPT !.passed = passed]
<1>2. row' = [row EXCEPT ![v] = r] /\ request = None
      /\ UNCHANGED <<made, scaler, model, file, benchmark, request, runtime>>
  BY DEF Validate, Serve, files
<1>3. s \in MODEL_STATES
  BY DEF MODEL_STATES
<1>4. Marked(v, s) \in Registered /\ Marked(v, s).checksum = row[v].checksum
      /\ Marked(v, s).metadata.model = k /\ Marked(v, s).metadata.scaler = row[v].metadata.scaler
  BY <1>1, <1>3, MarkedTypes, MarkedKeepsBytes
<1>5. passed \in BOOLEAN
  BY DEF PassesGates
<1>6. k \in 1..Len(made) /\ row[v].metadata.scaler \in 1..Len(made) /\ row[v].checksum = k
  BY <1>1 DEF Numbers
<1>7. passed => Governed(k)
  BY <1>6 DEF Governed, Types
<1> HIDE DEF k, passed, s
<1>8. r \in Registered /\ r.checksum = k /\ r.metadata.model = k
      /\ r.metadata.scaler = row[v].metadata.scaler /\ (r.passed <=> passed)
  BY <1>4, <1>5, <1>6 DEF Registered
<1> HIDE DEF r
<1>9. r # None
  BY <1>6, <1>8, NotNone
<1>10. row'[v] = r /\ \A w \in Version : w # v => row'[w] = row[w]
  BY <1>2 DEF Types
<1>11. r.passed = TRUE => Governed(k)
  BY <1>7, <1>8
<1> QED
  BY <1>2, <1>6, <1>8, <1>9, <1>10, <1>11, RowsTrace

\* Committing the rows keeps the trace.
LEMMA CommitTrace ==
    ASSUME IInv, IInv', Numbers, Trace, CommitRows
    PROVE  Numbers' /\ Trace'
<1> USE DEF IInv
<1>1. request # None /\ request \in InProgress
  BY DEF CommitRows, Types
<1>2. UNCHANGED <<made, scaler, model, file, benchmark, runtime>> /\ request' = None
  BY DEF CommitRows, files
<1>3. /\ row[request.version] \in Registered
      /\ \A w \in request.previous : row[w] \in Registered
  BY <1>1 DEF Holds
<1>4. NewStatus \in MODEL_STATES /\ "archived" \in MODEL_STATES
  BY DEF NewStatus, MODEL_STATES
<1>5. ASSUME NEW v \in Version, row'[v] # row[v]
      PROVE  \E s \in MODEL_STATES : row'[v] = Marked(v, s) /\ row[v] \in Registered
  BY <1>3, <1>4, <1>5 DEF CommitRows
<1>6. ASSUME NEW v \in Version, row'[v] # row[v], row[v] # None
      PROVE  /\ row'[v] # None /\ row'[v].checksum = row[v].checksum
             /\ row'[v].metadata.model \in 1..Len(made)
             /\ row'[v].metadata.scaler \in 1..Len(made)
             /\ row'[v].checksum = row'[v].metadata.model
             /\ row'[v].passed = TRUE => Governed(row'[v].metadata.model)
  <2>1. PICK s \in MODEL_STATES : row'[v] = Marked(v, s) /\ row[v] \in Registered
    BY <1>5, <1>6
  <2>2. /\ row'[v].checksum = row[v].checksum /\ row'[v].passed = row[v].passed
        /\ row'[v].metadata.model = row[v].metadata.model
        /\ row'[v].metadata.scaler = row[v].metadata.scaler
        /\ row'[v] \in Registered
    BY <2>1, MarkedTypes, MarkedKeepsBytes
  <2> QED
    BY <1>6, <2>2, NotNone DEF Numbers, Trace
<1>7. \A v \in Version : row'[v] # row[v] => row[v] # None
  <2> SUFFICES ASSUME NEW v \in Version, row'[v] # row[v], row[v] = None PROVE FALSE
    OBVIOUS
  <2>1. v = request.version \/ v \in request.previous
    BY DEF CommitRows
  <2> QED
    BY <1>1, <2>1 DEF Trace
<1> QED
  BY <1>2, <1>6, <1>7, RowsTrace

\* A step of a request that writes files of versions in the registry, and the request.
LEMMA FilesTrace ==
    ASSUME IInv, Numbers, Trace,
           UNCHANGED <<made, scaler, model, row, benchmark, runtime>>, request # None,
           request'.version = request.version, request'.previous = request.previous,
           request'.kind = request.kind,
           \A v \in Version :
              \/ file'[v] = file[v]
              \/ /\ row[v] # None /\ file'[v].model = row[v].metadata.model
                 /\ file'[v].scaler = row[v].metadata.scaler
                 /\ file'[v].status = "active" => row[v].passed = TRUE
    PROVE  Numbers' /\ Trace'
<1>1. Numbers'
  BY DEF Numbers
<1>2. \A v \in Version : file'[v] # None /\ file'[v].status = "active" => Vouched(v, file'[v].model)
  <2> SUFFICES ASSUME NEW v \in Version, file'[v] # None, file'[v].status = "active",
                      file'[v] # file[v]
               PROVE  Vouched(v, file'[v].model)
    BY DEF Trace
  <2>1. /\ row[v] # None /\ row[v].passed = TRUE /\ file'[v].model = row[v].metadata.model
        /\ row[v].checksum = row[v].metadata.model
    BY DEF Numbers
  <2> QED
    BY <2>1 DEF Trace, Vouched
<1>3. Trace'
  BY <1>2 DEF Trace, Vouched, Governed
<1> QED
  BY <1>1, <1>3

\* The file writes of a request keep the trace.
LEMMA RequestTrace ==
    ASSUME IInv, Numbers, Trace, ArchiveFiles \/ WriteFile
    PROVE  Numbers' /\ Trace'
<1> USE DEF IInv
<1>1. /\ UNCHANGED <<made, scaler, model, row, benchmark, runtime>> /\ request # None
      /\ request \in InProgress
  BY DEF ArchiveFiles, WriteFile, Types
<1>2. request'.version = request.version /\ request'.previous = request.previous
      /\ request'.kind = request.kind
  BY <1>1 DEF ArchiveFiles, WriteFile, InProgress
<1>3. /\ row[request.version] # None /\ row[request.version] \in Registered
      /\ \A w \in request.previous : row[w] # None /\ row[w] \in Registered
      /\ request.kind = "promote" => row[request.version].passed = TRUE
      /\ request.version \in Version
  BY <1>1 DEF Holds, Trace, InProgress
<1>4. CASE ArchiveFiles
  <2>1. ASSUME NEW v \in Version, file'[v] # file[v]
        PROVE  v \in request.previous /\ file'[v] = FileOf(v, "archived")
    BY <1>4, <2>1 DEF ArchiveFiles
  <2>2. ASSUME NEW v \in Version, file'[v] # file[v]
        PROVE  /\ row[v] # None /\ file'[v].model = row[v].metadata.model
               /\ file'[v].scaler = row[v].metadata.scaler
               /\ file'[v].status = "archived"
    BY <1>3, <2>1, <2>2, MarkedTypes, MarkedKeepsBytes DEF MODEL_STATES
  <2> QED
    BY <1>1, <1>2, <2>2, FilesTrace
<1>5. CASE WriteFile
  <2>1. NewStatus \in MODEL_STATES /\ (NewStatus = "active" => request.kind = "promote")
    BY DEF NewStatus, MODEL_STATES
  <2>2. ASSUME NEW v \in Version, file'[v] # file[v]
        PROVE  v = request.version /\ file'[v] = FileOf(v, NewStatus)
    BY <1>3, <1>5, <2>2 DEF WriteFile, Types
  <2>3. ASSUME NEW v \in Version, file'[v] # file[v]
        PROVE  /\ row[v] # None /\ file'[v].model = row[v].metadata.model
               /\ file'[v].scaler = row[v].metadata.scaler
               /\ file'[v].status = "active" => row[v].passed = TRUE
    <3>1. v = request.version /\ file'[v] = FileOf(v, NewStatus)
      BY <2>2, <2>3
    <3>2. FileOf(v, NewStatus).status = NewStatus
          /\ FileOf(v, NewStatus).model = row[v].metadata.model
          /\ FileOf(v, NewStatus).scaler = row[v].metadata.scaler
      BY <1>3, <2>1, <3>1, MarkedTypes, MarkedKeepsBytes
    <3> QED
      BY <1>3, <2>1, <3>1, <3>2
  <2> QED
    BY <1>1, <1>2, <2>3, FilesTrace
<1> QED
  BY <1>4, <1>5

\* A promotion starts only for a row that has passed.
LEMMA BeginTrace ==
    ASSUME IInv, Numbers, Trace, NEW v \in Version, BeginPromote(v) \/ BeginArchive(v)
    PROVE  Numbers' /\ Trace'
<1>1. UNCHANGED <<made, scaler, model, file, row, benchmark, runtime>> /\ row[v] # None
  BY DEF BeginPromote, BeginArchive, files
<1>2. /\ request'.version = v /\ \A w \in request'.previous : row[w] # None
      /\ request'.kind = "promote" => row[v].passed = TRUE
  BY DEF BeginPromote, BeginArchive
<1>3. Numbers'
  BY <1>1 DEF Numbers
<1>4. Trace'
  BY <1>1, <1>2 DEF Trace, Vouched, Governed
<1> QED
  BY <1>3, <1>4

\* The process starts, stops, or does nothing.
LEMMA RuntimeTrace ==
    ASSUME IInv, Numbers, Trace,
           UNCHANGED vars \/ EndBenchmark \/ Restart \/ LoadLegacy \/ \E v \in Version : Load(v)
    PROVE  Numbers' /\ Trace'
<1>1. /\ UNCHANGED <<made, scaler, model, file, row>>
      /\ request' \in {request, None} /\ benchmark' \in {benchmark, None}
  BY DEF vars, EndBenchmark, Restart, LoadLegacy, Load, files
<1>2. Numbers'
  BY <1>1 DEF Numbers
<1>3. \/ runtime' = runtime
      \/ runtime'.state \in {"down", "degraded_fallback", "legacy_compatibility"}
      \/ /\ runtime'.state = "active_trained" /\ runtime'.version \in Version
         /\ Vouched(runtime'.version, runtime'.model)
  <2>1. CASE UNCHANGED vars \/ EndBenchmark \/ Restart \/ LoadLegacy
    BY <2>1 DEF vars, EndBenchmark, Restart, LoadLegacy
  <2>2. ASSUME NEW v \in Version, Load(v)
        PROVE  \/ runtime' = [state |-> "degraded_fallback"]
               \/ /\ file[v] # None /\ file[v].status = "active" /\ model[v] = file[v].model
                  /\ runtime' = [state |-> "active_trained", version |-> v, model |-> model[v]]
    BY <2>2 DEF Load, Verifies
  <2> QED
    BY <2>1, <2>2 DEF Trace
<1>4. Trace'
  BY <1>1, <1>3 DEF Trace, Vouched, Governed, RuntimeStates
<1> QED
  BY <1>2, <1>4

\* Every step keeps the trace.
LEMMA NextTrace == IInv /\ Numbers /\ Trace /\ [Next]_vars => (IInv /\ Numbers /\ Trace)'
<1> SUFFICES ASSUME IInv, Numbers, Trace, [Next]_vars PROVE Numbers' /\ Trace'
  BY NextIInv
<1>1. IInv'
  BY NextIInv
<1> QED
  BY <1>1, StartTrace, WriteTrace, RegisterTrace, ValidateTrace, CommitTrace, RequestTrace,
     BeginTrace, RuntimeTrace DEF Next

-----------------------------------------------------------------------------
\* What the gates say of the error rates.

\* A nonempty set of natural numbers has a least element.
LEMMA NatMinimum ==
    ASSUME NEW S \in SUBSET Nat, S # {}
    PROVE  \E n \in S : \A m \in S : n <= m
<1> DEFINE T == {1..n : n \in S}
<1>1. T \subseteq FiniteSubsetsOf(Nat) /\ T # {}
  <2>1. \A n \in Nat : IsFiniteSet(1..n) /\ 1..n \subseteq Nat
    BY FS_Interval
  <2> QED
    BY <2>1 DEF FiniteSubsetsOf
<1>2. PICK U \in T : \A V \in T : ~ (<<V, U>> \in StrictSubsetOrdering(Nat))
  <2>1. IsWellFoundedOn(StrictSubsetOrdering(Nat), FiniteSubsetsOf(Nat))
    BY FS_StrictSubsetOrderingWellFounded
  <2> HIDE DEF T
  <2> QED
    BY <1>1, <2>1, WFMin
<1>3. PICK n \in S : U = 1..n
  OBVIOUS
<1>4. ASSUME NEW m \in S, m < n PROVE FALSE
  <2>1. 1..m \subseteq 1..n /\ 1..m # 1..n /\ 1..m \subseteq Nat /\ 1..n \subseteq Nat
    <3>1. n \in 1..n /\ n \notin 1..m
      BY <1>4
    <3> QED
      BY <1>4, <3>1
  <2>2. <<1..m, 1..n>> \in StrictSubsetOrdering(Nat)
    BY <2>1 DEF StrictSubsetOrdering
  <2> QED
    BY <1>2, <1>3, <2>2
<1> QED
  BY <1>4

\* Rates of natural numbers, with something to divide by.
Rate == Nat \X (Nat \ {0})

\* A ratio is a rate.
LEMMA RatioIsRate == ASSUME NEW n \in Nat, NEW m \in Nat PROVE Ratio(n, m) \in Rate
BY DEF Ratio, Rate

\* The product of natural numbers is natural, and zero only with a factor.
LEMMA Products ==
    ASSUME NEW x \in Nat, NEW y \in Nat
    PROVE  x * y \in Nat /\ (x # 0 /\ y # 0 => x * y # 0)
<1>1. x * y \in Nat
  OBVIOUS
<1>2. ASSUME x # 0, y # 0 PROVE x * y # 0
  <2>1. x \in Int /\ y \in Int /\ x >= 1 /\ y >= 1
    BY <1>2
  <2> QED
    BY <2>1
<1> QED
  BY <1>1, <1>2

\* A common positive factor can be left out.
LEMMA Cancel ==
    ASSUME NEW x \in Nat, NEW y \in Nat, NEW m \in Nat, m > 0, x * m <= y * m
    PROVE  x <= y
<1> SUFFICES ASSUME x > y PROVE FALSE
  OBVIOUS
<1>1. PICK e \in Nat : x = y + 1 + e
  <2>1. x - y - 1 \in Nat /\ x = y + 1 + (x - y - 1)
    OBVIOUS
  <2> QED
    BY <2>1
<1>2. x * m = y * m + m + e * m
  BY <1>1
<1>3. e * m \in Nat /\ x * m \in Nat /\ y * m \in Nat
  OBVIOUS
<1> QED
  BY <1>2, <1>3

\* A factor on both sides of an inequality.
LEMMA Scaled ==
    ASSUME NEW x \in Nat, NEW y \in Nat, NEW m \in Nat, x <= y
    PROVE  x * m <= y * m
<1>1. PICK e \in Nat : y = x + e
  <2>1. y - x \in Nat /\ y = x + (y - x)
    OBVIOUS
  <2> QED
    BY <2>1
<1>2. y * m = x * m + e * m
  BY <1>1
<1>3. e * m \in Nat /\ x * m \in Nat
  OBVIOUS
<1> QED
  BY <1>2, <1>3

\* A sum of two rates is a rate, not below either, nor below what the first is not below.
LEMMA PlusBounds ==
    ASSUME NEW a \in Rate, NEW b \in Rate
    PROVE  /\ Plus(a, b) \in Rate
           /\ AtMost(b, Plus(a, b))
           /\ \A c \in Rate : AtMost(c, a) => AtMost(c, Plus(a, b))
<1> DEFINE x == a[1]
           n == a[2]
           y == b[1]
           m == b[2]
<1>1. x \in Nat /\ n \in Nat /\ n # 0 /\ y \in Nat /\ m \in Nat /\ m # 0
  BY DEF Rate
<1>2. Plus(a, b) = <<x * m + y * n, n * m>>
  BY DEF Plus
<1> HIDE DEF x, n, y, m
<1>3. x * m \in Nat /\ y * n \in Nat /\ n * m \in Nat /\ n * m # 0
  BY <1>1, Products
<1>4. Plus(a, b) \in Rate
  BY <1>2, <1>3 DEF Rate
<1>5. AtMost(b, Plus(a, b))
  <2>1. y * (n * m) = (y * n) * m
    BY <1>1
  <2>2. (x * m + y * n) * m = (x * m) * m + (y * n) * m
    BY <1>1
  <2>3. (x * m) * m \in Nat /\ (y * n) * m \in Nat
    BY <1>1, <1>3, Products
  <2>4. y * (n * m) <= (x * m + y * n) * m
    BY <2>1, <2>2, <2>3
  <2> QED
    BY <1>2, <2>4 DEF AtMost, y, m
<1>6. ASSUME NEW c \in Rate, AtMost(c, a) PROVE AtMost(c, Plus(a, b))
  <2> DEFINE z == c[1]
             k == c[2]
  <2>1. z \in Nat /\ k \in Nat
    BY DEF Rate
  <2>2. z * n <= x * k
    BY <1>6 DEF AtMost, x, n
  <2> HIDE DEF z, k
  <2>3. z * n \in Nat /\ x * k \in Nat /\ (y * n) * k \in Nat /\ (x * k) * m \in Nat
    BY <1>1, <1>3, <2>1, Products
  <2>4. (z * n) * m <= (x * k) * m
    BY <1>1, <2>2, <2>3, Scaled
  <2>5. z * (n * m) = (z * n) * m
    BY <1>1, <2>1
  <2>6. (x * m + y * n) * k = (x * k) * m + (y * n) * k
    BY <1>1, <2>1
  <2>7. (z * n) * m \in Nat
    BY <1>1, <2>3, Products
  <2>8. z * (n * m) <= (x * m + y * n) * k
    BY <2>3, <2>4, <2>5, <2>6, <2>7
  <2> QED
    BY <1>2, <2>8 DEF AtMost, z, k
<1> QED
  BY <1>4, <1>5, <1>6

\* The recursive sum of k rates is a function: at 0 nothing, then one rate more.
LEMMA TotalExists ==
    ASSUME NEW k \in Nat, NEW rate \in [1..k -> Rate]
    PROVE  \E h \in [0..k -> Rate] :
               h = [i \in 0..k |-> IF i = 0 THEN <<0, 1>> ELSE Plus(h[i - 1], rate[i])]
<1> DEFINE Step(h, i) == IF i = 0 THEN <<0, 1>> ELSE Plus(h[i - 1], rate[i])
           Good(n, h) == \A i \in 0..k : i <= n => h[i] = Step(h, i)
           Bad == {n \in Nat : ~ \E h \in [0..k -> Rate] : Good(n, h)}
<1>1. ASSUME NEW h \in [0..k -> Rate], NEW i \in 0..k PROVE Step(h, i) \in Rate
  <2>1. CASE i = 0
    BY <2>1 DEF Rate
  <2>2. CASE i # 0
    <3>1. i - 1 \in 0..k /\ i \in 1..k
      BY <2>2
    <3>2. h[i - 1] \in Rate /\ rate[i] \in Rate
      BY <3>1
    <3> QED
      BY <2>2, <3>2, PlusBounds
  <2> QED
    BY <2>1, <2>2
<1>2. Bad = {}
  <2> SUFFICES ASSUME Bad # {} PROVE FALSE
    OBVIOUS
  <2>1. PICK n \in Bad : \A m \in Bad : n <= m
    <3>1. Bad \subseteq Nat
      OBVIOUS
    <3> HIDE DEF Bad
    <3> QED
      BY <3>1, NatMinimum
  <2>2. n # 0
    <3> DEFINE z == [i \in 0..k |-> <<0, 1>>]
    <3>1. z \in [0..k -> Rate]
      BY DEF Rate
    <3>2. Good(0, z)
      OBVIOUS
    <3> HIDE DEF z, Good
    <3> QED
      BY <2>1, <3>1, <3>2
  <2>3. n \in Nat /\ n - 1 \in Nat /\ n - 1 \notin Bad
    <3>1. n \in Nat /\ n - 1 \in Nat
      BY <2>2
    <3> HIDE DEF Bad
    <3> QED
      BY <2>1, <3>1
  <2>4. PICK h \in [0..k -> Rate] : Good(n - 1, h)
    BY <2>3
  <2> DEFINE g == [i \in 0..k |-> IF i <= n - 1 THEN h[i] ELSE Step(h, i)]
  <2>5. g \in [0..k -> Rate]
    <3> HIDE DEF Step
    <3> QED
      BY <1>1
  <2>6. Good(n, g)
    <3> SUFFICES ASSUME NEW i \in 0..k, i <= n PROVE g[i] = Step(g, i)
      OBVIOUS
    <3>1. g[i] = Step(h, i)
      <4> HIDE DEF Step
      <4> QED
        BY <2>4
    <3>2. i # 0 => g[i - 1] = h[i - 1]
      <4> HIDE DEF Step
      <4> QED
        BY <2>3
    <3> HIDE DEF g
    <3> QED
      BY <3>1, <3>2
  <2> QED
    <3> HIDE DEF Good, g
    <3> QED
      BY <2>1, <2>5, <2>6
<1>3. PICK h \in [0..k -> Rate] : Good(k, h)
  <2> HIDE DEF Good
  <2> QED
    BY <1>2
<1>4. h = [i \in 0..k |-> Step(h, i)]
  <2> HIDE DEF Step
  <2> QED
    BY <1>3
<1> QED
  BY <1>4

\* A sum of rates is a rate, not below any of them.
LEMMA TotalBounds ==
    ASSUME NEW k \in Nat, NEW rate \in [1..k -> Rate]
    PROVE  Total(k, rate) \in Rate /\ \A c \in 1..k : AtMost(rate[c], Total(k, rate))
<1> DEFINE Def(h) == h = [i \in 0..k |-> IF i = 0 THEN <<0, 1>> ELSE Plus(h[i - 1], rate[i])]
           sum == CHOOSE h : Def(h)
<1>1. Total(k, rate) = sum[k]
  BY DEF Total
<1>2. Def(sum)
  <2>1. \E h : Def(h)
    BY TotalExists
  <2> HIDE DEF Def
  <2> QED
    BY <2>1
<1>3. /\ sum[0] = <<0, 1>>
      /\ \A i \in 1..k : sum[i] = Plus(sum[i - 1], rate[i])
  <2>1. ASSUME NEW h, Def(h)
        PROVE  h[0] = <<0, 1>> /\ \A i \in 1..k : h[i] = Plus(h[i - 1], rate[i])
    <3>1. \A i \in 0..k : h[i] = IF i = 0 THEN <<0, 1>> ELSE Plus(h[i - 1], rate[i])
      BY <2>1, Zenon
    <3>2. 0 \in 0..k /\ \A i \in 1..k : i \in 0..k /\ i # 0
      OBVIOUS
    <3> QED
      BY <3>1, <3>2
  <2> HIDE DEF Def, sum
  <2> QED
    BY <1>2, <2>1
<1> HIDE DEF sum, Def
<1> DEFINE Ok(i) == sum[i] \in Rate /\ \A c \in 1..i : AtMost(rate[c], sum[i])
           Bad == {i \in 0..k : ~ Ok(i)}
<1>4. Ok(0)
  BY <1>3 DEF Rate
<1>5. ASSUME NEW i \in 1..k, Ok(i - 1) PROVE Ok(i)
  <2>1. sum[i] = Plus(sum[i - 1], rate[i]) /\ rate[i] \in Rate /\ sum[i - 1] \in Rate
    BY <1>3, <1>5
  <2>2. ASSUME NEW c \in 1..i PROVE AtMost(rate[c], sum[i])
    <3>1. CASE c = i
      BY <2>1, <3>1, PlusBounds
    <3>2. CASE c # i
      <4>1. c \in 1..(i - 1) /\ c \in 1..k
        BY <3>2
      <4>2. AtMost(rate[c], sum[i - 1]) /\ rate[c] \in Rate
        BY <1>5, <4>1
      <4> QED
        BY <2>1, <4>2, PlusBounds
    <3> QED
      BY <3>1, <3>2
  <2>3. sum[i] \in Rate
    BY <2>1, PlusBounds
  <2> QED
    BY <2>2, <2>3
<1>6. Bad = {}
  <2> SUFFICES ASSUME Bad # {} PROVE FALSE
    OBVIOUS
  <2>1. PICK n \in Bad : \A m \in Bad : n <= m
    <3>1. Bad \subseteq Nat
      OBVIOUS
    <3> HIDE DEF Bad
    <3> QED
      BY <3>1, NatMinimum
  <2>2. n \in 0..k /\ ~ Ok(n)
    OBVIOUS
  <2> HIDE DEF Ok
  <2>3. n # 0
    BY <1>4, <2>2
  <2>4. n \in 1..k /\ n - 1 \in 0..k /\ n - 1 < n
    BY <2>2, <2>3
  <2>5. Ok(n - 1)
    BY <2>1, <2>4
  <2> QED
    BY <1>5, <2>2, <2>4, <2>5
<1>7. Ok(k)
  <2> HIDE DEF Ok
  <2> QED
    BY <1>6
<1> QED
  BY <1>1, <1>7

\* The counts of a confusion matrix are natural numbers.
LEMMA ConfusionCounts ==
    ASSUME NEW k \in Nat, NEW s \in Sample(k), NEW threshold, NEW c \in 1..k
    PROVE  Confusion(k, s, threshold)[c].fp \in Nat /\ Confusion(k, s, threshold)[c].tn \in Nat
<1>1. IsFiniteSet(DOMAIN s)
  <2>1. DOMAIN s = 1..Len(s) /\ Len(s) \in Nat
    BY DEF Sample
  <2> QED
    BY <2>1, FS_Interval
<1>2. ASSUME NEW actual, NEW flagged
      PROVE  Cardinality({i \in DOMAIN s : /\ (s[i].truth = c) = actual
                                           /\ (Predicted(s[i].p, threshold) = c) = flagged}) \in Nat
  <2> DEFINE S == {i \in DOMAIN s : /\ (s[i].truth = c) = actual
                                    /\ (Predicted(s[i].p, threshold) = c) = flagged}
  <2>1. S \in SUBSET DOMAIN s
    OBVIOUS
  <2> HIDE DEF S
  <2>2. Cardinality(S) \in Nat
    BY <1>1, <2>1, FS_Subset, FS_CardinalityType
  <2> QED
    BY <2>2 DEF S
<1> QED
  BY <1>2 DEF Confusion

\* The gate bounds the mean of the classes' false positive rates, and so each of them by
\* their number times the gate's rate.
LEMMA GateBoundsEach ==
    ASSUME NEW k \in Nat, NEW m, NEW limit, limit[1] \in Nat, limit[2] \in Nat,
           \A c \in 1..k : m[c].fp \in Nat /\ m[c].tn \in Nat,
           FalsePositiveRate(k, m) # None, AtMost(FalsePositiveRate(k, m), limit),
           NEW c \in 1..k
    PROVE  AtMost(Ratio(m[c].fp, m[c].fp + m[c].tn), <<k * limit[1], limit[2]>>)
<1> DEFINE beside == {e \in 1..k : m[e].fp + m[e].tn # 0}
           rate == [e \in 1..k |-> Ratio(m[e].fp, m[e].fp + m[e].tn)]
           total == Total(k, rate)
           n == Cardinality(beside)
           l == limit[1]
           d == limit[2]
<1>1. rate \in [1..k -> Rate] /\ rate[c] = Ratio(m[c].fp, m[c].fp + m[c].tn)
  BY RatioIsRate
<1>2. n \in Nat /\ n <= k
  <2>1. IsFiniteSet(1..k) /\ Cardinality(1..k) = k
    BY FS_Interval
  <2>2. beside \subseteq 1..k
    OBVIOUS
  <2> HIDE DEF beside
  <2> QED
    BY <2>1, <2>2, FS_Subset, FS_CardinalityType
<1>3. FalsePositiveRate(k, m) = <<total[1], n * total[2]>>
  BY DEF FalsePositiveRate, Mean
<1>4. total \in Rate /\ AtMost(rate[c], total)
  <2> HIDE DEF rate
  <2> QED
    BY <1>1, TotalBounds
<1>5. total[1] * d <= l * (n * total[2])
  BY <1>3 DEF AtMost
<1> DEFINE x == rate[c][1]
           y == rate[c][2]
           a == total[1]
           b == total[2]
<1>6. x \in Nat /\ y \in Nat /\ a \in Nat /\ b \in Nat /\ b > 0 /\ l \in Nat /\ d \in Nat
  <2> HIDE DEF rate, total
  <2> QED
    BY <1>1, <1>4 DEF Rate
<1>7. x * b <= a * y /\ a * d <= l * (n * b)
  BY <1>4, <1>5 DEF AtMost
<1> HIDE DEF rate, total, n, l, d, x, y, a, b
<1>8. /\ x * b \in Nat /\ a * y \in Nat /\ a * d \in Nat /\ n * b \in Nat /\ l * (n * b) \in Nat
      /\ x * d \in Nat /\ k * l \in Nat /\ (k * l) * y \in Nat /\ n * (l * b) \in Nat
      /\ k * (l * b) \in Nat /\ l * b \in Nat
  BY <1>2, <1>6, Products
<1>9. (x * b) * d <= (a * y) * d
  BY <1>6, <1>7, <1>8, Scaled
<1>10. (a * d) * y <= (l * (n * b)) * y
  BY <1>6, <1>7, <1>8, Scaled
<1>11. n * (l * b) <= k * (l * b)
  BY <1>2, <1>8, Scaled
<1>12. (n * (l * b)) * y <= (k * (l * b)) * y
  BY <1>6, <1>8, <1>11, Scaled
<1>13. /\ (x * b) * d = (x * d) * b
       /\ (a * y) * d = (a * d) * y
       /\ (l * (n * b)) * y = (n * (l * b)) * y
       /\ (k * (l * b)) * y = ((k * l) * y) * b
  BY <1>2, <1>6
<1>14. (x * d) * b <= ((k * l) * y) * b
  <2>1. /\ (x * d) * b \in Nat /\ (a * d) * y \in Nat /\ (n * (l * b)) * y \in Nat
        /\ ((k * l) * y) * b \in Nat
    BY <1>6, <1>8, Products
  <2> QED
    BY <1>9, <1>10, <1>12, <1>13, <2>1
<1>15. x * d <= (k * l) * y
  BY <1>6, <1>8, <1>14, Cancel
<1>16. AtMost(rate[c], <<k * l, d>>)
  BY <1>15 DEF AtMost, x, y
<1> QED
  BY <1>1, <1>16 DEF l, d

\* The trace from the runtime to a benchmark implies that it is governed.
LEMMA TraceGoverns == IInv /\ Trace => RuntimeIsGoverned
<1> SUFFICES ASSUME IInv, Trace, runtime.state = "active_trained" PROVE RuntimeIsGoverned
  BY DEF RuntimeIsGoverned
<1> DEFINE v == runtime.version
           m == made[runtime.model]
           k == Len(m.classes)
<1>1. row[v] # None /\ row[v].checksum = runtime.model /\ runtime.model \in DOMAIN made
  BY DEF Trace, Vouched, Governed
<1>2. PICK g \in Gates : PassesGates(m, g)
  BY DEF Trace, Vouched, Governed
<1>3. m \in Benchmarks
  BY <1>1 DEF IInv, Types
<1>4. PICK t \in Trained :
         m.classes = t.classes /\ \E threshold : m.test = Confusion(Len(t.classes), t.test, threshold)
  <2> HIDE DEF m
  <2>1. PICK x \in Dataset \X Requested, policy \in ThresholdPolicy, t \in Trained :
            m = [strategy |-> x[2], classes |-> t.classes,
                 test |-> Confusion(Len(t.classes), t.test,
                                    SelectThreshold(t.classes, t.validation, policy))]
    BY <1>3 DEF Benchmarks
  <2>2. /\ m.classes = t.classes
        /\ m.test = Confusion(Len(t.classes), t.test,
                              SelectThreshold(t.classes, t.validation, policy))
    BY <2>1
  <2> QED
    BY <2>2
<1>5. m.strategy # "random_dev_only"
  BY <1>2 DEF PassesGates, PromotableSplits
<1>6. /\ t.classes \in Seq(STRING) /\ t.test \in Sample(Len(t.classes))
      /\ g.falsePositives[1] \in Nat /\ g.falsePositives[2] \in Nat
  BY RegistryAssumption
<1> HIDE DEF m
<1>7. FalsePositiveRate(k, m.test) # None /\ AtMost(FalsePositiveRate(k, m.test), g.falsePositives)
  BY <1>2 DEF PassesGates
<1>8. k \in Nat /\ \A c \in 1..k : m.test[c].fp \in Nat /\ m.test[c].tn \in Nat
  <2>1. PICK threshold : m.test = Confusion(k, t.test, threshold)
    BY <1>4
  <2>2. k \in Nat /\ t.test \in Sample(k)
    BY <1>4, <1>6
  <2> HIDE DEF k
  <2> QED
    BY <2>1, <2>2, ConfusionCounts
<1> HIDE DEF k
<1>9. \A c \in 1..k : AtMost(Ratio(m.test[c].fp, m.test[c].fp + m.test[c].tn),
                             <<k * g.falsePositives[1], g.falsePositives[2]>>)
  BY <1>6, <1>7, <1>8, GateBoundsEach
<1> QED
  BY <1>1, <1>5, <1>9 DEF RuntimeIsGoverned, m, k

-----------------------------------------------------------------------------
\* The theorems.

\* One administrator at a time: through promotions, archivings, benchmarks that write
\* the files and restarts anywhere, at most one version is active in the registry.
THEOREM OneModelIsActive == Spec => []OneActive
<1>1. IInv => OneActive
  BY DEF IInv
<1> QED
  BY InitIInv, NextIInv, <1>1, PTL DEF Spec

\* The metadata file of an archived version never says that it is active, although the
\* file is written before the row and a restart may come in between.
THEOREM ArchivedStaysDown == Spec => []ArchivedIsDown
<1>1. IInv => ArchivedIsDown
  BY DEF IInv, ArchivedHasFile, ArchivedIsDown
<1> QED
  BY InitIInv, NextIInv, <1>1, PTL DEF Spec

\* What the registry's rows and files hold, in every behaviour.
THEOREM RegistryTypes == Spec => []TypeOK
<1>1. IInv /\ Numbers /\ Trace => TypeOK
  <2> SUFFICES ASSUME IInv, Numbers, Trace PROVE TypeOK
    OBVIOUS
  <2> USE DEF IInv, Types
  <2>1. Len(made) \in Nat /\ Len(made) <= MaxBenchmarks /\ MaxBenchmarks \in Nat
    BY RegistryAssumption DEF Numbers
  <2>2. scaler \in [Run -> 0..MaxBenchmarks] /\ model \in [Version -> 0..MaxBenchmarks]
    BY <2>1 DEF Numbers
  <2>3. ASSUME NEW v \in Version
        PROVE  /\ file[v] = None \/ file[v] \in Metadata
               /\ row[v] = None \/ row[v] \in ModelVersion
               /\ row[v] # None => row[v].checksum = row[v].metadata.model
    BY NotNone DEF Numbers
  <2> QED
    BY <2>1, <2>2, <2>3 DEF TypeOK, Trace
<1> QED
  BY InitIInv, InitTrace, NextTrace, <1>1, PTL DEF Spec

\* A model that answers as active_trained was registered with exactly its bytes, and the
\* false alarms of each of its k classes on the test windows are at most k times a gate's
\* rate: for any k, any answers, and through benchmarks that overwrite artifacts,
\* validations with other gates, and restarts.
THEOREM RuntimeAnswersForGates == Spec => []RuntimeIsGoverned
BY InitIInv, InitTrace, NextTrace, TraceGoverns, PTL DEF Spec
=============================================================================
