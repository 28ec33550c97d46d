----------------------------- MODULE ConfigProofs -----------------------------
(***************************************************************************)
(* Proofs about load_config_file as main calls it, for any configuration   *)
(* file and any keys: what is loaded is what the file says, but for        *)
(* numbers of 2^32 and more, and a file is loaded if and only if it is     *)
(* acceptable. With the invariant of LifecycleProofs also the types of all *)
(* of Lifecycle's state.                                                   *)
(***************************************************************************)
EXTENDS LifecycleProofs, FiniteSetTheorems, SequenceTheorems

LineType == [key : STRING, value : Nat, parses : BOOLEAN]

\* The number of lines that have been read.
Taken == Len(file) - Len(lines)

\* The types that Inv leaves open.
LoadTyped ==
  /\ file \in Seq(LineType) /\ lines \in Seq(LineType)
  /\ loading \in {"lines", "loaded", "rejected"}
  /\ settings \in [SettingKeys -> Nat]
  /\ \A key \in NumberKeys : settings[key] < Narrow
  /\ backends \in Seq(1 .. MaxPort)

ThreadsTyped ==
  /\ health \in {"none", "running", "ended", "joined"}
  /\ admin \in {"none", "bind", "store", "test", "accept", "ended"}
  /\ outcome \in {"running", "0", "1", "aborted"}
  /\ unwinding \in BOOLEAN /\ admin_joined \in BOOLEAN /\ admin_stop \in BOOLEAN
  /\ listener_fd \in BOOLEAN /\ listening \in BOOLEAN /\ stop_requested \in BOOLEAN
  /\ handlers \in 0 .. MaxHandlers

\* What is left is the rest of the file, and what has been read was acceptable.
RestInv ==
  /\ Len(lines) <= Len(file)
  /\ \A i \in 1 .. Len(lines) : lines[i] = file[Taken + i]
  /\ \A i \in 1 .. Taken : ~ Rejected(file[i])

\* A setting has the value of its last line so far, or its default.
SetBy(key, i) ==
  /\ file[i].key = key /\ settings[key] = Stored(file[i])
  /\ \A j \in i + 1 .. Taken : file[j].key # key
SettingsInv ==
  \A key \in SettingKeys :
    \/ settings[key] = Default[key] /\ \A i \in 1 .. Taken : file[i].key # key
    \/ \E i \in 1 .. Taken : SetBy(key, i)

\* The backends are those of the lines so far.
BackendsInv ==
  /\ Len(backends) = BackendsIn(file, Taken)
  /\ \A i \in 1 .. Taken : IsBackend(file[i]) => backends[BackendsIn(file, i)] = file[i].value

EndInv ==
  /\ loading = "loaded" => lines = <<>> /\ backends # <<>>
  /\ loading = "rejected" => IF lines = <<>> THEN backends = <<>> ELSE Rejected(Head(lines))

LoadInv ==
  /\ LoadTyped
  /\ main = "load" => RestInv /\ SettingsInv /\ BackendsInv /\ EndInv

-----------------------------------------------------------------------------
(* What a file says.                                                       *)

LEMMA StoredTyped ==
  ASSUME NEW line \in LineType
  PROVE  Stored(line) \in Nat /\ (line.key \in NumberKeys => Stored(line) < Narrow)
<1>1. line.value \in Nat /\ Narrow \in Nat \ {0}
  BY NarrowAssumption DEF LineType
<1>2. line.value % Narrow \in 0 .. Narrow - 1
  BY <1>1
<1> QED
  BY <1>1, <1>2 DEF Stored

\* Nothing is lost of a value that is no number, or one of 32 bits.
LEMMA StoredWhole ==
  ASSUME NEW line \in LineType, line.key \in NumberKeys => line.value < Narrow
  PROVE  Stored(line) = line.value
<1>1. line.value \in Nat /\ Narrow \in Nat \ {0}
  BY NarrowAssumption DEF LineType
<1>2. line.value < Narrow => line.value % Narrow = line.value
  BY <1>1
<1> QED
  BY <1>2 DEF Stored

\* Counting one line more.
LEMMA CountStep ==
  ASSUME NEW f, NEW n \in Nat
  PROVE  /\ BackendsIn(f, n) \in Nat
         /\ BackendsIn(f, 0) = 0
         /\ BackendsIn(f, n + 1) = IF IsBackend(f[n + 1]) THEN BackendsIn(f, n) + 1
                                                          ELSE BackendsIn(f, n)
<1> DEFINE upto(m) == {i \in 1 .. m : IsBackend(f[i])}
<1>1. IsFiniteSet(upto(n)) /\ Cardinality(upto(n)) \in Nat
  <2>1. IsFiniteSet(1 .. n)
    BY FS_Interval
  <2>2. upto(n) \in SUBSET (1 .. n)
    OBVIOUS
  <2>3. IsFiniteSet(upto(n))
    BY <2>1, <2>2, FS_Subset
  <2> QED
    BY <2>3, FS_CardinalityType
<1>2. upto(0) = {} /\ Cardinality({}) = 0
  BY FS_EmptySet
<1>3. n + 1 \notin upto(n)
  OBVIOUS
<1>4. upto(n + 1) = IF IsBackend(f[n + 1]) THEN upto(n) \cup {n + 1} ELSE upto(n)
  <2>1. 1 .. n + 1 = (1 .. n) \cup {n + 1}
    OBVIOUS
  <2> QED
    BY <2>1
<1>5. Cardinality(upto(n) \cup {n + 1}) = Cardinality(upto(n)) + 1
  <2> HIDE DEF upto
  <2> QED
    BY <1>1, <1>3, FS_AddElement
<1>6. \A m : BackendsIn(f, m) = Cardinality(upto(m))
  BY DEF BackendsIn
<1> HIDE DEF upto
<1> QED
  BY <1>1, <1>2, <1>4, <1>5, <1>6

\* A line that names a backend counts itself, and no later line is before it.
LEMMA CountBounded ==
  ASSUME NEW f, NEW n \in Nat, NEW i \in 1 .. n, IsBackend(f[i])
  PROVE  BackendsIn(f, i) \in 1 .. BackendsIn(f, n)
<1> DEFINE upto(m) == {j \in 1 .. m : IsBackend(f[j])}
<1>1. IsFiniteSet(upto(n))
  <2>1. IsFiniteSet(1 .. n) /\ upto(n) \in SUBSET (1 .. n)
    BY FS_Interval
  <2> QED
    BY <2>1, FS_Subset
<1>2. upto(i) \in SUBSET upto(n) /\ i \in upto(i)
  OBVIOUS
<1>3. \A m : BackendsIn(f, m) = Cardinality(upto(m))
  BY DEF BackendsIn
<1> HIDE DEF upto
<1>4. IsFiniteSet(upto(i)) /\ Cardinality(upto(i)) <= Cardinality(upto(n))
  BY <1>1, <1>2, FS_Subset
<1>5. Cardinality(upto(i)) # 0
  BY <1>2, <1>4, FS_EmptySet
<1>6. Cardinality(upto(i)) \in Nat /\ Cardinality(upto(n)) \in Nat
  BY <1>1, <1>4, FS_CardinalityType
<1> QED
  BY <1>3, <1>4, <1>5, <1>6

\* The first line that is left is the one after those that have been read.
LEMMA NextLine ==
  ASSUME LoadTyped, RestInv, lines # <<>>
  PROVE  /\ Taken \in Nat /\ Taken + 1 \in 1 .. Len(file)
         /\ Head(lines) = file[Taken + 1] /\ Head(lines) \in LineType
         /\ Tail(lines) \in Seq(LineType) /\ Len(Tail(lines)) = Len(lines) - 1
         /\ \A i \in 1 .. Len(lines) - 1 : Tail(lines)[i] = lines[i + 1]
<1>1. /\ lines \in Seq(LineType) /\ file \in Seq(LineType)
      /\ Len(lines) \in Nat \ {0} /\ Len(file) \in Nat /\ Len(lines) <= Len(file)
  BY EmptySeq DEF LoadTyped, RestInv
<1>2. Head(lines) = lines[1] /\ Head(lines) \in LineType
  BY <1>1
<1>3. lines[1] = file[Taken + 1]
  BY <1>1 DEF RestInv
<1> QED
  BY <1>1, <1>2, <1>3 DEF Taken

-----------------------------------------------------------------------------
(* The loading of a file.                                                  *)

LEMMA ReadLineTyped ==
  ASSUME LoadTyped, RestInv, ReadLine, UNCHANGED file
  PROVE  LoadTyped'
<1> DEFINE line == Head(lines)
<1>1. /\ line \in LineType /\ Tail(lines) \in Seq(LineType) /\ ~ Rejected(line)
      /\ lines' = Tail(lines) /\ settings' = Assigned(line) /\ loading' = loading
      /\ backends' = IF line.key = "backend" THEN Append(backends, line.value) ELSE backends
  BY NextLine DEF ReadLine
<1> HIDE DEF line
<1>2. /\ settings' \in [SettingKeys -> Nat]
      /\ \A key \in NumberKeys : settings'[key] < Narrow
  <2>1. CASE line.key \in SettingKeys
    <3>1. settings' = [settings EXCEPT ![line.key] = Stored(line)]
      BY <1>1, <2>1 DEF Assigned
    <3>2. Stored(line) \in Nat /\ (line.key \in NumberKeys => Stored(line) < Narrow)
      BY <1>1, StoredTyped
    <3> QED
      BY <3>1, <3>2 DEF LoadTyped, SettingKeys
  <2>2. CASE line.key \notin SettingKeys
    BY <1>1, <2>2 DEF Assigned, LoadTyped
  <2> QED
    BY <2>1, <2>2
<1>3. backends' \in Seq(1 .. MaxPort)
  <2>1. line.key = "backend" => line.value \in 1 .. MaxPort
    BY <1>1 DEF Rejected
  <2>2. CASE line.key = "backend"
    <3>1. backends' = Append(backends, line.value)
      BY <1>1, <2>2
    <3> QED
      BY <2>1, <2>2, <3>1 DEF LoadTyped
  <2>3. CASE line.key # "backend"
    BY <1>1, <2>3 DEF LoadTyped
  <2> QED
    BY <2>2, <2>3
<1> QED
  BY <1>1, <1>2, <1>3 DEF LoadTyped

LEMMA ReadLineRest ==
  ASSUME LoadTyped, RestInv, ReadLine, UNCHANGED file
  PROVE  Taken' = Taken + 1 /\ RestInv'
<1>1. /\ lines # <<>> /\ lines' = Tail(lines) /\ ~ Rejected(Head(lines))
  BY DEF ReadLine
<1>2. /\ Len(lines) \in Nat /\ Len(file) \in Nat
      /\ Taken \in Nat /\ Head(lines) = file[Taken + 1] /\ Len(lines') = Len(lines) - 1
      /\ \A i \in 1 .. Len(lines) - 1 : lines'[i] = lines[i + 1]
  BY <1>1, NextLine DEF LoadTyped
<1>3. Taken' = Taken + 1
  BY <1>2 DEF Taken
<1>4. Len(lines') <= Len(file')
  BY <1>2 DEF RestInv
<1>5. ASSUME NEW i \in 1 .. Len(lines') PROVE lines'[i] = file'[Taken' + i]
  <2>1. i + 1 \in 1 .. Len(lines) /\ i \in 1 .. Len(lines) - 1
    BY <1>2
  <2>2. lines[i + 1] = file[Taken + (i + 1)]
    BY <2>1 DEF RestInv
  <2>3. Taken + (i + 1) = Taken' + i
    BY <1>2, <1>3, <2>1
  <2> QED
    BY <1>2, <2>1, <2>2, <2>3
<1>6. ASSUME NEW i \in 1 .. Taken' PROVE ~ Rejected(file[i])
  <2>1. CASE i = Taken + 1
    BY <1>1, <1>2, <2>1
  <2>2. CASE i \in 1 .. Taken
    BY <2>2 DEF RestInv
  <2> QED
    BY <1>2, <1>3, <2>1, <2>2
<1>7. (\A i \in 1 .. Taken : ~ Rejected(file[i]))'
  BY <1>6 DEF Rejected
<1> QED
  BY <1>3, <1>4, <1>5, <1>7 DEF RestInv

LEMMA ReadLineSettings ==
  ASSUME LoadTyped, RestInv, SettingsInv, ReadLine, UNCHANGED file
  PROVE  SettingsInv'
<1> DEFINE line == Head(lines)
<1>1. /\ settings' = Assigned(line) /\ line \in LineType
      /\ Taken \in Nat /\ line = file[Taken + 1] /\ Taken' = Taken + 1
  BY NextLine, ReadLineRest DEF ReadLine
<1> HIDE DEF line
<1> SUFFICES ASSUME NEW key \in SettingKeys
             PROVE  \/ /\ settings'[key] = Default[key]
                       /\ \A i \in 1 .. Taken' : file'[i].key # key
                    \/ \E i \in 1 .. Taken' : SetBy(key, i)'
  BY DEF SettingsInv
<1>2. CASE line.key = key
  <2>1. settings'[key] = Stored(file'[Taken + 1])
    BY <1>1, <1>2 DEF Assigned, LoadTyped
  <2>3. \A j \in (Taken + 1) + 1 .. Taken' : file'[j].key # key
    BY <1>1
  <2>4. Taken + 1 \in 1 .. Taken'
    BY <1>1
  <2>5. file'[Taken + 1].key = key
    BY <1>1, <1>2
  <2>6. \E i \in 1 .. Taken' : SetBy(key, i)'
    <3>1. \A i : i = Taken + 1 => SetBy(key, i)'
      BY <2>1, <2>3, <2>5 DEF SetBy, Stored
    <3> QED
      BY <2>4, <3>1
  <2> QED
    BY <2>6
<1>3. CASE line.key # key
  <2>1. settings'[key] = settings[key]
    BY <1>1, <1>3 DEF Assigned, LoadTyped
  <2>2. \A j \in 1 .. Taken' : j \in 1 .. Taken \/ j = Taken + 1
    BY <1>1
  <2>3. CASE settings[key] = Default[key] /\ \A i \in 1 .. Taken : file[i].key # key
    BY <1>1, <1>3, <2>1, <2>2, <2>3
  <2>4. CASE \E i \in 1 .. Taken : SetBy(key, i)
    <3>1. PICK i \in 1 .. Taken : SetBy(key, i)
      BY <2>4
    <3>2. ASSUME NEW j \in i + 1 .. Taken' PROVE file'[j].key # key
      <4>1. j \in i + 1 .. Taken \/ j = Taken + 1
        BY <1>1
      <4> QED
        BY <1>1, <1>3, <3>1, <4>1 DEF SetBy
    <3>3. i \in 1 .. Taken'
      BY <1>1
    <3>4. SetBy(key, i)'
      BY <2>1, <3>1, <3>2 DEF SetBy, Stored
    <3> QED
      BY <3>3, <3>4
  <2> QED
    BY <2>3, <2>4 DEF SettingsInv
<1> QED
  BY <1>2, <1>3

LEMMA ReadLineBackends ==
  ASSUME LoadTyped, RestInv, BackendsInv, ReadLine, UNCHANGED file
  PROVE  BackendsInv'
<1> DEFINE line == Head(lines)
<1>1. /\ backends' = IF line.key = "backend" THEN Append(backends, line.value) ELSE backends
      /\ Taken \in Nat /\ line = file[Taken + 1] /\ Taken' = Taken + 1
  BY NextLine, ReadLineRest DEF ReadLine
<1> HIDE DEF line
<1>2. /\ BackendsIn(file, Taken) \in Nat
      /\ BackendsIn(file, Taken + 1) =
           IF IsBackend(line) THEN BackendsIn(file, Taken) + 1 ELSE BackendsIn(file, Taken)
  BY <1>1, CountStep
<1>3. Len(backends') = BackendsIn(file, Taken + 1)
  BY <1>1, <1>2 DEF BackendsInv, LoadTyped, IsBackend
<1>4. ASSUME NEW i \in 1 .. Taken + 1, IsBackend(file[i])
      PROVE  backends'[BackendsIn(file, i)] = file[i].value
  <2>1. CASE i = Taken + 1
    <3>1. backends' = Append(backends, line.value) /\ Len(backends) = BackendsIn(file, Taken)
          /\ backends \in Seq(1 .. MaxPort)
      BY <1>1, <1>4, <2>1 DEF IsBackend, BackendsInv, LoadTyped
    <3>2. backends'[Len(backends) + 1] = line.value
      BY <3>1
    <3>3. BackendsIn(file, i) = Len(backends) + 1
      BY <1>1, <1>2, <1>4, <2>1, <3>1
    <3> QED
      BY <1>1, <2>1, <3>2, <3>3
  <2>2. CASE i \in 1 .. Taken
    <3>1. BackendsIn(file, i) \in 1 .. BackendsIn(file, Taken)
      BY <1>1, <1>4, <2>2, CountBounded
    <3>2. backends'[BackendsIn(file, i)] = backends[BackendsIn(file, i)]
      BY <1>1, <3>1 DEF BackendsInv, LoadTyped
    <3> QED
      BY <1>4, <2>2, <3>2 DEF BackendsInv
  <2>3. i = Taken + 1 \/ i \in 1 .. Taken
    BY <1>1
  <2> QED
    BY <2>1, <2>2, <2>3
<1> QED
  BY <1>1, <1>3, <1>4 DEF BackendsInv, BackendsIn, IsBackend

LEMMA LoadKeepsFile ==
  ASSUME LoadInv, Load
  PROVE  LoadInv'
<1>1. main = "load" /\ UNCHANGED <<main, file>>
  BY DEF Load, mainVars
<1>2. LoadTyped /\ RestInv /\ SettingsInv /\ BackendsInv /\ EndInv
  BY <1>1 DEF LoadInv
<1>3. CASE ReadLine
  <2>1. LoadTyped' /\ RestInv' /\ SettingsInv' /\ BackendsInv'
    BY <1>1, <1>2, <1>3, ReadLineTyped, ReadLineRest, ReadLineSettings, ReadLineBackends
  <2>2. EndInv'
    BY <1>3 DEF ReadLine, EndInv
  <2> QED
    BY <2>1, <2>2 DEF LoadInv
<1>4. CASE LoadEnds \/ LoadThrows
  <2>1. UNCHANGED <<lines, settings, backends>> /\ loading' \in {"loaded", "rejected"}
    BY <1>4 DEF LoadEnds, LoadThrows
  <2>2. LoadTyped'
    BY <1>1, <1>2, <2>1 DEF LoadTyped
  <2>3. /\ Taken' = Taken
        /\ \A i : (Rejected(file[i]))' = Rejected(file[i])
        /\ \A i : (Stored(file[i]))' = Stored(file[i])
        /\ \A n : (BackendsIn(file, n))' = BackendsIn(file, n)
        /\ \A i : (IsBackend(file[i]))' = IsBackend(file[i])
    BY <1>1, <2>1 DEF Taken, Rejected, Stored, BackendsIn, IsBackend
  <2>4. RestInv'
    BY <1>1, <1>2, <2>1, <2>3 DEF RestInv
  <2>5. SettingsInv'
    BY <1>1, <1>2, <2>1, <2>3 DEF SettingsInv, SetBy
  <2>6. BackendsInv'
    BY <1>1, <1>2, <2>1, <2>3 DEF BackendsInv
  <2>7. EndInv'
    BY <1>4 DEF LoadEnds, LoadThrows, EndInv, Complete, Rejected
  <2> QED
    BY <2>2, <2>4, <2>5, <2>6, <2>7 DEF LoadInv
<1> QED
  BY <1>3, <1>4 DEF Load

\* Nothing else touches the configuration, and main does not come back to it.
LEMMA NothingElseLoads ==
  ASSUME LoadInv, Inv, [Next]_vars, ~ Load
  PROVE  LoadInv'
<1>1. CASE UNCHANGED <<configVars, file, main>>
  <2>1. LoadTyped'
    BY <1>1 DEF LoadInv, LoadTyped, configVars
  <2>2. CASE main = "load"
    BY <1>1, <2>1, <2>2 DEF LoadInv, configVars, RestInv, SettingsInv, SetBy, BackendsInv, EndInv,
                            Taken, Rejected, Stored, BackendsIn, IsBackend
  <2>3. CASE main # "load"
    BY <1>1, <2>1, <2>3 DEF LoadInv
  <2> QED
    BY <2>2, <2>3
<1>2. CASE main' # "load" /\ UNCHANGED configVars /\ file' \in {file, <<>>}
  BY <1>2, EmptySeq DEF LoadInv, LoadTyped, configVars
<1>3. CASE Main
  <2>1. CASE LoadFatal
    BY <1>1, <2>1 DEF LoadFatal, mainVars
  <2>2. CASE JoinAdmin
    <3>1. UNCHANGED <<configVars, file>> /\ main = "join_admin"
      BY <2>2 DEF JoinAdmin
    <3>2. caller \in {"start", "shutdown", "delete"}
      BY <3>1 DEF Inv, MainInv, InStop
    <3>3. main' # "load"
      BY <2>2, <3>1, <3>2 DEF JoinAdmin
    <3> QED
      BY <1>2, <3>1, <3>3
  <2>3. CASE Construct
    BY <1>2, <2>3 DEF Construct
  <2>4. CASE StartAdmin \/ StartHealth \/ StartWorker \/ JoinWorkers
    <3>1. main' # "load" /\ UNCHANGED <<configVars, file>>
      BY <2>4 DEF StartAdmin, StartHealth, StartWorker, JoinWorkers, Unwind, mainVars
    <3> QED
      BY <1>2, <3>1
  <2>5. CASE Join \/ RaiseStop \/ JoinHealth
    <3>1. main' # "load" /\ UNCHANGED <<configVars, file>>
      BY <2>5 DEF Join, RaiseStop, JoinHealth
    <3> QED
      BY <1>2, <3>1
  <2>6. CASE Stop \/ CloseListener \/ ClearListener \/ ShutdownHealth \/ Delete
    <3>1. main' # "load" /\ UNCHANGED <<configVars, file>>
      BY <2>6 DEF Stop, CloseListener, ClearListener, ShutdownHealth, Delete
    <3> QED
      BY <1>2, <3>1
  <2> QED
    BY <1>3, <2>1, <2>2, <2>3, <2>4, <2>5, <2>6 DEF Main
<1>4. CASE Admin
  BY <1>1, <1>4 DEF Admin, AdminBind, AdminStore, AdminTest, AdminAccept, AdminGoes, mainVars
<1>5. CASE \E w \in Started : WorkerEnds(w) \/ WorkerFails(w)
  BY <1>1, <1>5 DEF WorkerEnds, WorkerFails, mainVars
<1>6. CASE HealthEnds \/ HandlerEnds \/ HandleSignal \/ Abort
  BY <1>1, <1>6 DEF HealthEnds, HandlerEnds, HandleSignal, Abort, mainVars
<1>7. CASE UNCHANGED vars
  BY <1>1, <1>7 DEF vars, mainVars
<1> QED
  BY <1>3, <1>4, <1>5, <1>6, <1>7 DEF Next

LEMMA LoadStarts == Init => LoadInv
<1> SUFFICES ASSUME Init PROVE LoadInv
  OBVIOUS
<1>1. /\ file \in Seq(LineType) /\ lines = file /\ loading = "lines"
      /\ settings = Default /\ backends = <<>> /\ Len(file) \in Nat
  <2>1. file \in Seq([key : STRING, value : Nat, parses : BOOLEAN])
    BY FilesAssumption DEF Init
  <2> QED
    BY <2>1 DEF Init, LoadInit, LineType
<1>2. LoadTyped
  BY <1>1, DefaultAssumption, EmptySeq DEF LoadTyped
<1>3. Taken = 0
  BY <1>1 DEF Taken
<1>4. RestInv
  BY <1>1, <1>3 DEF RestInv
<1>5. SettingsInv
  BY <1>1, <1>3 DEF SettingsInv
<1>6. BackendsInv
  <2>1. BackendsIn(file, 0) = 0
    BY CountStep
  <2>2. Len(backends) = 0
    BY <1>1
  <2> QED
    BY <1>3, <2>1, <2>2 DEF BackendsInv
<1>7. EndInv
  BY <1>1 DEF EndInv
<1> QED
  BY <1>2, <1>4, <1>5, <1>6, <1>7 DEF LoadInv

LEMMA LoadInvariant == Spec => [](Inv /\ LoadInv)
<1>1. Init => Inv /\ LoadInv
  BY InvInit, LoadStarts
<1>2. Inv /\ LoadInv /\ [Next]_vars => (Inv /\ LoadInv)'
  BY InvStep, LoadKeepsFile, NothingElseLoads
<1> QED
  BY <1>1, <1>2, PTL DEF Spec

-----------------------------------------------------------------------------
(* The theorems.                                                           *)

\* At the end of the file LoadInv says of all lines what the invariants ask for.
LEMMA TakenAtEnd == LoadInv => FileTaken
<1> SUFFICES ASSUME LoadInv, main = "load", loading = "loaded"
             PROVE  /\ \A key \in SettingKeys :
                         (key \in NumberKeys => Asked(file, key) < Narrow)
                           => settings[key] = Asked(file, key)
                    /\ Len(backends) = BackendsIn(file, Len(file))
                    /\ \A i \in DOMAIN file : IsBackend(file[i]) =>
                         backends[BackendsIn(file, i)] = file[i].value
  BY DEF FileTaken
<1>1. LoadTyped /\ RestInv /\ SettingsInv /\ BackendsInv /\ lines = <<>>
  BY DEF LoadInv, EndInv
<1>2. Taken = Len(file) /\ Len(file) \in Nat /\ DOMAIN file = 1 .. Taken
  BY <1>1 DEF Taken, LoadTyped
<1>3. ASSUME NEW key \in SettingKeys, key \in NumberKeys => Asked(file, key) < Narrow
      PROVE  settings[key] = Asked(file, key)
  <2>1. CASE \A i \in 1 .. Taken : file[i].key # key
    <3>1. settings[key] = Default[key]
      BY <1>1, <2>1 DEF SettingsInv, SetBy
    <3> QED
      BY <1>2, <2>1, <3>1 DEF Asked
  <2>2. CASE \E i \in 1 .. Taken : file[i].key = key
    <3>1. PICK i \in 1 .. Taken : SetBy(key, i)
      BY <1>1, <2>2 DEF SettingsInv
    <3> DEFINE named == {j \in DOMAIN file : file[j].key = key}
    <3>2. i \in named /\ \A j \in named : j \in Nat /\ i >= j
      BY <1>2, <3>1 DEF SetBy
    <3>3. LastOf(file, key) = i
      <4>1. LastOf(file, key) = CHOOSE x \in named : \A y \in named : x >= y
        BY DEF LastOf, Max
      <4> HIDE DEF named
      <4>2. \A x \in named : (\A y \in named : x >= y) => x = i
        BY <3>2
      <4> QED
        BY <3>2, <4>1, <4>2
    <3>4. Asked(file, key) = file[i].value
      BY <1>2, <2>2, <3>3 DEF Asked
    <3>5. Stored(file[i]) = file[i].value
      <4>1. file[i] \in LineType /\ file[i].key = key
        BY <1>1, <1>2, <3>1 DEF LoadTyped, SetBy
      <4> QED
        BY <1>3, <3>4, <4>1, StoredWhole
    <3> QED
      BY <3>1, <3>4, <3>5 DEF SetBy
  <2> QED
    BY <2>1, <2>2
<1> QED
  BY <1>1, <1>2, <1>3 DEF BackendsInv

\* For any file and any keys: once it is loaded, each setting has the value that its
\* last line is written with, or its default, unless that value is a number of 2^32
\* or more; and the backends are those of its lines, in their order
\* (load_config_file).
THEOREM FileTakenAlways == Spec => []FileTaken
BY LoadInvariant, TakenAtEnd, PTL

LEMMA JudgedAtEnd == LoadInv => FileJudged
<1> SUFFICES ASSUME LoadInv, main = "load", loading # "lines"
             PROVE  loading = "loaded" <=> Accepts(file)
  BY DEF FileJudged
<1>1. LoadTyped /\ RestInv /\ BackendsInv /\ EndInv
  BY DEF LoadInv
<1>2. loading \in {"loaded", "rejected"} /\ Len(file) \in Nat /\ DOMAIN file = 1 .. Len(file)
  BY <1>1 DEF LoadTyped
<1>3. CASE lines = <<>>
  <2>1. Taken = Len(file)
    BY <1>2, <1>3 DEF Taken
  <2>2. backends # <<>> <=> \E i \in DOMAIN file : IsBackend(file[i])
    <3> DEFINE named == {i \in 1 .. Len(file) : IsBackend(file[i])}
    <3>1. IsFiniteSet(named)
      <4>1. IsFiniteSet(1 .. Len(file)) /\ named \in SUBSET (1 .. Len(file))
        BY <1>2, FS_Interval
      <4> QED
        BY <4>1, FS_Subset
    <3>2. Len(backends) = Cardinality(named)
      BY <1>1, <2>1 DEF BackendsInv, BackendsIn
    <3>3. backends # <<>> <=> Cardinality(named) # 0
      BY <1>1, <3>2, EmptySeq DEF LoadTyped
    <3>4. Cardinality(named) # 0 <=> named # {}
      BY <3>1, FS_EmptySet
    <3> QED
      BY <1>2, <3>3, <3>4
  <2>3. \A i \in DOMAIN file : ~ Rejected(file[i])
    BY <1>1, <1>2, <2>1 DEF RestInv
  <2>4. loading = "loaded" <=> backends # <<>>
    BY <1>1, <1>2, <1>3 DEF EndInv
  <2> QED
    BY <2>2, <2>3, <2>4 DEF Accepts
<1>4. CASE lines # <<>>
  <2>1. loading = "rejected" /\ Rejected(Head(lines))
    BY <1>1, <1>2, <1>4 DEF EndInv
  <2>2. Head(lines) = file[Taken + 1] /\ Taken + 1 \in DOMAIN file
    BY <1>1, <1>2, <1>4, NextLine
  <2> QED
    BY <2>1, <2>2 DEF Accepts
<1> QED
  BY <1>3, <1>4

\* For any file: it is loaded if and only if no line of it is to be rejected and
\* one names a backend, however far down (load_config_file).
THEOREM FileJudgedAlways == Spec => []FileJudged
BY LoadInvariant, JudgedAtEnd, PTL

LEMMA ThreadsStart == Init => ThreadsTyped
<1> SUFFICES ASSUME Init PROVE ThreadsTyped
  OBVIOUS
<1>1. handlers \in 0 .. MaxHandlers
  BY HandlersAssumption DEF Init
<1>2. /\ unwinding = FALSE /\ admin_joined = FALSE /\ admin_stop = FALSE
      /\ listener_fd = FALSE /\ listening = FALSE /\ stop_requested = FALSE
      /\ health = "none" /\ admin = "none" /\ outcome = "running"
  BY Zenon DEF Init
<1> QED
  BY <1>1, <1>2 DEF ThreadsTyped

LEMMA MainKeepsThreads ==
  ASSUME ThreadsTyped, Inv, Main
  PROVE  ThreadsTyped'
<1>1. CASE Load \/ LoadFatal \/ Construct
  BY <1>1 DEF Load, LoadFatal, Construct, ThreadsTyped, mainVars, threads, adminVars
<1>2. CASE StartAdmin \/ StartHealth \/ StartWorker
  BY <1>2 DEF StartAdmin, StartHealth, StartWorker, Unwind, ThreadsTyped, mainVars, threads, adminVars
<1>3. CASE JoinWorkers \/ Join
  BY <1>3 DEF JoinWorkers, Join, ThreadsTyped, threads, adminVars
<1>4. CASE RaiseStop
  <2>1. stop_requested' \in BOOLEAN /\ UNCHANGED <<health, admin, outcome, unwinding, admin_joined,
          admin_stop, listener_fd, listening, handlers>>
    BY <1>4, Zenon DEF RaiseStop, Raised, threads, adminVars
  <2> QED
    BY <2>1 DEF ThreadsTyped
<1>5. CASE JoinHealth
  BY <1>5 DEF JoinHealth, ThreadsTyped, adminVars
<1>6. CASE Stop \/ CloseListener \/ ClearListener
  BY <1>6 DEF Stop, CloseListener, ClearListener, Cleared, ThreadsTyped
<1>7. CASE JoinAdmin
  <2>1. caller \in {"start", "shutdown", "delete"}
    BY <1>7 DEF JoinAdmin, Inv, MainInv, InStop
  <2>2. outcome' \in {outcome, "0", "1"} /\ admin_joined' \in BOOLEAN
    BY <1>7, <2>1 DEF JoinAdmin
  <2> QED
    BY <1>7, <2>2 DEF JoinAdmin, ThreadsTyped
<1>8. CASE ShutdownHealth \/ Delete
  BY <1>8 DEF ShutdownHealth, Delete, ThreadsTyped, threads, adminVars
<1> QED
  BY <1>1, <1>2, <1>3, <1>4, <1>5, <1>6, <1>7, <1>8 DEF Main

LEMMA OthersKeepThreads ==
  ASSUME ThreadsTyped, [Next]_vars, ~ Main
  PROVE  ThreadsTyped'
<1>1. CASE AdminBind \/ AdminStore \/ AdminTest
  BY <1>1 DEF AdminBind, AdminStore, AdminTest, AdminGoes, ThreadsTyped, mainVars
<1>2. CASE AdminAccept
  <2>1. UNCHANGED <<health, outcome, unwinding, admin_joined, admin_stop,
                    listener_fd, listening, stop_requested>>
    BY <1>2 DEF AdminAccept, AdminGoes, mainVars
  <2>2. admin' \in {"test", "ended"}
    BY <1>2 DEF AdminAccept, AdminGoes
  <2>3. handlers' = handlers \/ (handlers < MaxHandlers /\ handlers' = handlers + 1)
    BY <1>2 DEF AdminAccept
  <2> QED
    BY <2>1, <2>2, <2>3, HandlersAssumption DEF ThreadsTyped
<1>3. CASE HandlerEnds
  BY <1>3, HandlersAssumption DEF HandlerEnds, ThreadsTyped, mainVars
<1>4. CASE HealthEnds \/ HandleSignal \/ Abort
  BY <1>4 DEF HealthEnds, HandleSignal, Abort, ThreadsTyped, mainVars, threads, adminVars
<1>5. CASE \E w \in Started : WorkerEnds(w) \/ WorkerFails(w)
  BY <1>5 DEF WorkerEnds, WorkerFails, ThreadsTyped, mainVars, adminVars
<1>6. CASE UNCHANGED vars
  BY <1>6 DEF vars, ThreadsTyped, mainVars, threads, adminVars
<1> QED
  BY <1>1, <1>2, <1>3, <1>4, <1>5, <1>6 DEF Next, Admin

\* For any file, any number of workers and handlers: the types of the process's
\* state, and no setting that is wider than 32 bits (AppConfig, stoul).
THEOREM TypeCorrect == Spec => []TypeOK
<1>1. ThreadsTyped /\ Inv /\ [Next]_vars => ThreadsTyped'
  BY MainKeepsThreads, OthersKeepThreads
<1>2. Spec => []ThreadsTyped
  BY <1>1, ThreadsStart, Invariant, PTL DEF Spec
<1>3. Inv /\ LoadInv /\ ThreadsTyped => TypeOK
  BY DEF Inv, MainInv, InStop, Labels, JoinInv, LoadInv, LoadTyped, ThreadsTyped, TypeOK
<1> QED
  BY <1>2, <1>3, LoadInvariant, PTL
=============================================================================
