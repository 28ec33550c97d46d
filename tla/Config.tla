------------------------------- MODULE Config -------------------------------
(***************************************************************************)
(* load_config_file: the lines of the file, one after the other, are       *)
(* assigned to an AppConfig that holds the defaults, until one is          *)
(* rejected. What a line says is data: its key, the number in its value    *)
(* (of a policy, the member of the enumeration) and whether the value      *)
(* parses at all. A line without '=' and an unknown key are one case.      *)
(***************************************************************************)
EXTENDS Integers, Sequences, FiniteSetsExt

CONSTANTS
  NumberKeys,   \* the keys whose values are numbers of 32 bits
  Narrow,       \* 2^32; stoul returns more
  Default,      \* AppConfig's initial value of each setting
  MaxPort       \* 65535

ASSUME NarrowAssumption == Narrow \in Nat \ {0}
ASSUME PortAssumption == MaxPort \in Nat \ {0}

EndpointKeys == {"listen", "admin"}
SettingKeys == NumberKeys \cup EndpointKeys \cup {"policy"}
Keys == SettingKeys \cup {"backend"}

ASSUME DefaultAssumption ==
  Default \in [SettingKeys -> Nat] /\ \A key \in NumberKeys : Default[key] < Narrow

VARIABLES
  loading,    \* "lines", "loaded" or "rejected"
  lines,      \* the lines that getline has not returned yet
  settings,   \* AppConfig, but for its backends
  backends    \* AppConfig::backends

configVars == <<loading, lines, settings, backends>>

\* A line that is empty or a comment has the key "blank".
Rejected(line) ==
  /\ line.key # "blank"
  /\ \/ line.key \notin Keys
     \/ ~ line.parses
     \/ line.key \in EndpointKeys \cup {"backend"} /\ line.value \notin 1 .. MaxPort

\* What is stored of a value: a number of 2^32 or more loses its upper bits without
\* a word. The slip widens the settings to what stoul returns.
Whole(line) == line.value
Stored(line) == IF line.key \in NumberKeys THEN line.value % Narrow ELSE line.value

\* The settings after a line. The slip keeps what an earlier line has set.
FirstAssigned(line) ==
  IF line.key \in SettingKeys /\ settings[line.key] = Default[line.key]
  THEN [settings EXCEPT ![line.key] = Stored(line)]
  ELSE settings
Assigned(line) ==
  IF line.key \in SettingKeys
  THEN [settings EXCEPT ![line.key] = Stored(line)]
  ELSE settings

ReadLine ==
  /\ loading = "lines" /\ lines # <<>> /\ ~ Rejected(Head(lines))
  /\ lines' = Tail(lines)
  /\ settings' = Assigned(Head(lines))
  /\ backends' = IF Head(lines).key = "backend"
                 THEN Append(backends, Head(lines).value) ELSE backends
  /\ UNCHANGED loading

\* At the end of the file. The slip accepts a file without backends.
Unchecked == TRUE
Complete == backends # <<>>

LoadEnds ==
  /\ loading = "lines" /\ lines = <<>> /\ Complete
  /\ loading' = "loaded"
  /\ UNCHANGED <<lines, settings, backends>>

LoadThrows ==
  /\ loading = "lines"
  /\ IF lines = <<>> THEN ~ Complete ELSE Rejected(Head(lines))
  /\ loading' = "rejected"
  /\ UNCHANGED <<lines, settings, backends>>

LoadInit ==
  /\ loading = "lines" /\ settings = Default /\ backends = <<>>

-----------------------------------------------------------------------------
\* What a file asks for, said without an order of steps and as it is written: a
\* number is what its last line says, whether or not the program has room for it.
LastOf(file, key) == Max({i \in DOMAIN file : file[i].key = key})
Asked(file, key) ==
  IF \E i \in DOMAIN file : file[i].key = key
  THEN file[LastOf(file, key)].value
  ELSE Default[key]
IsBackend(line) == line.key = "backend"
BackendsIn(file, n) == Cardinality({i \in 1 .. n : IsBackend(file[i])})
Accepts(file) ==
  /\ \A i \in DOMAIN file : ~ Rejected(file[i])
  /\ \E i \in DOMAIN file : IsBackend(file[i])
=============================================================================
