------------------------------ MODULE Settings ------------------------------
(***************************************************************************)
(* From the configuration file to the options of the loop: loadFromString of *)
(* src/src/Config.cpp, what main of src/recommend/recommend_server.cpp takes *)
(* from it, and normalizeOptions of src/src/EventLoop.cpp. The lines are      *)
(*   <<"blank">>, <<"section", names>>, <<"set", names, value>>,             *)
(*   <<"no_equals">>, <<"no_key">>                                           *)
(* where names is a name cut at its dots and a value a number or NotANumber.  *)
(***************************************************************************)
EXTENDS Integers, Sequences

CONSTANTS
    DefaultCapacity,   \* Options::pendingQueueCapacity, 65536 in the code
    CapacityKey,       \* event_loop.pending_queue_capacity
    NotANumber,
    FileLines,         \* lines a file may have
    MaxLines           \* bound on their number

\* The default is large enough for its two marks to differ.
ASSUME DefaultAssumption == DefaultCapacity \in Nat /\ DefaultCapacity >= 3
ASSUME LinesAssumption ==
    /\ NotANumber \notin Nat
    /\ \A l \in FileLines : l[1] = "set" => l[3] \in Nat \union {NotANumber}

VARIABLES
    loading,    \* "lines", "refused", "loaded", "done"
    file,       \* the lines read so far
    section,    \* of loadFromString
    values,     \* values_
    options     \* of the EventLoop

settingsVars == <<loading, file, section, values, options>>

\* The defaults of the two marks are those of the default capacity, and main
\* gives the capacity only.
DefaultOptions ==
    [capacity |-> DefaultCapacity,
     high     |-> (DefaultCapacity * 90) \div 100,
     low      |-> (DefaultCapacity * 40) \div 100]

SettingsInit ==
    /\ loading = "lines"
    /\ file = <<>> /\ section = <<>>
    /\ values = <<>>
    /\ options = DefaultOptions

\* values_[key] = value
Assigned(key, value) ==
    [k \in DOMAIN values \union {key} |-> IF k = key THEN value ELSE values[k]]

\* A slip: the section is not put in front of the name.
ReadLineNoSection(l) ==
    \/ l[1] = "blank" /\ UNCHANGED <<loading, section, values>>
    \/ l[1] = "section" /\ section' = l[2] /\ UNCHANGED <<loading, values>>
    \/ /\ l[1] = "set"
       /\ values' = Assigned(l[2], l[3])
       /\ UNCHANGED <<loading, section>>
    \/ /\ l[1] \in {"no_equals", "no_key"}
       /\ loading' = "refused"
       /\ UNCHANGED <<section, values>>

\* One turn of the loop; what was assigned before a line that is refused stays.
ReadLine(l) ==
    \/ l[1] = "blank" /\ UNCHANGED <<loading, section, values>>
    \/ l[1] = "section" /\ section' = l[2] /\ UNCHANGED <<loading, values>>
    \/ /\ l[1] = "set"
       /\ values' = Assigned(section \o l[2], l[3])
       /\ UNCHANGED <<loading, section>>
    \/ /\ l[1] \in {"no_equals", "no_key"}
       /\ loading' = "refused"
       /\ UNCHANGED <<section, values>>

LoadLine ==
    /\ loading = "lines" /\ Len(file) < MaxLines
    /\ \E l \in FileLines : ReadLine(l) /\ file' = Append(file, l)
    /\ UNCHANGED options

\* getSizeT: the default when the key is not there or is no number.
GetSizeT(key, default) ==
    IF key \in DOMAIN values /\ values[key] # NotANumber THEN values[key] ELSE default

TakeOptions ==
    /\ loading = "lines"
    /\ loading' = "loaded"
    /\ options' = [options EXCEPT !.capacity = GetSizeT(CapacityKey, @)]
    /\ UNCHANGED <<file, section, values>>

Normalize(o) ==
    LET capacity == IF o.capacity = 0 THEN 1024 ELSE o.capacity
        high == IF o.high = 0 \/ o.high > capacity THEN (capacity * 90) \div 100 ELSE o.high
        low  == IF o.low = 0 \/ o.low >= high THEN (capacity * 40) \div 100 ELSE o.low
    IN  [capacity |-> capacity, high |-> high, low |-> low]

NormalizeOptions ==
    /\ loading = "loaded"
    /\ loading' = "done"
    /\ options' = Normalize(options)
    /\ UNCHANGED <<file, section, values>>

SettingsNext == LoadLine \/ TakeOptions \/ NormalizeOptions
=============================================================================
