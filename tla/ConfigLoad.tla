----------------------------- MODULE ConfigLoad -----------------------------
(* The values of internal/kernel/config/config.go and what the loader does   *)
(* with them. A key is <<name, spelling>>: names are equal when two keys are *)
(* equal but for their case (strings.EqualFold), and the spelling "lower" is *)
(* what strings.ToLower makes of a key. A scalar is only known by what it    *)
(* can be decoded into: "text", "digits" (a string that parses as a number)  *)
(* or "number". Where the code names the first problem it finds, this module *)
(* only tells whether there is one.                                          *)
EXTENDS Sequences, FiniteSets, FiniteSetsExt, Functions, TLC

\* "source" says where a scalar was written; only properties look at it.
Leaf(type, source) == [object |-> FALSE, type |-> type, source |-> source]
Object(fields) == [object |-> TRUE, fields |-> fields]
NoFields == << >>
Empty == Object(NoFields)

Lower(key) == <<key[1], "lower">>
SameKey(k, l) == k[1] = l[1]

-----------------------------------------------------------------------------
RECURSIVE canonicalMap(_), mergeMap(_, _), Mergeable(_, _), insertPath(_, _, _)

\* Is the value free of blank keys and of siblings that differ in case only?
canonicalMap(value) ==
    value.object =>
        \A k \in DOMAIN value.fields :
            /\ k[1] # ""
            /\ \A l \in DOMAIN value.fields : SameKey(k, l) => k = l
            /\ canonicalMap(value.fields[k])

\* A key of a later source goes by the spelling that is already there.
matchingKey(fields, key) ==
    IF \E k \in DOMAIN fields : SameKey(k, key)
    THEN CHOOSE k \in DOMAIN fields : SameKey(k, key)
    ELSE key

\* An object and a scalar never replace one another, at any depth.
Mergeable(dst, src) ==
    \A key \in DOMAIN src.fields :
        LET k == matchingKey(dst.fields, key)
        IN  k \in DOMAIN dst.fields =>
                /\ dst.fields[k].object = src.fields[key].object
                /\ dst.fields[k].object => Mergeable(dst.fields[k], src.fields[key])

\* Objects are merged, anything else is replaced.
mergeMap(dst, src) ==
    LET From(k) == CHOOSE key \in DOMAIN src.fields : matchingKey(dst.fields, key) = k
        Incoming == {matchingKey(dst.fields, key) : key \in DOMAIN src.fields}
    IN  Object([k \in DOMAIN dst.fields \cup Incoming |->
            IF k \notin Incoming THEN dst.fields[k]
            ELSE LET value == src.fields[From(k)]
                 IN  IF k \in DOMAIN dst.fields /\ value.object
                     THEN mergeMap(dst.fields[k], value) ELSE value])

-----------------------------------------------------------------------------
(* The environment. A record is [parts, type]: the path a variable spells    *)
(* after the prefix, split at "__".                                          *)
commonPathPrefix(left, right) ==
    Max({0} \cup {n \in 1..Len(left) : n <= Len(right) /\ \A i \in 1..n : SameKey(left[i], right[i])})

\* No empty segment, no path twice, and no path that is a prefix of another.
validateEnvironmentRecords(records) ==
    /\ \A r \in records : \A i \in DOMAIN r.parts : r.parts[i][1] # ""
    /\ \A r, s \in records : r # s =>
        LET common == commonPathPrefix(r.parts, s.parts)
        IN  common = 0 \/ (common < Len(r.parts) /\ common < Len(s.parts))

\* The tree with one more path, or Empty with a mark when the path is taken.
Refused == [object |-> FALSE, type |-> "refused", source |-> "none"]
insertPath(tree, parts, value) ==
    LET k == Head(parts)
        next == IF k \in DOMAIN tree.fields THEN tree.fields[k] ELSE Empty
        inner == IF Len(parts) = 1 THEN value ELSE insertPath(next, Tail(parts), value)
    IN  IF \/ k[1] = ""
           \/ Len(parts) = 1 /\ k \in DOMAIN tree.fields
           \/ Len(parts) > 1 /\ ~next.object
           \/ inner = Refused
        THEN Refused
        ELSE Object([l \in DOMAIN tree.fields \cup {k} |-> IF l = k THEN inner ELSE tree.fields[l]])

\* The loop over the records (the code sorts them; sound records commute).
loadEnvironment(records, source) ==
    LET Insert(r, tree) ==
            IF tree = Refused THEN tree
            ELSE insertPath(tree, [i \in DOMAIN r.parts |-> Lower(r.parts[i])], Leaf(r.type, source))
    IN  IF validateEnvironmentRecords(records) THEN FoldSet(Insert, Empty, records) ELSE Refused

-----------------------------------------------------------------------------
(* Sections and candidates. A binding is [id, path, fields, defaults]: the   *)
(* section an owner reads, the type each of its fields has, and the object   *)
(* its contract proposes.                                                    *)
RECURSIVE Value(_, _)

\* The value at a path, or Refused when there is none.
Value(tree, path) ==
    IF path = << >> THEN tree
    ELSE IF tree.object /\ Head(path) \in DOMAIN tree.fields
         THEN Value(tree.fields[Head(path)], Tail(path)) ELSE Refused

\* A path that is missing reads as an empty section.
Section(tree, path) ==
    LET value == Value(tree, path) IN IF value = Refused THEN Empty ELSE value

\* A string is parsed where a number is wanted, and nothing else is converted.
strictStringScalarHook(type, wanted) ==
    IF wanted = "number" THEN type \in {"number", "digits"} ELSE type \in {"text", "digits"}

\* The decoder accepts the fields it knows, whatever their case, and no other.
Decode(section, fields) ==
    /\ section.object
    /\ \A k \in DOMAIN section.fields :
        /\ k[1] \in DOMAIN fields
        /\ ~section.fields[k].object /\ strictStringScalarHook(section.fields[k].type, fields[k[1]])

\* Every owner accepts its section, and no root belongs to nobody.
ValidateCandidate(tree, bindings) ==
    /\ \A b \in bindings : Decode(Section(tree, b.path), b.fields)
    /\ DOMAIN tree.fields \subseteq {Head(b.path) : b \in bindings}

\* Owners have different names, and no section lies inside another.
pathsOverlap(left, right) ==
    \A i \in 1..Min({Len(left), Len(right)}) : left[i] = right[i]
ValidateBindings(bindings) ==
    /\ \A b \in bindings : b.id # "" /\ b.path # << >> /\ \A i \in DOMAIN b.path : b.path[i][1] # ""
    /\ \A b, c \in bindings : b # c => b.id # c.id /\ ~pathsOverlap(b.path, c.path)

-----------------------------------------------------------------------------
(* What the properties compare a snapshot with: paths without their case.    *)
RECURSIVE LeavesOf(_), ObjectsOf(_)
Below(tree, Of(_)) ==
    UNION {{<<<<k[1]>> \o p[1], p[2]>> : p \in Of(tree.fields[k])} : k \in DOMAIN tree.fields}
LeavesOf(tree) == IF tree.object THEN Below(tree, LeavesOf) ELSE {<< << >>, tree>>}
ObjectsOf(tree) == IF tree.object THEN {<< << >>, Empty>>} \cup Below(tree, ObjectsOf) ELSE {}

-----------------------------------------------------------------------------
(* Loading a candidate: Loader.Load over the configuration file and the      *)
(* environment (the only two sources the composition gives it, in this       *)
(* order), then the validation of the candidate by its owners; and           *)
(* DefaultManager.Generate, which writes the file the loader reads next.     *)
(* Another process may create the target while it is written.                *)

CONSTANTS
    Files,          \* the trees a configuration file may hold
    Environments,   \* sets of environment records
    Bindings        \* the sections the composition registers

ASSUME BindingsAssumption == ValidateBindings(Bindings)

VARIABLES
    input,      \* the file and the environment
    source,     \* the source to load next, or "done"
    merged,     \* what has been merged so far
    loading,    \* "loading", "failed", "accepted" or "rejected"
    canceled,   \* the deadline of the load passed, or its context was canceled
    target,     \* the default file: "none", "old" or "new"
    temporary,  \* the temporary file beside it: "none", "open", "whole"
    writing     \* how far Generate came, or how it ended

configVars == <<input, source, merged, loading, canceled, target, temporary, writing>>
loadVars == <<input, source, merged, loading, canceled>>
writeVars == <<target, temporary, writing>>

-----------------------------------------------------------------------------
(* Loader.Load and ValidateCandidate.                                        *)
Loaded(s) == IF s = "file" THEN input.file ELSE loadEnvironment(input.env, "env")

LoadSource ==
    /\ loading = "loading" /\ source \in {"file", "env"}
    /\ LET values == Loaded(source)
       IN  IF canceled \/ values = Refused \/ ~canonicalMap(values) \/ ~Mergeable(merged, values)
           THEN loading' = "failed" /\ UNCHANGED <<source, merged>>
           ELSE /\ merged' = mergeMap(merged, values)
                /\ source' = IF source = "file" THEN "env" ELSE "done"
                /\ UNCHANGED loading
    /\ UNCHANGED <<input, canceled, writeVars>>

Validate ==
    /\ loading = "loading" /\ source = "done"
    /\ loading' = IF ValidateCandidate(merged, Bindings) THEN "accepted" ELSE "rejected"
    /\ UNCHANGED <<input, source, merged, canceled, writeVars>>

CancelLoad ==
    /\ loading = "loading" /\ ~canceled
    /\ canceled' = TRUE
    /\ UNCHANGED <<input, source, merged, loading, writeVars>>

-----------------------------------------------------------------------------
(* DefaultManager.Generate. A duration is written as a string.               *)
Encode(type) == IF type = "duration" THEN "text" ELSE type

\* documentNode.insert at the section's path: sections do not overlap.
RECURSIVE documentNode(_, _)
documentNode(path, fields) ==
    IF path = << >>
    THEN Object([k \in {<<f, "lower">> : f \in DOMAIN fields} |-> Leaf(Encode(fields[k[1]]), "defaults")])
    ELSE Object((Head(path) :> documentNode(Tail(path), fields)))

Document ==
    LET Insert(b, tree) == mergeMap(tree, documentNode(b.path, b.defaults))
    IN  FoldSet(Insert, Empty, Bindings)

\* A contract may abort, the candidate may be refused by an owner, the context
\* may be canceled: nothing is written then.
Generate(force) ==
    /\ writing = "idle"
    /\ IF \A b \in Bindings : Decode(Section(Document, b.path), b.fields)
       THEN writing' \in {IF force THEN "forced" ELSE "fresh", "refused"}
       ELSE writing' = "refused"
    /\ UNCHANGED <<loadVars, target, temporary>>

Generating == writing \in {"fresh", "forced"}

CreateTemp ==
    /\ Generating /\ temporary = "none"
    /\ \/ temporary' = "open" /\ UNCHANGED writing
       \/ writing' = "refused" /\ UNCHANGED temporary
    /\ UNCHANGED <<loadVars, target>>

\* Chmod, Write, Sync and Close; the first that fails ends it, and the deferred
\* Remove takes the temporary file away.
WriteTemp ==
    /\ Generating /\ temporary = "open"
    /\ \/ temporary' = "whole" /\ UNCHANGED writing
       \/ writing' = "refused" /\ temporary' = "none"
    /\ UNCHANGED <<loadVars, target>>

\* Replace (a rename) when forced, else Link, which fails on a file that exists.
Publish ==
    /\ Generating /\ temporary = "whole"
    /\ IF writing = "fresh" /\ target # "none"
       THEN writing' = "exists" /\ UNCHANGED target
       ELSE \/ writing' = "written" /\ target' = "new"
            \/ writing' = "refused" /\ UNCHANGED target
    /\ temporary' = "none"
    /\ UNCHANGED loadVars

\* The process dies: what is on the disk stays.
CrashWhileWriting ==
    /\ Generating
    /\ writing' = "crashed"
    /\ UNCHANGED <<loadVars, target, temporary>>

\* Somebody else writes the file in the meantime.
OtherCreates ==
    /\ target = "none"
    /\ target' = "old"
    /\ UNCHANGED <<loadVars, temporary, writing>>

\* The generated file is the one the next load reads.
LoadGenerated ==
    /\ writing = "written" /\ loading = "loading" /\ source = "file" /\ target = "new"
    /\ input.env = {} /\ input.file # Document
    /\ input' = [input EXCEPT !.file = Document]
    /\ UNCHANGED <<source, merged, loading, canceled, writeVars>>

-----------------------------------------------------------------------------
ConfigInit ==
    /\ input \in [file : Files \cup {Refused}, env : Environments]
    /\ source = "file" /\ merged = Empty /\ loading = "loading" /\ canceled = FALSE
    /\ target \in {"none", "old"} /\ temporary = "none" /\ writing = "idle"

ConfigNext ==
    \/ LoadSource \/ Validate \/ CancelLoad
    \/ \E force \in BOOLEAN : Generate(force)
    \/ CreateTemp \/ WriteTemp \/ Publish \/ CrashWhileWriting \/ OtherCreates \/ LoadGenerated

-----------------------------------------------------------------------------
(* Properties.                                                               *)
ConfigTypeOK ==
    /\ source \in {"file", "env", "done"}
    /\ loading \in {"loading", "failed", "accepted", "rejected"}
    /\ canceled \in BOOLEAN
    /\ target \in {"none", "old", "new"} /\ temporary \in {"none", "open", "whole"}
    /\ writing \in {"idle", "fresh", "forced", "refused", "exists", "written", "crashed"}

\* What the sources say, path by path and without looking at the code's trees.
Spelled(r) == [i \in DOMAIN r.parts |-> r.parts[i][1]]
IsPrefixPath(p, q) == Len(p) < Len(q) /\ SubSeq(q, 1, Len(p)) = p
EnvLeaves == {<<Spelled(r), Leaf(r.type, "env")>> : r \in input.env}
FileLeaves == LeavesOf(input.file)
Says(leaves, path) == \E l \in leaves : l[1] = path

\* The environment is unambiguous, and neither source has a scalar where the
\* other has something below, or an object where the other has a scalar.
Agree ==
    /\ \A r \in input.env : \A i \in DOMAIN r.parts : r.parts[i][1] # ""
    /\ \A r, s \in input.env : r # s => Spelled(r) # Spelled(s) /\ ~IsPrefixPath(Spelled(r), Spelled(s))
    /\ input.file # Refused /\ canonicalMap(input.file)
    /\ \A l \in FileLeaves, m \in EnvLeaves : ~IsPrefixPath(l[1], m[1]) /\ ~IsPrefixPath(m[1], l[1])
    /\ \A o \in ObjectsOf(input.file), m \in EnvLeaves : o[1] # m[1]

\* A load ends with every scalar of the environment and every scalar of the
\* file the environment does not override, under one spelling each, and with
\* nothing else; and it fails exactly when the sources contradict one another,
\* the file cannot be read or its time is up.
LoadIsExact ==
    /\ source = "done" =>
        /\ Agree /\ canonicalMap(merged)
        /\ LeavesOf(merged) = EnvLeaves \cup {l \in FileLeaves : ~Says(EnvLeaves, l[1])}
        /\ ObjectsOf(input.file) \subseteq ObjectsOf(merged)
    /\ loading = "failed" => canceled \/ ~Agree

\* Whatever fails, dies or races, a file that was there is only replaced when
\* that was asked for, a temporary file is only left behind by a crash; and what
\* Generate wrote, the loader accepts.
DefaultsAreSafe == [][
    /\ target = "old" /\ target' # "old" => writing = "forced"
    /\ writing' \notin {"fresh", "forced", "crashed"} => temporary' = "none"
    /\ loading' = "rejected" => input.file # Document \/ input.env # {}]_configVars
=============================================================================
