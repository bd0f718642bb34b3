------------------------------- MODULE Driver -------------------------------
(***************************************************************************)
(* main of hidl-gen: its options, then for each argument the validation,   *)
(* the targets, the generated files and the dependency file.  Parsing is   *)
(* reduced to which files it reads and whether all of them are good: a     *)
(* file that is cached is not read again, and the rules for its package,   *)
(* for which all of the package is read, are then not enforced either      *)
(* (Coordinator has the details).  The packages have no earlier minor      *)
(* version and no hashes on record.                                        *)
(***************************************************************************)
EXTENDS Outputs, FiniteSets

CONSTANTS Trees,          \* source trees: files, by full name
          CommandLines,   \* options and arguments
          DefaultRoots,   \* the package roots added without -R
          Directories     \* packages whose directory is there although it may have no file

FullName == [package : Seq(STRING), version : STRING, names : Seq(DOMAIN Spelling)]

\* A source tree is finite.  A file is known by the name that the directory
\* and the name of it give, which is the one of a top-level type or of types.
TreeAssumption ==
  \A t \in Trees :
    /\ IsFiniteSet(DOMAIN t)
    /\ t \in [DOMAIN t -> [imports : SUBSET FullName, good : BOOLEAN, java : BOOLEAN,
                          types : SUBSET DOMAIN Spelling]]
    /\ \A f \in DOMAIN t :
         /\ f \in FullName /\ Len(f.names) = 1
         /\ IsFiniteSet(t[f].imports) /\ IsFiniteSet(t[f].types)
ArgumentAssumption == \A c \in CommandLines : c.args \in Seq(FullName)

ASSUME InputAssumption == "types" \in DOMAIN Spelling /\ TreeAssumption /\ ArgumentAssumption

VARIABLES tree, cmd,      \* the inputs of this run, constant
          pc,             \* what main does next
          next,           \* the option or argument it is at
          opts,           \* the options read so far
          targets, at,    \* what OutputHandler::generate works through
          disk,           \* files written: by whom, and whether completely
          cached,         \* files parsed
          readFiles,      \* mReadFiles
          depFile         \* the dependency file: for which output, listing what

vars == <<tree, cmd, pc, next, opts, targets, at, disk, cached, readFiles, depFile>>
inputs == <<tree, cmd>>
work == <<targets, at, disk, cached, readFiles, depFile>>

NoValue == "none"
NoFile == [for |-> <<>>, lists |-> {}]

Exists(f) == f \in DOMAIN tree
PackageOf(f) == PackageAndVersion(f)
InOrder(fs) == SetToSeq(fs)
InterfaceFiles(p) == {f \in DOMAIN tree : PackageOf(f) = PackageOf(p)}

\* The files that parsing f reads first: its imports, types.hal of its package.
Direct(f) ==
  {f} \cup ({TypesForPackage(f)} \cap DOMAIN tree) \cup (IF Exists(f) THEN tree[f].imports ELSE {})

\* What edges lead to from fs, in at most as many steps as there are files.
Closure(fs, edges) ==
  LET n == Cardinality(DOMAIN edges)
      upTo[k \in 0 .. n] ==
        IF k = 0 THEN fs
        ELSE LET before == upTo[k - 1] IN before \cup UNION {edges[f] : f \in before}
  IN upTo[n]

Mentioned(fs) == fs \cup DOMAIN tree \cup UNION {tree[f].imports : f \in DOMAIN tree}
ReachFrom(fs) == Closure(fs, [f \in Mentioned(fs) |-> Direct(f)])

\* The files that parse(f) needs when those in done are cached.
Needs(f, done, enforcement) ==
  IF f \in done THEN {}
  ELSE ReachFrom({f} \cup IF enforcement = "FULL" THEN InterfaceFiles(f) ELSE {})

ParsesAll(fs, done, enforcement) ==
  \A f \in fs : \A g \in Needs(f, done, enforcement) : Exists(g) /\ tree[g].good
AfterParsing(fs, done, enforcement) == done \cup UNION {Needs(f, done, enforcement) : f \in fs}

Reads(files) == cached' = files /\ readFiles' = readFiles \cup (files \ cached)

-----------------------------------------------------------------------------
(* Options                                                                 *)

InPackage(p, q) == IsPrefix(q, p)
Conflict(roots, r) == \E q \in roots : InPackage(q, r) \/ InPackage(r, q)

Once(o) == opts[o] = NoValue

\* The option cannot be accepted: it is there twice, or has no such value.
BadOption(o) ==
  \/ o.key \in {"p", "o", "O"} /\ ~ Once(o.key)
  \/ o.key = "r" /\ (o.value = <<>> \/ Conflict(opts.roots, o.value))
  \/ o.key = "L" /\ (~ Once("L") \/ o.value \notin DOMAIN Formats)
  \/ o.key \notin {"p", "o", "O", "r", "L", "v", "d", "R"}

ReadOption ==
  /\ pc = "options" /\ next \in DOMAIN cmd.options
  /\ LET o == cmd.options[next]
     IN IF BadOption(o)
        THEN pc' = "exit1" /\ UNCHANGED <<next, opts>>
        ELSE /\ opts' = IF o.key = "r" THEN [opts EXCEPT !.roots = @ \cup {o.value}]
                        ELSE [opts EXCEPT ![o.key] = o.value]
             /\ next' = next + 1
             /\ UNCHANGED pc
  /\ UNCHANGED <<inputs, work>>

\* Default roots are left out without a word where they conflict.
AddDefaults(roots) ==
  IF opts.R # NoValue THEN roots
  ELSE FoldSeq(LAMBDA r, rs : IF Conflict(rs, r) THEN rs ELSE rs \cup {r}, roots,
               Reverse(DefaultRoots))

\* -p falls back to $ANDROID_BUILD_TOP, -o to the root path where the sources
\* are meant.
Root == IF Once("p") THEN cmd.top ELSE opts.p
Configure ==
  /\ pc = "options" /\ next \notin DOMAIN cmd.options
  /\ LET mode == IF Once("L") THEN NoValue ELSE Formats[opts.L].mode
     IN IF \/ Once("L") \/ cmd.args = <<>>
           \/ mode \in {"NEEDS_DIR", "NEEDS_FILE"} /\ Once("o")
        THEN pc' = "exit1" /\ UNCHANGED <<next, opts>>
        ELSE /\ opts' = [opts EXCEPT !.roots = AddDefaults(@),
                                     !.p = Root,
                                     !.o = IF mode = "NOT_NEEDED" THEN NoValue
                                           ELSE IF Once("o") THEN Root ELSE @]
             /\ next' = 1
             /\ pc' = "argument"
  /\ UNCHANGED <<inputs, work>>

-----------------------------------------------------------------------------
(* One argument                                                            *)

Argument == cmd.args[next]
The == Formats[opts.L]
Rooted(n) == Cardinality({r \in opts.roots : InPackage(n.package, r)}) = 1
HasSources(n) == Rooted(n) /\ (PackageOf(n) \in Directories \/ InterfaceFiles(n) # {})

ImportedPackages(f) == {PackageOf(g) : g \in tree[f].imports}

\* (A fault: the imports of a file that is imported are not looked at.)
NewImportsOnce(f, seen) ==
  IF seen \subseteq InterfaceFiles(f)
  THEN (UNION {InterfaceFiles(p) : p \in ImportedPackages(f)}) \ seen ELSE {}

NewImports(f, seen) == (UNION {InterfaceFiles(p) : p \in ImportedPackages(f)}) \ seen

\* One turn of the loop: a file is judged, and the files of the packages that
\* it is the first to import are still to be.
JudgeNext(j) ==
  LET f == Last(j.todo)
      more == NewImports(f, j.seen)
      with == AfterParsing({f}, j.done, "FULL")
  IN IF ~ ParsesAll({f}, j.done, "FULL") THEN [j EXCEPT !.verdict = "error"]
     ELSE IF ~ tree[f].java THEN [j EXCEPT !.verdict = "incompatible", !.done = with]
     ELSE [j EXCEPT !.todo = Front(@) \o InOrder(more), !.seen = @ \cup more, !.done = with]

\* The files of the package, then those of all packages that they import,
\* directly or not, until one is bad or not compatible.  No file has two turns.
isPackageJavaCompatible(p, done) ==
  LET n == Cardinality(DOMAIN tree)
      turns[k \in 0 .. n] ==
        IF k = 0 THEN [todo |-> InOrder(InterfaceFiles(p)), seen |-> InterfaceFiles(p),
                       done |-> done, verdict |-> "compatible"]
        ELSE LET j == turns[k - 1]
             IN IF j.todo = <<>> \/ j.verdict # "compatible" THEN j ELSE JudgeNext(j)
  IN turns[n]

\* validateForSource and validateIsPackage.  Java sources of a package are for
\* compatible packages only; of a full name nothing is asked.
Dotted(n) == Len(n.names) > 1
AsksJava(n) == opts.L = "java" /\ n.names = <<>>
Valid(n, done) ==
  CASE The.validate = "package" -> n.names = <<>>
    [] The.validate = "source" ->
         /\ Dotted(n) => opts.L = "java" /\ IsTypesName(n)
         /\ AsksJava(n) => isPackageJavaCompatible(n, done).verdict = "compatible"
    [] OTHER -> FALSE

\* Verbose runs parse the package first, to list what is not referenced.
VerboseFiles(n) == IF opts.v # NoValue THEN InterfaceFiles(n) ELSE {}

\* What is parsed before anything is generated.
CheckedFiles(n) ==
  LET done == AfterParsing(VerboseFiles(n), cached, "FULL")
  IN IF AsksJava(n) THEN isPackageJavaCompatible(n, done).done ELSE done

Accepted(n) ==
  /\ HasSources(n)
  /\ ParsesAll(VerboseFiles(n), cached, "FULL")
  /\ Valid(n, AfterParsing(VerboseFiles(n), cached, "FULL"))

\* (A fault: each argument starts a list of its own.)
CheckArgumentAfresh ==
  /\ pc = "argument" /\ next \in DOMAIN cmd.args
  /\ IF Accepted(Argument)
     THEN /\ pc' = "targets"
          /\ cached' = CheckedFiles(Argument) /\ readFiles' = CheckedFiles(Argument) \ cached
     ELSE pc' = "exit1" /\ UNCHANGED <<cached, readFiles>>
  /\ UNCHANGED <<inputs, next, opts, targets, at, disk, depFile>>

CheckArgument ==
  /\ pc = "argument" /\ next \in DOMAIN cmd.args
  /\ IF Accepted(Argument)
     THEN pc' = "targets" /\ Reads(CheckedFiles(Argument))
     ELSE pc' = "exit1" /\ UNCHANGED <<cached, readFiles>>
  /\ UNCHANGED <<inputs, next, opts, targets, at, disk, depFile>>

\* (A fault: the types of types.hal are left out.)
PerTypeFile(f) == {f}

\* The targets of a listed file: itself, or each type of types.hal.
PerType(f) ==
  IF f.names # <<"types">> THEN {f}
  ELSE {[f EXCEPT !.names = Append(@, t)] : t \in tree[f].types}

\* types.hal, where it must be parsed to know its types.
ListedTypes(n) == {f \in InterfaceFiles(n) \cup {n} : f.names = <<"types">>}

\* A full name under PER_TYPE is a target, and its whole package too.
TargetsOf(n) ==
  CASE The.granularity = "PER_PACKAGE" -> <<PackageAndVersion(n)>>
    [] The.granularity = "PER_FILE" ->
         IF n.names # <<>> THEN <<n>> ELSE InOrder(InterfaceFiles(n))
    [] OTHER ->
         (IF n.names # <<>> THEN InOrder(PerType(n)) ELSE <<>>)
         \o InOrder(UNION {PerType(f) : f \in InterfaceFiles(n)})

AppendTargets ==
  /\ pc = "targets"
  /\ IF The.granularity = "PER_TYPE" /\ ~ ParsesAll(ListedTypes(Argument), cached, "FULL")
     THEN pc' = "exit1" /\ UNCHANGED <<targets, at, cached, readFiles>>
     ELSE /\ targets' = TargetsOf(Argument)
          /\ at' = [target |-> 1, file |-> 1]
          /\ IF The.granularity = "PER_TYPE"
             THEN Reads(AfterParsing(ListedTypes(Argument), cached, "FULL"))
             ELSE UNCHANGED <<cached, readFiles>>
          /\ pc' = "open"
  /\ UNCHANGED <<inputs, next, opts, disk, depFile>>

Target == targets[at.target]
Generator == The.generators[at.file]
AllGenerated == at.target > Len(targets)
Advance ==
  at' = IF at.file < Len(The.generators) THEN [at EXCEPT !.file = @ + 1]
        ELSE [target |-> at.target + 1, file |-> 1]

Path(g, n) == FilePath(The.location, g, n)
Writes == The.location # "STANDARD_OUT"

SkipGenerator ==
  /\ pc = "open" /\ ~ AllGenerated
  /\ ~ shouldGenerate(Generator, Target)
  /\ Advance
  /\ UNCHANGED <<inputs, pc, next, opts, targets, disk, cached, readFiles, depFile>>

Emptied(path, by) ==
  [p \in DOMAIN disk \cup {path} |-> IF p = path THEN [by |-> by, complete |-> FALSE] ELSE disk[p]]

\* The file is opened, and emptied if it was there, before anything is parsed.
OpenOutput ==
  /\ pc = "open" /\ ~ AllGenerated
  /\ shouldGenerate(Generator, Target)
  /\ disk' = IF Writes THEN Emptied(Path(Generator, Target), <<Generator, Target>>) ELSE disk
  /\ pc' = "write"
  /\ UNCHANGED <<inputs, next, opts, targets, at, cached, readFiles, depFile>>

\* Its directory cannot be made, or something else is there.
CannotOpen ==
  /\ pc = "open" /\ ~ AllGenerated
  /\ shouldGenerate(Generator, Target)
  /\ Writes
  /\ pc' = "exit1"
  /\ UNCHANGED <<inputs, next, opts, work>>

\* (A fault: a generator for a package only lists its files.)
ParsedListing(g, n) ==
  IF n.names = <<>> \/ g = "adapterMain" THEN {}
  ELSE {IF g = "java" /\ Dotted(n) THEN TypesForPackage(n) ELSE n}

\* What a generator parses: the file of the target, or all of the package.
Parsed(g, n) ==
  CASE g \in {"exportHeader", "javaConstants", "androidbp", "androidbpImpl"} -> InterfaceFiles(n)
    [] g = "adapterMain" -> {}
    [] g = "java" -> {IF Dotted(n) THEN TypesForPackage(n) ELSE n}
    [] OTHER -> {n}
Enforcement(g) == IF g \in {"hash", "functionCount"} THEN "NO_HASH" ELSE "FULL"
FirstParsed == AfterParsing(Parsed(Generator, Target), cached, Enforcement(Generator))

\* Android.bp also says whether there is Java code.
AllParsed ==
  IF Generator = "androidbp" THEN isPackageJavaCompatible(Target, FirstParsed).done
  ELSE FirstParsed

Fails ==
  \/ ~ ParsesAll(Parsed(Generator, Target), cached, Enforcement(Generator))
  \/ Generator = "androidbp" /\ isPackageJavaCompatible(Target, FirstParsed).verdict = "error"

\* AST::generateJava CHECKs that the file is compatible and the type is there.
JavaCheck(g, n) ==
  g = "java" => /\ \A f \in Parsed(g, n) : tree[f].java
                /\ Dotted(n) => Last(n.names) \in tree[TypesForPackage(n)].types

Complete(path) == [disk EXCEPT ![path].complete = TRUE]

\* (A fault: a generator that fails is passed over.)
WriteOutputAnyway ==
  /\ pc = "write"
  /\ disk' = IF Writes /\ ~ Fails THEN Complete(Path(Generator, Target)) ELSE disk
  /\ Advance /\ pc' = "open"
  /\ IF Fails THEN UNCHANGED <<cached, readFiles>> ELSE Reads(AllParsed)
  /\ UNCHANGED <<inputs, next, opts, targets, depFile>>

WriteOutput ==
  /\ pc = "write"
  /\ IF Fails
     THEN pc' = "exit1" /\ UNCHANGED <<at, disk, cached, readFiles>>
     ELSE IF ~ JavaCheck(Generator, Target)
     THEN pc' = "aborted" /\ UNCHANGED <<at, disk, cached, readFiles>>
     ELSE /\ disk' = IF Writes THEN Complete(Path(Generator, Target)) ELSE disk
          /\ Reads(AllParsed)
          /\ Advance
          /\ pc' = "open"
  /\ UNCHANGED <<inputs, next, opts, targets, depFile>>

\* The targets are computed once more, and the first output of this argument
\* is the one the dependencies are for.
OutputsOf(ts) ==
  FlattenSeq([k \in DOMAIN ts |->
    FlattenSeq([j \in DOMAIN The.generators |->
      LET g == The.generators[j]
      IN IF shouldGenerate(g, ts[k]) THEN <<Path(g, ts[k])>> ELSE <<>>])])

WriteDepFile ==
  /\ pc = "open" /\ AllGenerated
  /\ depFile' = IF opts.d # NoValue /\ Writes /\ OutputsOf(targets) # <<>>
                THEN [for |-> OutputsOf(targets)[1], lists |-> readFiles]
                ELSE depFile
  /\ next' = next + 1
  /\ pc' = "argument"
  /\ UNCHANGED <<inputs, opts, targets, at, disk, cached, readFiles>>

DepFileFails ==
  /\ pc = "open" /\ AllGenerated
  /\ opts.d # NoValue /\ Writes /\ OutputsOf(targets) # <<>>
  /\ pc' = "exit1"
  /\ UNCHANGED <<inputs, next, opts, work>>

Exit ==
  /\ pc = "argument" /\ next \notin DOMAIN cmd.args
  /\ pc' = "exit0"
  /\ UNCHANGED <<inputs, next, opts, work>>

-----------------------------------------------------------------------------
Init ==
  /\ tree \in Trees
  /\ cmd \in CommandLines
  /\ pc = "options" /\ next = 1
  /\ opts = [p |-> NoValue, o |-> NoValue, O |-> NoValue, L |-> NoValue, v |-> NoValue,
             d |-> NoValue, R |-> NoValue, roots |-> {}]
  /\ targets = <<>> /\ at = [target |-> 1, file |-> 1]
  /\ disk = <<>> /\ cached = {} /\ readFiles = {}
  /\ depFile = NoFile

Next ==
  \/ ReadOption \/ Configure \/ CheckArgument \/ AppendTargets
  \/ SkipGenerator \/ OpenOutput \/ CannotOpen \/ WriteOutput
  \/ WriteDepFile \/ DepFileFails \/ Exit

Spec == Init /\ [][Next]_vars
=============================================================================
