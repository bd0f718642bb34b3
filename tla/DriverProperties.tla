-------------------------- MODULE DriverProperties --------------------------
(***************************************************************************)
(* What a build system may rely on after a run of hidl-gen.                *)
(***************************************************************************)
EXTENDS Driver

Args == ToSet(cmd.args)

-----------------------------------------------------------------------------
(* The files that are asked for, told from the sources alone.              *)

\* The files an argument stands for.
Listed(n) == IF n.names = <<>> THEN InterfaceFiles(n) ELSE {n}

\* One source for each type of types.hal, and one for each interface.  Java
\* gives all of the package even when a single file is named.
TypesOf(f) ==
  IF f.names = <<"types">> THEN {[f EXCEPT !.names = <<"types", t>>] : t \in tree[f].types} ELSE {f}
Units(n) ==
  CASE The.granularity = "PER_PACKAGE" -> {PackageAndVersion(n)}
    [] The.granularity = "PER_FILE" -> Listed(n)
    [] The.granularity = "PER_TYPE" ->
         (UNION {TypesOf(f) : f \in InterfaceFiles(n)}) \cup (IF Dotted(n) THEN {n} ELSE {})

Asked(n) ==
  {job \in ToSet(The.generators) \X Units(n) :
     job[1] \in ForInterfaces => ~ IsTypesName(job[2])}
AllAsked == UNION {Asked(n) : n \in Args}
PathOf(job) == Path(job[1], job[2])

\* A run that succeeds has left exactly the files that were asked for, each
\* complete.  Where two have one path, a later one has overwritten the other
\* without a word: they are IHwFoo.h of IFoo and of IHwFoo, or any two files of
\* the same name under an option that does not make a directory for a package
\* (OutputHandler::generate, kFormats, Coordinator::getFormatter).
OutputsAreComplete ==
  pc = "exit0" /\ Writes =>
    /\ DOMAIN disk = {PathOf(job) : job \in AllAsked}
    /\ \A p \in DOMAIN disk : disk[p].complete /\ disk[p].by \in AllAsked

\* The sources of an output: the file of the target, or all of its package.
SourcesOf(u) == IF u.names = <<>> THEN InterfaceFiles(u) ELSE {TopLevelType(u)}

\* A run that ends early leaves at most one file that is not complete, the one
\* it was writing, and what it calls complete, for a file or for a package, was
\* generated from sources that are good, with all that they import.  That one
\* file is there, and newer than its sources (the output is opened before the
\* source is parsed: FileGenerator::generate).  The main of an adapter is an
\* exception: it only names the files of its package, reads none of them, and
\* is complete though they are bad (generateAdapterMainSource).
FailureLeavesOnePartial ==
  LET partial == {p \in DOMAIN disk : ~ disk[p].complete}
  IN /\ Cardinality(partial) <= 1
     /\ partial # {} => pc \in {"write", "exit1", "aborted"}
     /\ \A p \in DOMAIN disk \ partial :
          LET by == disk[p].by
          IN by[1] # "adapterMain" =>
               \A f \in ReachFrom(SourcesOf(by[2])) : Exists(f) /\ tree[f].good

\* The dependency file is for an output of the last argument that has one, and
\* lists all that was read for this and for every earlier argument, so that no
\* change of a source goes unnoticed for that one output.  The main of an
\* adapter reads nothing.  That it is the first output is not stated here
\* (OutputHandler::writeDepFile, Coordinator::onFileAccess).
HasOutputs(n) == Asked(n) # {}
DepFileListsSources ==
  pc = "exit0" /\ Writes /\ opts.d # NoValue =>
    IF \A n \in Args : ~ HasOutputs(n) THEN depFile = NoFile
    ELSE LET k == Max({i \in DOMAIN cmd.args : HasOutputs(cmd.args[i])})
         IN /\ depFile.for \in {PathOf(job) : job \in Asked(cmd.args[k])}
            /\ \A i \in 1..k : \A job \in Asked(cmd.args[i]) :
                 job[1] # "adapterMain" => ReachFrom(SourcesOf(job[2])) \subseteq depFile.lists

\* Java sources are generated for a package only if all that it imports, over
\* any number of packages, is compatible with Java; and the CHECKs of the Java
\* generator fail for no package, only for files and types that are named on
\* their own, of which validateForSource asks nothing.
WithImports(fs) ==
  Closure(fs, [f \in DOMAIN tree |-> UNION {InterfaceFiles(g) : g \in tree[f].imports}])

JavaIsJudged ==
  /\ pc = "exit0" /\ opts.L = "java" =>
       \A n \in Args : n.names = <<>> => \A f \in WithImports(InterfaceFiles(n)) : tree[f].java
  /\ pc = "aborted" => opts.L = "java" /\ Argument.names # <<>>
=============================================================================
