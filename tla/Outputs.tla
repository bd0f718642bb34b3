------------------------------- MODULE Outputs -------------------------------
(***************************************************************************)
(* What each -L option generates, table kFormats of main.cpp, and where    *)
(* the files go.  A file name is a sequence of pieces, so that names that  *)
(* are put together differently and read the same are the same.            *)
(***************************************************************************)
EXTENDS FullNames, Naturals, TLC

CONSTANTS Spelling,   \* the pieces of each name of a file or type
          DirectPath  \* the package in a path that does not depend on one

\* FileGenerators, each named for what it generates.
CppHeaders == <<"header", "hwHeader", "stubHeader", "proxyHeader", "passthroughHeader">>
CppSources == <<"source">>
ImplHeaders == <<"implHeader">>
ImplSources == <<"implSource">>
AdapterHeaders == <<"adapterHeader">>
AdapterSources == <<"adapterSource">>

Format(mode, location, granularity, validate, generators) ==
  [mode |-> mode, location |-> location, granularity |-> granularity,
   validate |-> validate, generators |-> generators]
PerFile(mode, location, generators) ==
  Format(mode, location, "PER_FILE", "source", generators)
PerPackage(mode, location, generators) ==
  Format(mode, location, "PER_PACKAGE", "package", generators)

CppFormats ==
  [check          |-> PerFile("NOT_NEEDED", "STANDARD_OUT", <<"parse">>),
   cpp            |-> PerFile("NEEDS_DIR", "GEN_OUTPUT", CppHeaders \o CppSources),
   cppHeaders     |-> PerFile("NEEDS_DIR", "GEN_OUTPUT", CppHeaders),
   cppSources     |-> PerFile("NEEDS_DIR", "GEN_OUTPUT", CppSources),
   exportHeader   |-> PerPackage("NEEDS_FILE", "DIRECT", <<"exportHeader">>),
   impl           |-> PerFile("NEEDS_DIR", "DIRECT", ImplHeaders \o ImplSources),
   implHeaders    |-> PerFile("NEEDS_DIR", "DIRECT", ImplHeaders),
   implSources    |-> PerFile("NEEDS_DIR", "DIRECT", ImplSources),
   adapter        |-> PerFile("NEEDS_DIR", "GEN_OUTPUT", AdapterHeaders \o AdapterSources),
   adapterHeaders |-> PerFile("NEEDS_DIR", "GEN_OUTPUT", AdapterHeaders),
   adapterSources |-> PerFile("NEEDS_DIR", "GEN_OUTPUT", AdapterSources),
   adapterMain    |-> PerPackage("NEEDS_DIR", "DIRECT", <<"adapterMain">>)]

OtherFormats ==
  [java           |-> Format("NEEDS_DIR", "GEN_SANITIZED", "PER_TYPE", "source", <<"java">>),
   javaConstants  |-> PerPackage("NEEDS_DIR", "GEN_SANITIZED", <<"javaConstants">>),
   vts            |-> PerFile("NEEDS_DIR", "GEN_OUTPUT", <<"vts">>),
   makefile       |-> Format("NEEDS_SRC", "PACKAGE_ROOT", "PER_PACKAGE", "never", <<>>),
   androidbp      |-> PerPackage("NEEDS_SRC", "PACKAGE_ROOT", <<"androidbp">>),
   androidbpImpl  |-> PerPackage("NEEDS_DIR", "DIRECT", <<"androidbpImpl">>),
   hash           |-> PerFile("NOT_NEEDED", "STANDARD_OUT", <<"hash">>),
   functionCount  |-> PerFile("NOT_NEEDED", "STANDARD_OUT", <<"functionCount">>),
   dependencies   |-> PerFile("NOT_NEEDED", "STANDARD_OUT", <<"dependencies">>)]

Formats ==
  [l \in DOMAIN CppFormats \cup DOMAIN OtherFormats |->
     IF l \in DOMAIN CppFormats THEN CppFormats[l] ELSE OtherFormats[l]]

ForInterfaces == {"stubHeader", "proxyHeader", "passthroughHeader", "implHeader",
                  "implSource", "functionCount"}

IsTypesName(n) == n.names # <<>> /\ n.names[1] = "types"
shouldGenerate(g, n) == g \in ForInterfaces => ~ IsTypesName(n)

Pieces(n) == Spelling[Last(n.names)]
isInterfaceName(n) == Len(n.names) = 1 /\ Head(Pieces(n)) = "I"
BaseName(n) == Tail(Pieces(n))

\* A name for interfaces, and another for types.hal.
Named(n, prefix, suffix, types) ==
  IF isInterfaceName(n) THEN prefix \o BaseName(n) \o suffix ELSE types

FileName(g, n) ==
  CASE g = "header"            -> Pieces(n) \o <<".h">>
    [] g = "hwHeader"          -> Named(n, <<"I", "Hw">>, <<".h">>, <<"hwtypes.h">>)
    [] g = "stubHeader"        -> <<"BnHw">> \o BaseName(n) \o <<".h">>
    [] g = "proxyHeader"       -> <<"BpHw">> \o BaseName(n) \o <<".h">>
    [] g = "passthroughHeader" -> <<"Bs">> \o BaseName(n) \o <<".h">>
    [] g = "source"            -> Named(n, <<>>, <<"All.cpp">>, <<"types.cpp">>)
    [] g = "implHeader"        -> BaseName(n) \o <<".h">>
    [] g = "implSource"        -> BaseName(n) \o <<".cpp">>
    [] g = "adapterHeader"     -> Named(n, <<"A">>, <<".h">>, <<"Atypes.h">>)
    [] g = "adapterSource"     -> Named(n, <<"A">>, <<".cpp">>, <<"Atypes.cpp">>)
    [] g = "vts"               -> Named(n, <<>>, <<".vts">>, <<"types.vts">>)
    [] g = "java"              -> Pieces(n) \o <<".java">>
    [] g = "adapterMain"       -> <<"main.cpp">>
    [] g = "javaConstants"     -> <<"Constants.java">>
    [] g \in {"androidbp", "androidbpImpl"} -> <<"Android.bp">>
    [] OTHER                   -> <<>>

\* Coordinator::getFilepath: under the output path, under the sources of the
\* package, or in a directory named for the package.
FilePath(location, g, n) ==
  << IF location = "DIRECT" THEN DirectPath ELSE PackageAndVersion(n), FileName(g, n) >>
=============================================================================
