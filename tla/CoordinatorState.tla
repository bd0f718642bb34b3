------------------------- MODULE CoordinatorState -------------------------
(***************************************************************************)
(* The state of the Coordinator, the source tree it reads, and the frames  *)
(* of its call stack.  Module Coordinator adds the actions.  An operator   *)
(* marked "fault" is a plausible mistake that the specification does not   *)
(* use, as those at the head of module Coordinator.                        *)
(***************************************************************************)
EXTENDS Integers, Sequences, FiniteSets

CONSTANTS
    Packages,       \* package@version names, records [base, minor]
    MaxName,        \* file names are 0..MaxName, in the order of a listing
    Inners,         \* names of types defined inside a file
    NoInner,        \* the inner name of an import of a top-level name
    BasePackage,    \* android.hidl.base@1.0
    Roots,          \* package roots, each with its current.txt
    NoRoot,         \* what findPackageRoot answers when no root fits
    NoFile,         \* no file: no super type, no set to insert into
    Repos,          \* the source trees the tool may be run on, by some index
    Requests        \* the targets of a run, sequences of [file, enf]

Types == 0                      \* types.hal is first in a listing
Names == 0..MaxName
WholePackage == -1              \* the "name" of an import of a package
Files == [pkg : Packages, name : Names]
Bases == {p.base : p \in Packages}
IBase == [pkg |-> BasePackage, name |-> 1]

\* Coordinator::Enforce
Enforcements == {"FULL", "NO_HASH", "NONE"}

\* An import statement after applyDefaults: pkg, pkg::top or pkg::top.inner
Imports == [pkg : Packages, top : Names \cup {WholePackage},
            inner : Inners \cup {NoInner}]

(***************************************************************************)
(* A source tree.  "text" abstracts what a file holds besides imports:     *)
(* "good", a syntax error before its interface, an error of postParse, or  *)
(* a file that is not what its path says.                                  *)
(***************************************************************************)
IsRepo(r) ==
    /\ r.dirs \subseteq Packages
    /\ r.files \subseteq {f \in Files : f.pkg \in r.dirs}
    /\ r.root \in [Bases -> Roots \cup {NoRoot}]
    /\ r.imports \in [Files -> Seq(Imports)]
    /\ r.defs \in [Files -> SUBSET (Names \X (Inners \cup {NoInner}))]
    /\ r.text \in [Files -> {"good", "syntax", "semantic", "misplaced"}]
    /\ r.super \in [Files -> Files \cup {NoFile}]
    /\ r.listed \in [Files -> {"absent", "match", "mismatch"}]
    /\ r.current \in [Roots -> {"absent", "valid", "malformed"}]

ASSUME NamesAssumption == MaxName \in Nat \ {0}
ASSUME PackagesAssumption ==
    /\ \A p \in Packages : p = [base |-> p.base, minor |-> p.minor] /\ p.minor \in Nat
    /\ \A p \in Packages : \A m \in 0..p.minor : [base |-> p.base, minor |-> m] \in Packages
    /\ BasePackage \in Packages
ASSUME NoValuesAssumption == NoFile \notin Files /\ NoRoot \notin Roots
ASSUME ReposAssumption == \A t \in DOMAIN Repos : IsRepo(Repos[t])
ASSUME RequestsAssumption ==
    \A q \in Requests : q \in Seq([file : Files, enf : {"FULL", "NO_HASH"}])

VARIABLES
    tree,       \* the index of the source tree, which is never written
    queue,      \* the targets of this run
    turn,       \* the target main is at
    status,     \* "running", or how the process ended
    stack,      \* activations, the innermost last
    ret,        \* what the last call returned, "none" once consumed
    cache,      \* mCache: "absent", "null" or "ast"
    imported,   \* mImportedASTs of the AST of each file
    enforced,   \* mPackagesEnforced
    hashFiles,  \* roots whose current.txt is in HashFile's static cache
    cleared,    \* files whose Hash was zeroed by clearHash
    readFiles,  \* mReadFiles: .hal files, and roots for their current.txt
    rejected    \* history: files freed because enforcement failed

vars == <<tree, queue, turn, status, stack, ret, cache, imported, enforced,
          hashFiles, cleared, readFiles, rejected>>
files == <<cache, imported, rejected, readFiles>>   \* what parsing changes
rules == <<enforced, hashFiles, cleared>>           \* what enforcing changes
world == <<tree, queue, turn, status>>

-----------------------------------------------------------------------------
(* The source tree as the Coordinator sees it.                             *)

repo == Repos[tree]

File(p, n) == [pkg |-> p, name |-> n]
TypesOf(p) == File(p, Types)
DownRev(p, m) == [base |-> p.base, minor |-> m]

Root(p) == repo.root[p.base]
Rooted(p) == Root(p) # NoRoot
Exists(f) == f \in repo.files
Listing(p) == {n \in Names : Exists(File(p, n))}

\* a loop over the sorted listing of p that has reached name k goes on with n
NextName(p, k, n) == n \in Listing(p) /\ n >= k /\ \A m \in Listing(p) : m >= k => n <= m
Exhausted(p, k) == \A n \in Listing(p) : n < k

\* hidl-gen_y.yy adds an import of IBase to every interface outside its package
ImportsIBase(f) == f.name # Types /\ f.pkg # BasePackage /\ repo.text[f] # "syntax"
Statements(f) == 1..(Len(repo.imports[f]) + (IF ImportsIBase(f) THEN 1 ELSE 0))
Statement(f, k) ==
    IF k \in 1..Len(repo.imports[f])
    THEN repo.imports[f][k]
    ELSE [pkg |-> BasePackage, top |-> IBase.name, inner |-> NoInner]

\* AST::getImportedPackages
ImportedPackages(f) == {Statement(f, k).pkg : k \in Statements(f)} \ {f.pkg}

\* Interface::superType, null for IBase only
SuperOf(f) == IF f.pkg = BasePackage THEN NoFile ELSE repo.super[f]

\* getPackageInterfaceFiles opens the package's directory
HasSources(p) == Rooted(p) /\ p \in repo.dirs

Earlier(p) == {q \in repo.dirs : q.base = p.base /\ q.minor < p.minor}
PrevPackage(p) == DownRev(p, p.minor - 1)

IsTypesOnly(p) == Listing(p) = {Types}

-----------------------------------------------------------------------------
(* Activations.  Every function's locals are fields of one record.         *)

ParsePCs == {"find", "types", "open", "import", "importing", "importTypes", "enforcing"}
RulePCs == {"enforce", "uprevs", "hashes", "uprev", "uprevNext", "current", "last",
            "hashNext", "hashed", "depended", "check", "checked",
            "deps", "depsParsed", "depsPick", "depsNext", "depHashed"}

Frames == [pc : ParsePCs \cup RulePCs,
           file : Files,                 \* the file, or a file of the package
           enf : Enforcements,
           into : Files \cup {NoFile},   \* whose mImportedASTs gets the result
           k : Nat,                      \* statement or name the loop is at
           j : Nat,                      \* inner loop: name, or minor version
           flag : BOOLEAN,               \* syntax error / extended / unfrozen
           todo : SUBSET Packages,       \* dependencies still to check
           at : Packages]                \* the dependency being checked

Activation(pc, f, e, into) ==
    [pc |-> pc, file |-> f, enf |-> e, into |-> into, k |-> 1, j |-> 0,
     flag |-> FALSE, todo |-> {}, at |-> f.pkg]

Parse(f, e) == Activation("find", f, e, NoFile)
ParseInto(f, g) == Activation("find", f, "NONE", g)
Rule(pc, f, e) == Activation(pc, f, e, NoFile)

Results == {"none", "ok", "missing", "error", "garbage",
            "frozen", "unfrozen", "changed"}

Top == stack[Len(stack)]
Below == [i \in 1..(Len(stack) - 1) |-> stack[i]]
Answered == ret # "none"
At(pc) == status = "running" /\ stack # <<>> /\ Top.pc = pc /\ ~Answered
Resumed(pc) == status = "running" /\ stack # <<>> /\ Top.pc = pc /\ Answered

Goto(t) == stack' = [stack EXCEPT ![Len(stack)] = t] /\ ret' = "none"
Call(t, callee) ==
    stack' = Append([stack EXCEPT ![Len(stack)] = t], callee) /\ ret' = "none"
Return(v) == stack' = Below /\ ret' = v

Idle == status = "running" /\ stack = <<>>

Inserted(f, g) == IF g = NoFile THEN imported ELSE [imported EXCEPT ![g] = @ \cup {f}]

\* fault: an import that fails is not a syntax error
BadImportForgiven == Goto([Top EXCEPT !.pc = "import", !.k = @ + 1, !.j = 0])

\* addImport failed: addSyntaxError, and the parser goes on
BadImport == Goto([Top EXCEPT !.pc = "import", !.k = @ + 1, !.j = 0, !.flag = TRUE])
GoodImport == Goto([Top EXCEPT !.pc = "import", !.k = @ + 1, !.j = 0])

LastOf(p, m, n) == File(DownRev(p, m), n)
NextInterface(extended) ==
    Goto([Top EXCEPT !.pc = "uprevNext", !.k = @ + 1, !.flag = @ \/ extended])

(***************************************************************************)
(* HashFile::parse caches null for a current.txt that cannot be read, and  *)
(* for one with a malformed line; only the first lookup reports the line.  *)
(***************************************************************************)
LookedUp(f) == IF repo.current[Root(f.pkg)] = "valid" THEN repo.listed[f] ELSE "absent"
=============================================================================
