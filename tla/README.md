# A verification of hidl-gen

hidl-gen reads interface definitions (`.hal` files), checks them, and generates
C++, Java, VTS and build files from them. This project holds TLA+ models of its
logic, TLC configurations that check them on small instances, and proofs that
the TLA+ proof system (TLAPS) checks for every value of the constants. Paths
below are relative to the repository's root.

1. [The system](#1-the-system): components, state, operations, what is hard
2. [Plan](#2-plan)
3. [The models](#3-the-models): what they are and how they correspond to the code
4. [Runs](#4-runs)
5. [Proofs](#5-proofs)
6. [What the checks found](#6-what-the-checks-found)
7. [What is not modelled](#7-what-is-not-modelled)

## 1. The system

hidl-gen is one sequential process. What is hard about it is neither threads nor
messages but *recursion over shared caches*: a parse starts other parses, a rule
on one package parses files of other packages, each of which starts rules of its
own, and all of these read and write the same maps. Two parts are concurrent,
but at the run time of the code it generates: the death recipients of a proxy
and the queue of one-way calls of a passthrough object.

| component | state | operations | interacts with | what makes it correct |
|---|---|---|---|---|
| Driver (`main.cpp`) | targets, options, the open output | parse the arguments; for every target parse and generate; write the dependency file | calls the Coordinator for each target, then one generator; exits at the first failure | what is generated comes from a checked package; the dependency file names what was read |
| Coordinator (`Coordinator.cpp`) | `mCache`, `mPackagesEnforced`, `mReadFiles` | `parseOptional`, `parse`, `enforceRestrictionsOnPackage`, `enforceMinorVersionUprevs`, `enforceHashes`, `checkHash`, `getUnfrozenDependencies` | calls the parser, which calls `AST::addImport`, which calls `parseOptional` again | one verdict per file and run, the right one; rules hold of every package passed; no freed AST is used; it comes to an end |
| current.txt (`hashing/Hash.cpp`) | static maps: hash of a file, parsed hash files | `getHash`, `clearHash`, `lookupHash` | called by the Coordinator and by the generators | a frozen file that changed is never let through |
| AST and imports (`AST.cpp`) | `mImportedASTs`, `mImportedTypes`, `mImportedNames`, scopes, syntax errors | `addImport`, `addScopedType`, `lookupType`, `lookupTypeInternally`, `postParse` | looks types up in its own scopes and in imported ASTs | a name means one type, whatever the order of imports and declarations |
| Type passes (`Type.cpp`, `Scope.cpp`) | `mParseStage`, `mIsPostParseCompleted` per type | `recursivePass`, `topologicalOrder`, `checkForwardReferenceRestrictions`, `ParseStage` | run by `AST::postParse` in a fixed order of stages | every node once per pass; a cyclic definition is found, a legal one is not called cyclic |
| Constant expressions (`ConstantExpression.cpp`), enums (`EnumType.cpp`) | `mIsEvaluated`, `mValue`, `mValueKind`, autofill references | `evaluate`, `checkAcyclic`, `recursivePass`, `autofill` | evaluated in one of the passes, after the check for cycles | the value is what C++ and Java compute from the emitted text; cycles are found first |
| Interfaces, methods (`Interface.cpp`, `Method.cpp`) | serial number of a method, reserved methods | `addMethod`, `addAllReservedMethods`, `resolveInheritance`, `validate` | needs the super type to be resolved first | transaction codes are unique along an inheritance chain and stay what they were |
| Compound types (`CompoundType.cpp`), containers | sizes, alignment, offsets | `getAlignmentAndSize`, `getCompoundAlignmentAndSize`, readers and writers in two phases | called by the generators | offsets agree with C++; every byte of padding is cleared; reader and writer visit the same buffers in the same order |
| Generated proxies, stubs, passthrough (`generateCpp.cpp`) | at run time: recipients, a lock, a queue | two-way calls with callbacks, one-way calls, `linkToDeath`, `unlinkToDeath` | threads of the client, the death notifier, the queue's thread | a callback runs once; one-way calls run in order, once; no recipient is lost or called twice |
| Names (`utils/FQName.cpp`, `utils/FqInstance.cpp`) | none | parse, print, `applyDefaults`, versions up and down | everywhere | a name that is printed is parsed back into itself |
| Formatter (`host_utils/Formatter.cpp`) | indentation, the current line, prefixes | `out`, `indent`, `block`, `join` | under every generator | what is emitted is indented by the open blocks, whatever the chunks |
| Lexer, grammar (`hidl-gen_l.ll`, `hidl-gen_y.yy`) | scope stack, errors | productions | call `AST` and `Scope` | errors are counted, and none is lost by recovery |
| Other generators, `c2hal`, `docs`, `build` | little or none | emit text | | |

`PROJECT.json` lists every component with its status, and under `hazards` what
in this code is hard to reach with a test, each at its line.

## 2. Plan

The order of the work was that of what can go wrong and how hard it is to test.
Every part of the plan has its modules now:

| part | modules | checked | proved |
|---|---|---|---|
| Coordinator | `CoordinatorState`, `Coordinator`, `CoordinatorProperties` | all | all safety properties |
| order of types | `TypeOrder`, `TypeOrderProperties` | all | order, error report, scopes |
| constant expressions, enums | `IntegerKinds`, `ConstantExpressions`, `ConstantExpressionProperties` | all | conversions, the verdict on cycles, the order of evaluation, what a name means, values |
| calls | `CallContract`, `HwbinderCall`, `HwbinderCallProperties`, `PassthroughCall` | all | the refinement; queue and null results |
| death recipients | `DeathRecipients` | all | both invariants |
| layout, safe unions | `Layout`, `LayoutProperties`, `SafeUnion`, `SafeUnionProperties` | all | all safety properties |
| marshalling | `TypeQueries`, `Marshalling`, `MarshallingProperties` | all | none |
| names, lookup, interfaces | `FullNames`, `Lookup`, `Interfaces`, `InterfaceProperties` | all | none |
| driver | `Outputs`, `Driver`, `DriverProperties` | all | all |

`MC…` modules instantiate these for TLC, `…Proofs` modules hold the theorems.

Open: proofs of the safety properties that are only model-checked (list at the
end of section 5). The nearest are those of `Interfaces`, which uses no
`RECURSIVE` operator, but asks more of its source trees than its constants assume so far: a file
has one name, and no interface extends itself. The modules that are proved about use no
`RECURSIVE` operator either: recursion of the code is an explicit stack or a recursive
function. `TypeQueries` and `MarshallingProperties` do use some, and
with `Marshalling` stay with TLC.

## 3. The models

### The Coordinator

#### State

`CoordinatorState.tla` holds the variables, the source tree and the shape of an
activation. The source tree is chosen at the start from `Repos` and never
written; it says which directories and files exist, what each file imports,
whether its text is good, what its interface extends, and what current.txt says
of it. Of the text of a file only this is kept: `"syntax"` (an error before the
interface, so that the implicit import of `IBase` is not made), `"semantic"` (an
error of `postParse`), `"misplaced"` (its package or name is not what its path
says) and `"good"`.

| variable | code |
|---|---|
| `queue`, `turn`, `status` | the targets on the command line, the loop in `main`, exit or abort |
| `stack`, `ret` | the C++ call stack: a frame is one activation of `parseOptional` (`find` … `enforcing`), `enforceRestrictionsOnPackage` (`enforce`, `uprevs`, `hashes`), `enforceMinorVersionUprevs` (`uprev` … `last`), `enforceHashes` (`hashNext` … `depended`), `checkHash` (`check`, `checked`) or `getUnfrozenDependencies` (`deps` … `depHashed`), and `pc` is the call it waits for; `ret` is the answer of the call that ended last |
| `cache` | `Coordinator::mCache`: no entry, a null entry, an AST |
| `imported` | `AST::mImportedASTs` of the AST of a file |
| `enforced` | `Coordinator::mPackagesEnforced` |
| `hashFiles`, `cleared` | the static maps of `Hash.cpp` |
| `readFiles` | `Coordinator::mReadFiles` |
| `rejected` | history, no counterpart: files whose AST was freed when enforcement failed |

#### Actions

An action is what one activation does between two calls, so a function is the
sequence of its actions. `FindCached`/`FindAbsent`, `TypesParsed`, `Open`,
`ImportName`/`ImportPackage`, `Imported`, `ImportedTypes`, `Reject`/`Accept` and
`Enforced` are `parseOptional` with `parseFile` and `AST::addImport` inlined;
the rest bear the names of the functions in the table above. `Request`,
`Generated`, `Fail`, `Finish` and `Abort` are `main`. `Abort` is the `CHECK` in
`Coordinator::parse`: `parseOptional` leaves its result unassigned on two error
paths (the answer `"garbage"`), and the `CHECK` reads an uninitialized local
there; the model allows both outcomes.

Two abstractions matter. Names of files are numbers in the order of a sorted
listing, `types` first, because only the order and the special role of `types`
are ever used. A dependency set is worked off in any order (the code: in the
order of package names), which allows more behaviours than the code has.

Every module of code also holds some faults the code does not have (`(A fault: …)`): what
a plausible bug would turn one of the definitions into. They are not part of the
specification and test the properties: with the fault in place a property must fail.

#### Properties

`CoordinatorProperties.tla`. Guards on the recursion, `RecursionIsGuarded`: no file is
parsed while it is being parsed (`NoReentry`: the null entry is a lock), and rules do not take a
file being built for a broken one (`NoFalseCycle`). `AstsStayAlive`: no freed AST is used
(`NoDanglingWhileBuilding`, `CurrentStaysAlive`). `VerdictsAreRight`: a file has been given an AST only if it is good
*from the ground up*, which `LiveIsValid` states without recursion (among any accepted
files one is good by the others alone, so that files on an import cycle are excluded), and has an error
only if there is one (`NoSpuriousError`, between two targets). `StickyVerdict` is an action
property. `RulesHold` is what enforcement establishes: `HashesHold`, `UprevsHold`,
`EnforcedIsParsed`. Enforcement may free an AST after another package relied on it, and be
nested in a rule that passes all the same; what the rules rest on is therefore that files were `Accepted`,
given an AST at some time, not that the AST is alive now (`EnforcedIsLive`, section 6).
`UprevsHold` follows the code in what it passes over: an interface extends the *latest* earlier version that
can be parsed (`ExtendsLatest`), not that of the version just before. `FirstTargetIsIntact`
says that what the first target is answered with is alive as a whole; of later targets it is
false (section 6). `Termination` is the liveness property.

### The order of types

`TypeOrder.tla` models three passes of `AST::postParse` that decide whether a file
can be emitted, and in which order its types are: `topologicalReorder` (the walk
`Type::topologicalOrder`, then a sort of every scope) and
`checkForwardReferenceRestrictions`. A program is what the parser built: the nodes
of types, named or written in a field, with kind, scope, definitions, references
and places. It is chosen at the start from `Programs`.

| variable | code |
|---|---|
| `phase` | which pass runs, or how the run ended: `"accepted"`, `"rejected"` (a check answered an error) or `"threw"` (`reversedOrder.at` in the comparison found no index) |
| `frames` | the activations of `topologicalOrder`, each at one of the definitions and references it goes through |
| `stack`, `reversedOrder` | its arguments of these names; `reversedOrder` as a sequence, so that an index is a position |
| `cycleEnd`, `printed` | what an activation returns after an error, and the lines it writes |
| `mTypes`, `typeIndex`, `orderChanged` | `mTypes`, `mTypeIndexByName`, `mTypeOrderChanged` of every `Scope` |
| `pending`, `visited` | where `Type::recursivePass` is; its argument `visited` |

`Skip`, `Descend`, `FindCycle`, `Complete` and `Unwind` are the steps of
`topologicalOrder` between two calls. `PassedOver` and `Follow` are `recursivePass`;
it runs twice, with `Scope::topologicalReorder` (`KeepOrder`, `Sort`) and with the
check of forward references (`CheckForward`).

Left out: names, which are unique by then (`validateDefinedTypesUniqueNames` runs
earlier), and the passes between the two, which change no order. Of a program it is assumed (`IsNested`)
that the parser puts every type into the scope it is written in (`AST::addScopedType`), so that no two scopes are inside each other. `ref<T>` is treated as
`vec<T>`: both hold `T` by pointer, and neither is a strong reference.

`TypeOrderProperties.tla` states what C++ needs of the result. `Required` and
`Embeds` say which types must be complete, from what the emitters write, and
`OrderIsLinear` compares the indices with it. `PrintedIsCycle` says that the error
is right. `ScopesAreKnown` is about the sort, which reads a
map that was filled along other edges and permutes a vector that other maps
index (`KeysAreKnown`, `LookupFindsItself`). `Header` is the order in which `emitTypeDeclarations` writes
definitions; `TypesAreDefinedFirst` says when a type in it comes after all that it contains (`SiblingsDefinedFirst`,
`UnchangedDefinedFirst`), and `DefinedFirst` says always, which is false (section 6).

### Constant expressions

`IntegerKinds.tla` is the part without state: the kinds of integers, how a value is stored
(`mValue`, a `uint64_t` beside `mValueKind`) and cast, promotion and conversion, and what each
operator computes. The width of each kind is a constant; `WidthAssumption` keeps the order
of the widths in C++ and the equality of a signed kind and its unsigned counterpart. `PowerOfTwo` is
a recursive function instead of `^`, of which the provers know nothing.

`ConstantExpressions.tla` models the passes of `AST::postParse` over the expressions of a file and
of the files it imports, whose passes run first: `resolveInheritance` (values that are not
written are filled in), `lookupConstantExpressions`, `checkAcyclicConstantExpressions`,
`validateConstantExpressions`, `evaluateConstantExpressions`, and the mark that keeps later files
from passing over an expression again.

| variable | code |
|---|---|
| `types`, `values` | `EnumType::mValues` with `EnumValue::mValue`, `ArrayType::mSizes`, in the order in which `Type::recursivePass` visits the types |
| `exprs` | every `ConstantExpression`: its class and operator (`shape`, `op`), operands (`args`), what its reference is resolved to (`ref`), `mIsEvaluated`, `mValueKind`, `mValue`, `mIsPostParseCompleted`; `owner`, the type in which it is written, has no counterpart |
| `autofilled` | `EnumValue::mIsAutoFill` |
| `file`, `phase`, `todo` | for which file `postParse` runs, which pass, what it has still to visit; or how the run ended: `"cycle end"` is the failed `CHECK` of `checkAcyclic`, `"trap"` the signal of a division |
| `frames` | the activations of `recursivePass` or `checkAcyclic`, each at one of the expressions it depends on |
| `visited`, `stack` | the sets of these names |

`PassOver`, `Enter`, `ReturnTo` and `Leave` are `recursivePass`; with a function that runs first they
make `LookUp`, `Validate` and `setPostParseCompleted`, with one that runs last `Descend` and `Evaluate`.
`CheckAcyclic`, `CheckedBefore`, `FindCycle` and `LeaveAcyclic` are `checkAcyclic`. `Trap` is a
division by zero, or of the least value by -1, wherever it is: both operands of `&&`, `||` and
`?:` are evaluated. What C++ leaves undefined is modelled as the instructions for x86 do it:
an overflow wraps, and the number of bits of a shift is taken modulo the width.

Left out: the text of expressions (`mExpr`, the lines of the error), expressions in annotations,
the other validations between `evaluate` and the mark, and the lookup of types, which has a module
of its own (`Lookup`): the enum in `E:name` and `E#len` is given. What a program may be is `IsProgram`:
expressions are of the forms of the grammar, with literals that `tryParse` makes of some text (`IsOfGrammar`,
`IsLiteral`), and an enum that extends another has its storage type.

`ConstantExpressionProperties.tla`. `AcyclicVerdict` compares the walk, with one set of visited
expressions for all starting points, with circles in what it has visited. `EvaluatedFirst` relates the
order of evaluation to dependencies, across files whose passes are over. `ValuesAreRight` has two parts. `ValueIsDocumented`
compares kinds and values with the rules at the end of `ConstantExpression.cpp`, in
exact arithmetic on integers: where operands and result fit, nothing is lost on the way through `uint64_t`.
`AutofillIsSuccessor` is about two values as they are emitted, in the storage type, whatever kind their
expressions have. The kind of `!` is left out of `ValueIsDocumented`, since the code does not give it the documented one (`LogicalIsBool`, section 6);
its value is in. `AutofillIsSuccessor` leaves out enums of `bool`, which `EnumType::validate` refuses once the values are known; they would
not keep it (a value of -1 is emitted as 1, and the next one as 0). `BackwardNamesMeanOwn` says when a plain name means a value of its own enum: where no expression
names, and no enum extends, an enum that comes later (`IsBackward`). That it always does (`NamesMeanOwn`) is false (section 6).

### Calls through generated code

`generateCpp.cpp` emits, for every method, a method of the proxy (`BpHw`), one of
the stub (`BnHw`) and one of the passthrough object (`Bs`). The models are of the
code that is emitted, with the four shapes a method may have: one-way, without
results, with one result that is returned (`Method::canElideCallback`), and with a
synchronous callback `_hidl_cb`.

`CallContract.tla` is what a caller may rely on whichever way a call takes: the
implementation runs at most once, a call that is not one-way and returns without an
error was carried out, and the callback runs exactly once in such a call and never
in one that returns with an error.

`HwbinderCall.tla` is the binderized way.

| variable | code |
|---|---|
| `request` | which method, whether the caller passed a callback, whether the server has this method with these arguments |
| `proxy`, `status`, `answers` | where a call is in the function of `generateStaticProxyMethodSource`, what it returned, how often it ran the callback of the caller |
| `stub`, `callbacks`, `started` | where it is in `onTransact` and the function of `generateStaticStubMethodSource` (`callbacks` counts what `_hidl_callbackCalled` notes), and how often the implementation was entered |
| `asyncTodo`, `twoWay`, `reply`, `server` | external, hwbinder: transactions that wait, the reply that was sent, whether the process of the server lives |

The proxy goes from `entered` over `transact`, `read` and `answer` to `exit`, and every
step of it may go to `_hidl_error` instead: that is `FailToSend`, `ReceiveError` and
`FailToRead`. The callback of the caller runs after everything was read, which is what the
two passes of reading are for. In the stub, `CallBack` sends the reply while the
implementation still runs. `Die` stands for every end of the server's process
other than a second call of `_hidl_cb` (`CallBackAgain`): `assertOk` on the status an implementation returns, a
callback that was never called, and causes that are not the stub's. The
transport of arguments is abstracted to whether it succeeds; `"short"` is a reply
with the status OK and without all results, which exists because the stub
ignores the errors of writing them.

What hwbinder does is modelled from how it is used: two-way transactions are
served concurrently by a number of threads, one-way ones of an object one at a
time and in order, and the death of the server fails what waits for it.

`PassthroughCall.tla` is the other way: the implementation runs in the thread of
the caller, and one-way calls are tasks of `mOnewayQueue`, which a thread of its own
works off (`TaskRunner`, external). This code keeps less of the contract: nothing
counts how often an implementation calls `_hidl_cb`, and a result that
cannot be wrapped reaches the callback as `nullptr`, with only the
returned status to tell (`NullIsReported`). `QueueIsSound` relates the order in
which tasks ran to the order of the calls and to what they returned; `AcceptedIsRun` says that a
task that was accepted runs. To take the value of an elided
result from an error ends the process, so that `Finish` has no such outcome.

### Death recipients

`DeathRecipients.tla` is `linkToDeath` and `unlinkToDeath` of a proxy, which `Interface.cpp`
emits. The threads of the client share a vector under a mutex; the death of the service comes from outside
at any step.

| variable | code |
|---|---|
| `call` | by thread: the step of the emitted function, the binder recipient in hand, the iterator |
| `mutex` | `_hidl_mMutex`, as the set of threads in the critical section |
| `mDeathRecipients` | the vector of this name: the only strong references to the binder recipients |
| `link` | every `hidl_binder_death_recipient` made so far: for whom, and what the calls answered |
| `obituaries`, `obitsSent`, `reporting` | external, the binder object: its list of weak references, whether it knows of the death, what it has still to report |
| `dead` | the service |

`LinkToDeath`, `UnlinkToDeath` and `Erase` are the code between two calls of the binder
object, `RemoteLink` and `RemoteUnlink` these calls. `LinkedIsRecorded` says that who is in the list of the binder object is
held by the vector, `LinksAreBalanced` that nobody is told twice or after a successful unlink and that unlinking
finds as many links as succeeded, although failed ones stay recorded and links of one recipient look the
same. `DeathIsReported` is the liveness property.

### Layout and safe unions

`Layout.tla` follows the walks over the fields of a compound type, one field a step:
`getCompoundAlignmentAndSize`, the two passes of `emitTypeDeclarations` (declarations and
`static_assert`s) and the Java emitter. What the C++ compiler does with the declaration is external
(`native`). A field is known by the size and alignment of its type.

| variable | code |
|---|---|
| `style`, `fields` | the declaration |
| `phase`, `i` | the walk under way and the field it is at |
| `inner`, `discriminator`, `overall` | `CompoundLayout` |
| `offset` | the local of the later walks |
| `native`, `java` | the offsets in the C++ object and in the Java code |

`LayoutIsSound` (`LayoutProperties`) says that all of them agree, that fields are apart and aligned also
in arrays, and that no padding is negative.

`SafeUnion.tla` extends it with programs that use the generated class: objects are constructed,
copied, moved, assigned, set, read and destroyed in any order, in C++ or in Java.

| variable | code |
|---|---|
| `obj` | the C++ objects: for each byte who gave it its value, the discriminator, which members are constructed, the value |
| `lost`, `dead` | history: values whose destructor never ran; a destructor ran on a member that is not constructed |
| `jobj`, `last` | the Java object (`hidl_d`, `hidl_o`); what was last done to it: it is new, was given a value by a setter or `readFromParcel`, or `readFromParcel` threw |
| `lang` | which of the two the program is |

`NoJunkIsSent`: no byte of an object, which is sent as it lies in memory, is what happened to be there.
`ActiveMemberIsThere`: the discriminator names the constructed member, and destructors match
constructors. In Java the getter of the active member gives its value, with two exceptions, which the formula names: nothing is said after
a `readFromParcel` that threw, and in a new object whose first member is a scalar the getter fails (`FreshIsReadable`, section 6). `FreshIsZero`: a new
object is zero in every byte if the default of its first member is.

### Marshalling

`TypeQueries.tla` holds the questions that generators ask of a type and all it is made of
(`needsEmbeddedReadWrite`, `needsResolveReferences`, `containsPointer`, `isJavaCompatible`,
`canCheckEquality`), each with the set of visited types. `Marshalling.tla` is what the
emitted code does with a parcel. The emitters produce nested calls and loops; their
order is an agenda of tasks, one for each part of a value.

| variable | code |
|---|---|
| `case`, `lang`, `reply` | the method with its values; C++ or Java on each side; whether errors are ignored (`ErrorMode_Ignore`) |
| `side`, `pass`, `next` | who works, which of the two walks of C++, at which argument |
| `agenda` | the calls and iterations of loops that remain |
| `child`, `parent` | the handles `_hidl_<name>_child` and `_hidl_<name>_parent` in the emitted code |
| `parcel`, `pos` | external: the entries of the parcel, and how many were read |
| `status`, `dropped`, `strayed` | of the side at work; history: an error was ignored, an entry was taken for another |

The actions bear the kind of type and what is done with it (`TopVector`, `EmbeddedString`,
`ReferencesRef`, `JavaArray`, …); `Fail` is the error path of each. `WalksAgree`: handles and offsets written
with a pointer are those of the place it is at, and the reader takes every entry for what it was written
for, in either language. `AllPointersSent`: every pointer in the arguments, and in what they refer to, has one
entry. `QueriesAreReachability`: a walk that skips visited types answers as if it did not.

### Names, lookup and interfaces

`FullNames.tla` is what `FQName` computes (matching by the end, defaults, derived names). `Lookup.tla`
is `AST::addImport`, `findDefinedType` and `lookupType`; `Interfaces.tla` runs it for all
files of a source tree, from the import statements through the methods to the passes of `postParse`.

| variable | code |
|---|---|
| `world` | the source tree: statements, definitions, references, methods |
| `ast` | `mImportedASTs`, `mImportedTypes`, `mImportedNames`, `mImportedNamesGranular`, the methods of the interface with serial numbers, what references resolved to |
| `verdict` | how each file ended; `"crashed"` is a failed `CHECK` or a null pointer |
| `stack`, `phase`, `step` | the files being read, what each does next, and with which of its parts |
| `allReserved` | `gAllReservedMethods` |

`MethodsAreApart`: all methods of a proxy, inherited and reserved ones too, have codes and names of their own.
`ReservedAreKnown`: every interface gets the reserved methods, though only reading `IBase` provides them.
`NamesMeanWhatIsImported`: what a reference means, or that it means nothing, follows from the statements and their order
as `VisibleIn` tells it. `DefinitionsAreIncluded`: the file of the meaning is among those to
include. A failed import is treated as the end of the run: the parser goes on, counts it and fails at the end.

### Driver

`Outputs.tla` is the table `kFormats`: generators, granularity, locations and path names.
`Driver.tla` is `main`.

| variable | code |
|---|---|
| `tree`, `cmd` | sources and command line |
| `pc`, `next` | where `main` is, at which option or argument |
| `opts` | the options read: `-L`, `-o`, `-p`, `-r`, `-R`, `-d` |
| `targets`, `at` | what `OutputHandler::generate` works through |
| `disk` | output files: who wrote each, completely or not |
| `cached`, `readFiles`, `depFile` | the Coordinator's cache, `mReadFiles`, the dependency file |

Of parsing it keeps which files are read and whether they are good; the details are the Coordinator's. The
files that a parse reads are a closure (`ReachFrom`), and the loop of `isPackageJavaCompatible` is a recursive function
of the number of turns (`JudgeNext` is one). A file has one turn at most, since only files not yet seen are
added, so as many turns as there are files are enough; that they are is proved (`JudgeFacts`).
`OutputsAreComplete`: a run that succeeds has left exactly what was asked for. `FailureLeavesOnePartial`: one
that fails left at most one incomplete file, and what is complete, for a file or for a whole package, was made from sources that are good
(`SourcesOf`, with all they import); the exception is the main of an adapter, which lists the files of its package and reads none.
`DepFileListsSources`: the dependency file is for an output of the last argument that has one (which of them is not stated), and
lists all that this output and every earlier one was made from. `JavaIsJudged`: Java is generated only for what
is compatible with all its imports.

## 4. Runs

| run | what varies | bounds | properties |
|---|---|---|---|
| `coordinator` | two families of source trees. Who imports whom, in each of the three forms, cycles within and across packages, a broken, misplaced or missing file, a missing root; three minor versions, who extends whom, what is frozen, an unreadable current.txt, two packages whose rules need each other, one of which fails. `Enforce::FULL` and `Enforce::NO_HASH` | about 1400 trees of at most 6 packages, 3 names each; 1 or 2 targets; 104302 states | guards, freed ASTs, verdicts, rules, termination |
| `type_order` | structs W, Y, X, in this order, and Z inside Y, each with no field or one of another's type or of a vector of it, the field of Y before or after Z; interfaces that extend and hold each other, typedefs, an array, a vector, a type of another file | 4 structs; or 2 interfaces and 3 types; 6692 programs, 177765 states | the order, the report, scopes, what is defined first |
| `constants` | two enums, apart or one above the other, in one file or two, each value unwritten, a literal, a name of its own or the other enum, or an operator on one; array sizes; every operator on operands of every kind; an unwritten value after each of them, for every storage type | 2 to 5 types, widths of 1 to 5 bits, 264068 states | cycles, order of evaluation, names, values |
| `hwbinder_call` | the kinds of three calls; the first may lack its callback or not fit the server; every failure of sending and reading; the death of the server at any step | 3 calls, 2 threads of clients, 2 of the server, 148714 states | the contract (refinement), what an answer without an error means, every call returns and one-way calls are served (`CallsAreServed`) |
| `passthrough_call` | the kinds of four calls, results that wrap or not, a full queue | 4 calls, 2 threads, a queue of 2 (3000 in the code), at most 2 calls of `_hidl_cb` (`MaxAnswers`), 128077 states | null results, the queue, what is accepted runs |
| `death_recipients` | the order of linking, unlinking, dying and reporting | 2 threads, 2 recipients, 4 links (`MaxLinks`), 79059 states | records, balance, who is linked is told |
| `safe_union` | every compound type of up to three fields of four types (a byte, an interface, a string, a struct of 12 bytes), the discriminator of one or two bytes; the order of operations on objects | 2 objects, 1 value beside the defaults, 20087 states | layout, bytes, members, zeroes |
| `marshalling` | 21 calls with each kind of type, nested vectors and arrays, safe unions, handles, references to the same object, to themselves and in circles; C++ or Java on either side, call or result, an interface that cannot be unwrapped | 24 entries (`MaxEntries`), 3013 states | the walks, the pointers, the queries |
| `interfaces` | statements of a file (whole package, file, type, in any order) and the names it uses; methods and super types of a chain of three, with names that clash and too many methods | about 2500 trees of at most 6 files, 3 user codes (`LastCall`) | methods, reserved methods, names, includes |
| `driver` | every `-L` option; right, missing, repeated and wrong options and arguments; one file that is bad, one that is not fit for Java; a package whose directory has no file; outputs that cannot be opened | 4 packages, 6 files, 2 arguments, 16833 states | outputs after success and failure, the dependency file, Java |
| `intact_targets`, `own_types` | expect a violation | | section 6 |

The state space of a run is the union over its inputs, not the product
over everything in an input: each family in an `MC` module varies what
one group of rules looks at. The bounds are enough for the hazards because each
needs little. For the Coordinator: a cycle needs two files, a cycle across packages through a whole-package
import three, a fallback to `types.hal` a package with and without it, a nested
enforcement two versions, a skipped version three, mutual dependency two packages.
The second target is needed for what the caches carry over.

For the order of types the hazards need: a cycle of one, two and three types; a
sort that moves something (two structs in the wrong order); a scope that the
sort permutes around a nested one, for which four structs are the least; and
each kind of reference that is not strong.

For constant expressions: the widths are scaled down so that the values around every boundary are
within reach: 4 bits for `int`, 5 for the widest kinds, fewer for the narrow ones, with an operand at or
beyond the end of each kind. Nothing in the code depends on a width but comparisons of kinds, casts and
the limits of literals. Two enums of two values are enough for a circle through an operator, one
through both enums, and one through an unwritten value; the empty enum of a chain needs three.

For calls: two calls of one thread, so that an answer sent from within the callback
can overtake the rest of the method it came from, and one of another thread;
two threads of the server, so that calls overlap there. A queue of two
is full, and drains, with three calls of one thread and one of another.

For death recipients: two links of one recipient, so that the search from the end matters,
beside one of another and one that fails. For layouts: every two alignments in either order, and a
third field after a gap; the limit of the discriminator is scaled down from 256 fields to
2 so that its width changes. For interfaces: an own, an inherited and a doubly inherited method, and
a limit on codes (`LAST_CALL_TRANSACTION`, scaled down to 3) that a chain just reaches and passes.

*Fairness.* For hidl-gen itself, and for the walks of one call in `Marshalling`, it is weak fairness of `Next`: the process is
sequential and does not stop while it can take a step. For calls it is weak fairness of
each thread: of the steps of a call in proxy and stub, of the threads of the
server and of the queue. For death recipients it is that of a call that has begun (`Serve`) and of the binder object's
notice of the death and its reports, not of beginning a call nor of dying. Starting a call is never fair. That an implementation returns is
part of this assumption, and `CallsAreServed` needs it: neither proxy nor stub has a timeout. No other
fairness is assumed. Where a configuration leaves deadlock unchecked, the system may rest: the program
has come to its end, or nobody calls.

## 5. Proofs

`CoordinatorProofs.tla` begins with `TypeCorrect`. The type invariant is not inductive by
itself: the walk down the minor versions builds file names from `j`, so `FrameOK`
says that an activation in that loop is in a package with a minor version above
zero and that `j` is below it. `ReplaceLast`, `Push` and `Pop` are what the three
steps of a call stack do to a sequence; every action lemma uses them through
`GotoOnly`, `CallOnly` and `ReturnOnly`.

It goes on with `NoReentryHolds`, `NoFalseCycleHolds`, `NoDanglingHolds`,
`CurrentAliveHolds`, `StickyVerdictHolds`, all from `SafeInvHolds`. `SafeInv` says

- `Framed`: what an activation knows of the caches. While it builds a file, the
  entry is null and the imported ASTs are alive; while it enforces, the entry is
  its AST; while it waits for the last version, the current interface is alive.
- `Linked`: what an activation has to do with the one it called.
- `Nested`: what it has to do with *any* activation inside of it. Below a file
  being built everything runs with `Enforce::NONE`, and no activation inside is
  for the same file, nor for the current file of a loop over versions.
- `AnswerInv`: what the last answer means to the activation it is for. After
  `"ok"` the file asked for is alive; an enforcement under `NONE` never fails.
- `AbsentInv`: a file without entry has no imported ASTs.

The properties that the run checks follow from these: `RecursionIsGuardedHolds`, `AstsStayAliveHolds`.

The heart is `OwnEntry`: an activation only changes the entry of its own file, and
frees an AST only where `enf # "NONE"`, hence where nothing is being built below
it. `CurrentStaysAlive` needs `AnswerInv` and `Nested` together: the current file
is alive when the walk starts, so nothing inside can be building it.

The second part of the module proves what the verdicts are worth: `VerdictsAreRightHolds`
(from `LiveIsValidHolds` and `NoSpuriousErrorHolds`), `RulesHoldHolds` and `FirstTargetIsIntactHolds`. The difficulty
is that an activation relies on answers it got many calls ago, while others parsed, enforced and freed. The
invariants therefore speak of sets of files that change in one direction only.

- `VerdictInv`. `Accepted` and `Dead` (missing, or in error for good) only grow. `Knows` says what an
  activation has found out in terms of them: which statements of its file hold, which names of its
  package keep the rule of versions, which files the rule of hashes. `Waits` says which call it
  is waiting for, and `Delivers` what the answer of such a call means. `KnowsMore` then carries
  all of it through the steps of others. `GroundedInv` is `LiveIsValid` without its
  condition: a file that is accepted rests on files accepted before it, so in any set of them the one accepted first is
  good by the others. `RecordedInv` is what was known when a package was recorded.
- `HopeInv`. `Hope` is the set of files that may still turn out good: without a null entry, or being built
  without an error so far in it and in all it is building. It only shrinks (`HopeShrinks`). Every file with a null entry
  that is not being built is one that could not be good on that hope (`FailedInv`), every
  activation that met an error has a statement that fails on it (`FlagInv`). Between two targets nothing is being
  built, and `Hope` is what has no null entry: `NoSpuriousError`. A cycle of imports is why the hope of a
  file has to end with the error of what it is building: the file inside fails *because* that one is being built.
- `FirstInv`. When the enforcement of the first target begins there is a set of live files, closed under imports, that
  contains the target. None of them is absent, so no activation of that enforcement parses one anew and
  owns it (`Untouched`), and only the owner frees an AST. For a second target such a set need not exist,
  because the first may have left live ASTs with freed imports.

The theorems hold for all packages, names, source trees and requests that meet
the assumptions of `CoordinatorState`, however large; TLC evaluates these
assumptions on the instances above.

`TypeOrderProofs.tla`: `OrderIsLinearHolds` and `PrintedIsCycleHolds`, for all
programs of the type `ProgramType`. Neither property is inductive: a list of
numbered types says nothing of the types that are about to be numbered. `OrderInv`
adds the walk: the activations are a path of calls from the root (`Path`), of
different types (`Distinct`) without an index (`Open`), which are exactly those in
`stack` (`StackIsFrames`), and each has all that it requires before its current
successor numbered (`Passed`). An activation that is done has therefore everything
it requires numbered (`TopIsReady`), and appending its type keeps the order
linear (`AppendedIsLinear`). For the report, `ReportInv` adds what holds on the way
back: the lines so far are a chain from the end of the cycle to the type the innermost
activation was about to call, and the end is still among the activations
until its line closes the chain.

`ScopesAreKnownHolds`: the sort of a scope finds the index of each of its types, and leaves `mTypeIndexByName`
right. `recursivePass` visits also scopes which `topologicalOrder` does not get to from the root by requirement alone, so
that they are numbered needs `IsNested`: the scopes without a number would be only inside each other
(`ScopesAreNumbered`). That the sorted list has the same types as the one before is about
a recursive function, `Among`, and is proved by induction over the position, with `SetInduction`: a set
that has 0 and with every number the next one has all. It follows from the well-foundedness of `<` on the
numbers in the form of sets (`WFMin`), which needs no operator as a parameter.

`HwbinderCallProofs.tla`: `TypeCorrect`, `OkIsFinishedHolds` and `ContractKept`, the refinement, for all
calls, clients and threads of the server. `CallInv` is about one call: what the proxy
knows by where it is (`ProxyInv`), what the stub has done by where it is (`StubInv`),
and between them `SentInv`: a transaction is with the server only if the proxy sent
it, once, and while it may still be carried out no caller was told that it
failed. The last is why a step of the stub into the implementation is `Run` of the
contract. `LeftAlone` says that a step of one call keeps `CallInv` of the others.

`PassthroughCallProofs.tla`: `NullIsReportedHolds` and `QueueIsSoundHolds`, for any number of calls
and threads and any limit of the queue. The invariant adds to the properties that a call begins after those its
thread made before have returned (`BegunInOrder`), what was done of a call by where it is (`MethodInv`),
that the queue and the list of started tasks are in the order of the calls (`InOrder`), and
that what waits comes after what was started (`WaitsAfter`).

`DeathRecipientProofs.tla`: `TypeCorrect`, `LinkedIsRecordedHolds` and `LinksAreBalancedHolds`, for
any number of threads, recipients and links. The properties are not inductive: that `Erase` removes
the right entry needs that the iterator still points at it, hence that nobody else is in the critical
section (`MutexInv`, `InHand`), and that nobody is told twice needs that each list names a binder recipient
once, that the list is given away once (`ListInv`), and that who is to be told was neither told nor unlinked
before (`ToldInv`).

`LayoutProofs.tla`: `LayoutIsSoundHolds`, for any number of fields of any size and the four
alignments. No walk knows the sum that another had at a field, so the invariant says that there is one
function `sum`, from the number of fields to their size and alignment, of which every walk is a
prefix (`Chain`): the size so far in the first, the end of the declaration in the compiler's,
the offset in the later ones. That they pad the same is `RoundUp(o, a) = o + GetPad(o, a)`, by
cases on the four alignments.

The same module goes on with the objects of a safe union: `NoJunkIsSentHolds`, `ActiveMemberIsThereHolds`
and `FreshIsZeroHolds`, on top of the layout. The properties speak of objects when they are sent or read, so the invariant
(`ObjectInv`) describes every object at any time: it is raw memory, or all its bytes have a
value, exactly the member that the discriminator names is alive, and the bytes of that member are zero or its
own (`Sound`). That the bytes of the discriminator and of the union are apart, and every member is inside the union, is `Room`, which
follows from the layout (`RoomHolds`); without it a member's bytes could overwrite the
discriminator. `ReferenceInv` is the counterpart for Java: once the object was given a value the discriminator names the class of it; in a new
object it is the first member, and the reference is null or, only if that member is no scalar, its default.

`ConstantExpressionProofs.tla`: `ConversionIsDocumented` and `PromotionIsDocumented`, by cases on the
kinds, for all widths that meet `WidthAssumption`. The conversion has a fourth rule in the documentation, the
unsigned counterpart of a signed kind, which the code guards by a `CHECK(false)`; the theorem is why it is
never reached.

`AcyclicVerdictHolds` is about `checkAcyclic` on programs of any size. The property is not inductive: in the
middle of the walk the visited expressions may well hold a circle. `AcyclicInv` divides them. Those on the
stack are the activations, a path of calls (`Path`, `Distinct`, `StackIsFrames`), each with its earlier
dependencies done (`Passed`); those that are done depend only on what is done (`Settled`) and hold no
circle (`NoCircle`). An expression that is left has all dependencies done and so closes no circle
(`NoNewCircle`); an expression that is met again on the stack is where the path from it returns. The other
passes matter only in that they keep the stack empty.

What the passes hold on to is `GraphInv`, proved together with `AcyclicInv` (`GraphInvHolds`), because
a pass may only begin with the empty stack that `checkAcyclic` leaves. It says that operands are of the same type and
there (`ExprsInv`), that a reference leads to a value of this file or an earlier one, and that a value has its
expression as soon as its file has been filled in (`FilledInv`); so the next call of any walk is for an expression
that exists (`CalledIsNear`). It needs that a chain of super types stays within the file and those before it,
and ends (`ChainStays`). `typeChain` is therefore written as the loop of the code, a function of the number of
steps; `SomeIteration` and `FlattenFacts` show by `SetInduction` what such a loop and the
concatenation of lists are. That a chain ends is part of `ProgramsAssumption`, which says what the parser and
`topologicalReorder`, which runs before, leave; TLC evaluates it on every program of the run.

`EvaluatedFirstHolds` goes across all passes of all files. That a dependency is evaluated is clear only
by what four passes did before, each of which visits the expressions in its own order and passes over
those an earlier file completed. `OrderInv` carries it in two parts. `ReachInv` is about one walk: what is on
the activations is a path from the expression of the current value; what is left leads only to what was
visited or completed (`LeftIsOver`), and so do the earlier dependencies of an activation (`PassedIsOver`).
When a walk ends, all that the file leads to is therefore over. `ReadyInv` is what one pass hands to the
next: a set that contains the expressions of the file and is closed under dependencies (`Closed`). `lookup`
leaves one that is looked up throughout, `checkAcyclic` cuts it to what has no circle, `evaluate` leaves
what is evaluated, and completion marks only that. The circle matters at the innermost
activation of `evaluate`: a dependency that is visited but not left would be on the path itself, which
would close a circle in that set (`PathCircle`, `DependenciesAreEvaluated`).

`BackwardNamesMeanOwnHolds` is about the scope of a lookup, which is the type whose expressions the pass is at,
while the walk follows references into expressions of other types. Why it never meets a name
of another type that is not looked up yet takes four facts of `NamesInv` together: an earlier file is completed (`CompletedInv`),
the types of a file come in the order of their numbers (`ByNumber`), a type before the current one has been
visited (`RootsAreOver` of `OrderInv`), and a reference leads to a type no later than the one it is written in
(`RefsAreBackward`). The last holds by `IsBackward`, and for values that are filled in because the value before is of the
same enum or one above. So every activation of `lookup` is for an expression of the scope (`FramesAreOfScope`), and
the name that is looked up is one of its own (`CalledIsOfScope`). Without the condition on super types the value before the
first one of an enum could be in a later type, and the argument, like the property, breaks there.

`TypeOKHolds` and `ValuesAreRightHolds` are about values, for all widths and programs. What they say of an
expression speaks of its operands, which change while the passes run, so neither is inductive. `ValueInv` is
(`ValueInvHolds`). It says three things.

- `ShapesInv`: every expression has a shape, with its operators and operands, that the grammar or `autofill` makes.
- `ComputedInv`: an evaluated expression has the kind and value that `evaluate` would compute of its operands now
  (`ResultKind`, `Result`), and its value is as its own kind leaves it in a `uint64_t`. It stays true because
  an expression is evaluated after its dependencies (`EvaluatedInv`, a part of `OrderInv`), and what is evaluated
  does not change any more, nor does what an expression refers to (`KeepsValues`, `ResultStays`).
- `FilledByRule`: the expression of a value that is filled in is still zero, or the value before and a one of the
  storage type.

The rest is arithmetic. A cast is the one number of its kind that is congruent modulo the
power of two of the width (`CastFacts`, `CastIsUnique`); so a cast after a cast to a kind that is no narrower is
as if that one had not been (`CastOfWider`), which is why the detour through `uint64_t` loses nothing
(`CastOfStored`, `StoredOfMeaning`). `ResultFacts` says that the result of an operator is in the range of
its kind, and what is copied or counted is stored as if it were. The exact values (`BinaryIsDocumented`) and the
successor (`FilledIsSuccessor`) follow by casts of congruent numbers. The powers themselves are known by
doubling: `SomeDoubles` and `DoublesAgree` show by `SetInduction` that there is one function with the equations of
`PowerOfTwo` (`PowerSteps`), from which `PowerOfSum` and `PowerGrows` follow.

`DriverProofs.tla`: all four properties, `OutputsAreCompleteHolds`, `FailureLeavesOnePartialHolds`,
`DepFileListsSourcesHolds` and `JavaIsJudgedHolds`, for all source trees and command lines that meet `InputAssumption`: a tree is
finite, each of its files has the name of a single top-level type, or of `types`, and an argument is a full name. None of them is
inductive, because they speak of the end of a run and the end knows nothing of what led to it. They are proved
in layers, each from those before.

- What parsing reads. `ClosureFacts` says that `Closure` is the least set that contains where it starts and is closed under the edges:
  the steps add nothing any more once there were as many as there are files, because each that adds something adds
  a file. From it follow that `ReachFrom` is the least set closed under `Direct`, that what is cached stays `Sound`, that is closed
  and good, whatever is parsed with success (`ParsingKeepsSound`), and, for Java, that a package is found compatible only
  when all files of `WithImports` were judged (`JudgeFacts`: what is seen and has no turn left is
  compatible, and its imports are seen).
- What is generated. `FormatFacts` goes through the table `kFormats`: what a generator is for fits the granularity and
  the validation of its option. With it the targets of an argument that is accepted (`Fits`) are what `Asked` tells from the sources
  (`TargetsFacts`, `JobsAreAsked`), and what a generator parses for a target are the sources of it (`TargetFacts`).
- `RunInv` (`RunInvHolds`) is the run itself: the options (`InputsInv`), that the present argument fits and that every earlier
  one was judged (`ArgumentInv`), that the cache is sound and every cached file is among those read (`CacheInv`), and where in
  its targets the loop is (`TargetsInv`).
- `DiskInv` adds that the sources of a complete file are cached, hence good for ever after, and that an incomplete file is
  the one at hand. `FinishedInv` adds that what is on disk is what was asked for in the arguments before, with what is behind in
  the present one and the one at hand (`Finished`, `Current`). It is about jobs, not paths, since two
  jobs may have one path. `DepInv` adds the dependency file: for which of the arguments so far it is, and that it lists the sources
  of all up to that one. That the first of the outputs is of that argument is about the concatenation of lists (`OutputsFacts`,
  `FlattenFacts`).

That Java is judged is the one place where the cache must be trusted over several arguments: a package may have been
cached by an earlier argument, and is still judged file by file, because the loop asks the AST and not
whether it was parsed.

Only model-checked: `TypesAreDefinedFirst`, and all properties of `Marshalling` and `Interfaces`.
`TypesAreDefinedFirst` and the walks of `Marshalling` are about recursive data: what they say needs induction over it, which
the library states with operators as parameters and the provers cannot instantiate, and
`SetInduction` serves only where what is to be shown for a number can be written as a set that does not
itself refer to the recursion of an operator. `Marshalling` uses `RECURSIVE` operators; `Interfaces` does not, and its
properties, which are about the statements and methods of a few files, are what is left to prove. Out of the prover's
reach: `Termination`, `CallsAreServed`, `AcceptedIsRun`, `DeathIsReported` (liveness under fairness and `ENABLED`).

## 6. What the checks found

Two statements of comments that the code does not keep have a run of their own, which finds the
violation, and an entry under `findings` with the lines.

- `TargetsAreIntact` (`intact_targets`): when enforcement fails the AST is deleted, but ASTs that
  were parsed meanwhile and import it stay cached, and a later target is answered with one.
- `OwnTypesAreAvailable` (`own_types`): `import @1.1::A;` of the own package hides the other types of the own
  `types.hal`, which are available without the statement (`AST.cpp:453`, against the comment at
  `Coordinator.cpp:267`).

Nine more are stated in the property modules and checked by no configuration that is kept; each is violated when it is
added as an invariant to the configuration of its module.

- `InternalConsistency` (`CoordinatorProperties`): `CHECK(ret == nullptr)` in `Coordinator::parse` reads an
  uninitialized pointer after an error of `types.hal` or of the package's path.
- `WholePackageChecked` (`CoordinatorProperties`): a file that was first parsed as an import is never
  enforced, although it is given as a target later.
- `EnforcedIsLive` (`CoordinatorProperties`): a package is recorded in `mPackagesEnforced` so "that it won't need to
  be enforced again" (`Coordinator.cpp:657`), and still one of its files may be freed later. Two packages that depend
  on each other's hashes are enforced within one another, the first one a second time inside: there it passes and is recorded,
  because the file of the other package is alive; then the other fails, and with it the first time,
  which frees the target.
- `DefinedFirst` (`TypeOrderProperties`): a scope is sorted by the indices of its own types, so a
  reference into a type that is nested in a sibling puts no order between the
  siblings, and the sort may move a struct to before the one around the type it
  contains. The rule on forward references still judges by the places in the source. For
  `struct W { X x; }; struct Y { struct Z {}; }; struct X { Y.Z z; };` X is emitted before Y.
- `NamesMeanOwn` (`ConstantExpressionProperties`): the lookup of constants follows a reference into the expression of another enum and
  looks its names up in the enum where the walk started. With `enum A : int32_t { Z = 1, X = B:Y };` before
  `enum B : int32_t { Z = 5, Y = Z };`, `B.Y` is 1.
- `LogicalIsBool` (`ConstantExpressionProperties`): `!` has the kind of its operand (`ConstantExpression.cpp:258`), though the rules at
  the end of that file list it among the logical operators, of which they say "return the result as type bool"
  (811-815), and say only of `~`, `+` and `-` that they "don't change the type of the argument" (775-776). `!1u - 1 < 0` is false by the
  code and true by the rules.
- `CycleEndIsReference` (`ConstantExpressionProperties`): the `CHECK` that a cycle of constants ends at a reference fails for
  `enum E : int32_t { A = A + 1 };`, where the walk starts at an operator.
- `ZeroedWhenSet` (`SafeUnionProperties`): "union itself is zero'd when set" (`CompoundType.cpp:1157`) is so of
  the setters, not of the copy and move constructors, which construct the active member over the
  default of the first one.
- `FreshIsReadable` (`SafeUnionProperties`): the constructor of a Java safe union sets the discriminator to the first member, and
  `hidl_o` only if the type of that member has a default to emit (`CompoundType.cpp:1359-1361`). A scalar has none, so `hidl_o` stays null
  (`CompoundType.cpp:1409`), and the getter of the active member casts and unboxes null (`CompoundType.cpp:1464`).

What else was met while modelling; the models behave like the code in these:

- `lookupAutofilledType` matches names by their ends, and its `CHECK` fails for a name with only the last
  components of the own package's name and its version (`"crashed"`, `AST.cpp:585`).
- `resolveInheritance` follows a super type that was not found before `validate` reports it
  (`NullSuperType`, `Interface.cpp:649`).
- Both operands of `&&` and `||` and all of `?:` are evaluated, so a division by zero ends the process though C++ would not
  evaluate it (`Trap`, `ConstantExpression.cpp:116`).
- `u.b(u.a())` on a safe union destroys the active member before it reads it. In Java the discriminator is set
  before the value is read, so an object is inconsistent after an exception.
- The file of the output is opened before the source is parsed, so a failure leaves one that is empty and new
  (`main.cpp:102`).
- The main of an adapter is generated from the names of the files of a package alone, and is complete though they are bad (`main.cpp:496`).
- The dependency file names one output only, of the last argument that has any.
- Nothing asks whether a single file is fit for Java; the `CHECK`s of the generator abort then. A full name with a
  per-type option generates the whole package as well (`main.cpp:741`).
- Two outputs may have one path: `IHwFoo.h` of `IFoo` and `IHwFoo`, and files of one name under an
  option that makes no directories for packages.

## 7. What is not modelled

- The text of `.hal` files, names and lines in messages, annotations (but the ones a
  method may carry) and comments: carried from input to output, nothing is decided by them.
- The lexer and the grammar, beyond import statements, the automatic import of `IBase`, the interface declaration with its methods, and
  the count of errors: the productions build a tree.
- `Formatter`, `StringHelper`: how the emitted text is laid out. No other component reads it back.
- What the generators write that is fixed text or one loop without state: most of `generateJava`, VTS, adapter and
  impl sources, instrumentation hooks, `dump`, `toString`, the spelling of types.
- SHA-256 and the syntax of a line in current.txt: a hash is known, unknown or different.
- Directories and paths beyond which files exist and where an output goes; `DT_UNKNOWN`; a root that is empty.
- Unique names of fields, arguments and enum values (`validateUniqueNames` of these), bitfields,
  `addUnreferencedTypes`, the hierarchy queries of generators.
- `c2hal`, `docs` and `build`: separate programs that share no state with hidl-gen.
- In `Driver`, packages have no earlier minor version and no hashes on record, and the list of files read leaves out current.txt
  and the marker of test packages: both are the subject of `Coordinator` or of no consequence to an output.
