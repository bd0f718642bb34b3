---------------------------- MODULE Coordinator ----------------------------
(***************************************************************************)
(* The front end of hidl-gen: which .hal files are parsed, in which order, *)
(* what the cache answers, and when the rules on a package (minor version  *)
(* uprevs and frozen hashes) are enforced.  Coordinator.cpp is a family of *)
(* mutually recursive functions: parsing a file parses its imports,        *)
(* enforcing a package parses the other files of that package and of the   *)
(* earlier versions, and each of those parses may enforce again.  All of   *)
(* them read and write the same two caches, mCache and mPackagesEnforced.  *)
(* The recursion is modelled by an explicit call stack: a frame is an      *)
(* activation of one of these functions, and an action is the code one     *)
(* activation runs between two calls.                                      *)
(***************************************************************************)
EXTENDS CoordinatorState

-----------------------------------------------------------------------------
(* Faults the Coordinator does not have: each operator is an action below  *)
(* with one plausible mistake in it.  None is part of the specification;   *)
(* put in the place of the action its name starts with, each makes TLC     *)
(* refute one property.                                                    *)

\* the null entry is not inserted before the imports are parsed
FindAbsentNoSentinel ==
    /\ At("find")
    /\ cache[Top.file] = "absent"
    /\ IF Top.file.name = Types
       THEN Goto([Top EXCEPT !.pc = "open"])
       ELSE Call([Top EXCEPT !.pc = "types"], Parse(TypesOf(Top.file.pkg), "NONE"))
    /\ UNCHANGED <<world, files, rules>>

\* the null entry is not told from an AST
FindCachedAnything ==
    /\ At("find")
    /\ cache[Top.file] # "absent"
    /\ Return("ok") /\ imported' = Inserted(Top.file, Top.into)
    /\ UNCHANGED <<world, cache, rejected, readFiles, rules>>

\* the entry of a file in error is dropped, to try the file once more
FindCachedForgets ==
    /\ At("find")
    /\ cache[Top.file] # "absent"
    /\ IF cache[Top.file] = "ast"
       THEN /\ Return("ok") /\ imported' = Inserted(Top.file, Top.into)
            /\ UNCHANGED cache
       ELSE /\ Return("error") /\ UNCHANGED imported
            /\ cache' = [cache EXCEPT ![Top.file] = "absent"]
    /\ UNCHANGED <<world, rejected, readFiles, rules>>

\* the walk down the minor versions stays where it is
LastParsedStays ==
    /\ Resumed("last")
    /\ LET p == Top.file.pkg
       IN  \/ /\ ret # "ok" /\ Top.j > 0
              /\ Call(Top, Parse(LastOf(p, Top.j, Top.k), "FULL"))
           \/ /\ ret # "ok" /\ Top.j = 0
              /\ NextInterface(FALSE)
           \/ /\ ret = "ok" /\ SuperOf(File(p, Top.k)) # LastOf(p, Top.j, Top.k)
              /\ Return("error")
           \/ /\ ret = "ok" /\ SuperOf(File(p, Top.k)) = LastOf(p, Top.j, Top.k)
              /\ NextInterface(Top.j = p.minor - 1)
    /\ UNCHANGED <<world, files, rules>>

\* any super type will do
LastParsedAnySuper ==
    /\ Resumed("last")
    /\ LET p == Top.file.pkg
       IN  \/ /\ ret # "ok" /\ Top.j > 0
              /\ Call([Top EXCEPT !.j = @ - 1], Parse(LastOf(p, Top.j - 1, Top.k), "FULL"))
           \/ /\ ret = "ok" \/ Top.j = 0
              /\ NextInterface(ret = "ok" /\ Top.j = p.minor - 1)
    /\ UNCHANGED <<world, files, rules>>

\* the AST is freed, and the failure not returned
EnforcedAnswersOk ==
    /\ Resumed("enforcing")
    /\ Return("ok")
    /\ IF ret = "ok"
       THEN UNCHANGED <<cache, imported, rejected>>
       ELSE /\ cache' = [cache EXCEPT ![Top.file] = "null"]
            /\ imported' = [imported EXCEPT ![Top.file] = {}]
            /\ rejected' = rejected \cup {Top.file}
    /\ UNCHANGED <<world, readFiles, rules>>

-----------------------------------------------------------------------------
Init ==
    /\ tree \in DOMAIN Repos
    /\ queue \in Requests
    /\ turn = 0
    /\ status = "running"
    /\ stack = <<>>
    /\ ret = "none"
    /\ cache = [f \in Files |-> "absent"]
    /\ imported = [f \in Files |-> {}]
    /\ enforced = {}
    /\ hashFiles = {}
    /\ cleared = {}
    /\ readFiles = {}
    /\ rejected = {}

-----------------------------------------------------------------------------
(* main: one target after the other, exit(1) at the first that fails.      *)

Request ==
    /\ Idle /\ ~Answered /\ turn < Len(queue)
    /\ LET r == queue[turn + 1]
       IN  IF HasSources(r.file.pkg)
           THEN /\ stack' = <<Parse(r.file, r.enf)>>
                /\ turn' = turn + 1
                /\ UNCHANGED status
           ELSE status' = "failed" /\ UNCHANGED <<stack, turn>>
    /\ UNCHANGED <<tree, queue, ret, files, rules>>

Generated ==
    /\ Idle /\ ret = "ok"
    /\ ret' = "none"
    /\ UNCHANGED <<world, stack, files, rules>>

Fail ==
    /\ Idle /\ Answered /\ ret # "ok"
    /\ status' = "failed"
    /\ UNCHANGED <<tree, queue, turn, stack, ret, files, rules>>

Finish ==
    /\ Idle /\ ~Answered /\ turn = Len(queue)
    /\ status' = "done"
    /\ UNCHANGED <<tree, queue, turn, stack, ret, files, rules>>

(***************************************************************************)
(* Coordinator::parse checks that an error leaves its local "ret" null,    *)
(* but parseOptional does not assign it on every error ("garbage").  The   *)
(* variable is uninitialized then: either it happens to be null and the    *)
(* caller sees an error, or the CHECK aborts the process.                  *)
(***************************************************************************)
CallsParse ==
    IF stack = <<>> THEN TRUE ELSE
    IF Top.pc = "importing" THEN Statement(Top.file, Top.k).top = WholePackage
    ELSE Top.pc \in {"importTypes", "current", "last", "checked", "depsParsed"}

Abort ==
    /\ status = "running" /\ ret = "garbage" /\ CallsParse
    /\ status' = "aborted"
    /\ UNCHANGED <<tree, queue, turn, stack, ret, files, rules>>

-----------------------------------------------------------------------------
(* parseOptional, parseFile and addImport.                                 *)

FindCached ==
    /\ At("find")
    /\ cache[Top.file] # "absent"
    /\ IF cache[Top.file] = "ast"
       THEN Return("ok") /\ imported' = Inserted(Top.file, Top.into)
       ELSE Return("error") /\ UNCHANGED imported
    /\ UNCHANGED <<world, cache, rejected, readFiles, rules>>

\* The null entry makes a circular import visible.  types.hal comes first.
FindAbsent ==
    /\ At("find")
    /\ cache[Top.file] = "absent"
    /\ cache' = [cache EXCEPT ![Top.file] = "null"]
    /\ IF Top.file.name = Types
       THEN Goto([Top EXCEPT !.pc = "open"])
       ELSE Call([Top EXCEPT !.pc = "types"],
                 Parse(TypesOf(Top.file.pkg), "NONE"))
    /\ UNCHANGED <<world, imported, rejected, readFiles, rules>>

TypesParsed ==
    /\ Resumed("types")
    /\ IF ret \in {"ok", "missing"}
       THEN /\ Goto([Top EXCEPT !.pc = "open"])
            /\ imported' = IF ret = "ok" THEN Inserted(TypesOf(Top.file.pkg), Top.file)
                                         ELSE imported
       ELSE Return("garbage") /\ UNCHANGED imported
    /\ UNCHANGED <<world, cache, rejected, readFiles, rules>>

\* the entry of a missing file is erased, so that it is not taken for an error
Open ==
    /\ At("open")
    /\ IF ~Rooted(Top.file.pkg)
       THEN Return("garbage") /\ UNCHANGED <<cache, imported, readFiles>>
       ELSE IF ~Exists(Top.file)
       THEN /\ Return("missing")
            /\ cache' = [cache EXCEPT ![Top.file] = "absent"]
            /\ imported' = [imported EXCEPT ![Top.file] = {}]
            /\ UNCHANGED readFiles
       ELSE /\ Goto([Top EXCEPT !.pc = "import"])
            /\ readFiles' = readFiles \cup {Top.file}
            /\ UNCHANGED <<cache, imported>>
    /\ UNCHANGED <<world, rejected, rules>>

ImportName ==
    /\ At("import") /\ Top.k \in Statements(Top.file)
    /\ LET s == Statement(Top.file, Top.k)
       IN  /\ s.top # WholePackage
           /\ Call([Top EXCEPT !.pc = "importing"],
                   ParseInto(File(s.pkg, s.top), Top.file))
    /\ UNCHANGED <<world, files, rules>>

ImportPackage ==
    /\ At("import") /\ Top.k \in Statements(Top.file)
    /\ LET s == Statement(Top.file, Top.k)
       IN  /\ s.top = WholePackage
           /\ \/ ~HasSources(s.pkg) /\ BadImport
              \/ HasSources(s.pkg) /\ Exhausted(s.pkg, Top.j) /\ GoodImport
              \/ /\ HasSources(s.pkg)
                 /\ \E n \in Names :
                       /\ NextName(s.pkg, Top.j, n)
                       /\ Call([Top EXCEPT !.pc = "importing", !.j = n],
                               ParseInto(File(s.pkg, n), Top.file))
    /\ UNCHANGED <<world, files, rules>>

Imported ==
    /\ Resumed("importing")
    /\ LET s == Statement(Top.file, Top.k)
           defines == s.inner = NoInner
                      \/ <<s.top, s.inner>> \in repo.defs[File(s.pkg, s.top)]
       IN  \/ /\ s.top = WholePackage /\ ret = "ok"
              /\ Goto([Top EXCEPT !.pc = "import", !.j = @ + 1])
           \/ /\ s.top = WholePackage /\ ret # "ok"
              /\ BadImport
           \/ /\ s.top # WholePackage /\ ret = "ok" /\ defines
              /\ GoodImport
           \/ /\ s.top # WholePackage /\ ret = "ok" /\ ~defines
              /\ BadImport
           \/ /\ s.top # WholePackage /\ ret = "missing"
              /\ Call([Top EXCEPT !.pc = "importTypes"],
                      ParseInto(TypesOf(s.pkg), Top.file))
           \/ /\ s.top # WholePackage /\ ret \notin {"ok", "missing"}
              /\ BadImport
    /\ UNCHANGED <<world, files, rules>>

ImportedTypes ==
    /\ Resumed("importTypes")
    /\ LET s == Statement(Top.file, Top.k)
       IN  IF ret = "ok" /\ <<s.top, s.inner>> \in repo.defs[TypesOf(s.pkg)]
           THEN GoodImport
           ELSE BadImport
    /\ UNCHANGED <<world, files, rules>>

\* parseFile, postParse or the check of the file's name failed
Reject ==
    /\ At("import") /\ Top.k \notin Statements(Top.file)
    /\ Top.flag \/ repo.text[Top.file] # "good"
    /\ Return("error")
    /\ imported' = [imported EXCEPT ![Top.file] = {}]
    /\ UNCHANGED <<world, cache, rejected, readFiles, rules>>

\* the AST enters the cache before its package is enforced
Accept ==
    /\ At("import") /\ Top.k \notin Statements(Top.file)
    /\ ~Top.flag /\ repo.text[Top.file] = "good"
    /\ cache' = [cache EXCEPT ![Top.file] = "ast"]
    /\ imported' = Inserted(Top.file, Top.into)
    /\ Call([Top EXCEPT !.pc = "enforcing"], Rule("enforce", Top.file, Top.enf))
    /\ UNCHANGED <<world, rejected, readFiles, rules>>

Enforced ==
    /\ Resumed("enforcing")
    /\ IF ret = "ok"
       THEN Return("ok") /\ UNCHANGED <<cache, imported, rejected>>
       ELSE /\ Return("error")
            /\ cache' = [cache EXCEPT ![Top.file] = "null"]
            /\ imported' = [imported EXCEPT ![Top.file] = {}]
            /\ rejected' = rejected \cup {Top.file}
    /\ UNCHANGED <<world, readFiles, rules>>

-----------------------------------------------------------------------------
(* enforceRestrictionsOnPackage.                                           *)

Enforce ==
    /\ At("enforce")
    /\ IF Top.enf = "NONE" \/ Top.file.pkg \in enforced
       THEN Return("ok")
       ELSE Call([Top EXCEPT !.pc = "uprevs"], Rule("uprev", Top.file, Top.enf))
    /\ UNCHANGED <<world, files, rules>>

UprevsEnforced ==
    /\ Resumed("uprevs")
    /\ \/ /\ ret # "ok"
          /\ Return("error") /\ UNCHANGED enforced
       \/ /\ ret = "ok" /\ Top.enf = "NO_HASH"
          /\ Return("ok")
          /\ enforced' = enforced \cup {Top.file.pkg}
       \/ /\ ret = "ok" /\ Top.enf # "NO_HASH"
          /\ Call([Top EXCEPT !.pc = "hashes"],
                  [Rule("hashNext", Top.file, Top.enf) EXCEPT !.k = 0])
          /\ UNCHANGED enforced
    /\ UNCHANGED <<world, files, hashFiles, cleared>>

HashesEnforced ==
    /\ Resumed("hashes")
    /\ IF ret = "ok"
       THEN Return("ok") /\ enforced' = enforced \cup {Top.file.pkg}
       ELSE Return("error") /\ UNCHANGED enforced
    /\ UNCHANGED <<world, files, hashFiles, cleared>>

-----------------------------------------------------------------------------
(* enforceMinorVersionUprevs: each interface of x.y extends the one of the *)
(* same name in the latest version before it, and one of them x.(y-1)'s.   *)

Uprev ==
    /\ At("uprev")
    /\ LET p == Top.file.pkg
       IN  \/ /\ Earlier(p) = {}
              /\ Return("ok")
           \/ /\ Earlier(p) # {} /\ PrevPackage(p) \notin Earlier(p)
              /\ Return("error")
           \/ /\ PrevPackage(p) \in Earlier(p) /\ IsTypesOnly(PrevPackage(p))
              /\ Return("ok")
           \/ /\ PrevPackage(p) \in Earlier(p) /\ ~IsTypesOnly(PrevPackage(p))
              /\ Goto([Top EXCEPT !.pc = "uprevNext"])
    /\ UNCHANGED <<world, files, rules>>

\* names start at 1 here: types.hal is ignored
UprevNext ==
    /\ At("uprevNext")
    /\ LET p == Top.file.pkg
       IN  \/ \E n \in Names :
                 /\ NextName(p, Top.k, n)
                 /\ Call([Top EXCEPT !.pc = "current", !.k = n],
                         Parse(File(p, n), Top.enf))
           \/ /\ Exhausted(p, Top.k)
              /\ Return(IF Top.flag THEN "ok" ELSE "error")
    /\ UNCHANGED <<world, files, rules>>

CurrentParsed ==
    /\ Resumed("current")
    /\ LET p == Top.file.pkg
       IN  IF ret # "ok" \/ SuperOf(File(p, Top.k)) = NoFile
           THEN NextInterface(FALSE)        \* "WARNING: Skipping", or IBase
           ELSE Call([Top EXCEPT !.pc = "last", !.j = p.minor - 1],
                     Parse(LastOf(p, p.minor - 1, Top.k), "FULL"))
    /\ UNCHANGED <<world, files, rules>>

LastParsed ==
    /\ Resumed("last")
    /\ LET p == Top.file.pkg
           last == LastOf(p, Top.j, Top.k)
       IN  \/ /\ ret # "ok" /\ Top.j > 0
              /\ Call([Top EXCEPT !.j = @ - 1], Parse(LastOf(p, Top.j - 1, Top.k), "FULL"))
           \/ /\ ret # "ok" /\ Top.j = 0
              /\ NextInterface(FALSE)
           \/ /\ ret = "ok" /\ SuperOf(File(p, Top.k)) # last
              /\ Return("error")
           \/ /\ ret = "ok" /\ SuperOf(File(p, Top.k)) = last
              /\ NextInterface(Top.j = p.minor - 1)
    /\ UNCHANGED <<world, files, rules>>

-----------------------------------------------------------------------------
(* enforceHashes, checkHash and getUnfrozenDependencies.                   *)

HashNext ==
    /\ At("hashNext")
    /\ LET p == Top.file.pkg
       IN  \/ \E n \in Names :
                 /\ NextName(p, Top.k, n)
                 /\ Call([Top EXCEPT !.pc = "hashed", !.k = n],
                         Rule("check", File(p, n), "FULL"))
           \/ Exhausted(p, Top.k) /\ Return("ok")
    /\ UNCHANGED <<world, files, rules>>

HashChecked ==
    /\ Resumed("hashed")
    /\ \/ ret \in {"changed", "error"} /\ Return("error")
       \/ ret = "unfrozen" /\ Goto([Top EXCEPT !.pc = "hashNext", !.k = @ + 1])
       \/ /\ ret = "frozen"
          /\ Call([Top EXCEPT !.pc = "depended"],
                  Rule("deps", File(Top.file.pkg, Top.k), "FULL"))
    /\ UNCHANGED <<world, files, rules>>

\* getUnfrozenDependencies answers "unfrozen" when its result is not empty
DependenciesChecked ==
    /\ Resumed("depended")
    /\ IF ret = "ok"
       THEN Goto([Top EXCEPT !.pc = "hashNext", !.k = @ + 1])
       ELSE Return("error")
    /\ UNCHANGED <<world, files, rules>>

Check ==
    /\ At("check")
    /\ Call([Top EXCEPT !.pc = "checked"], Parse(Top.file, "FULL"))
    /\ UNCHANGED <<world, files, rules>>

Checked ==
    /\ Resumed("checked")
    /\ LET f == Top.file
           r == Root(f.pkg)
       IN  IF ret # "ok" \/ ~Rooted(f.pkg)
           THEN Return("error") /\ UNCHANGED <<hashFiles, cleared, readFiles>>
           ELSE /\ hashFiles' = hashFiles \cup {r}
                /\ readFiles' = IF repo.current[r] = "valid" THEN readFiles \cup {r}
                                                             ELSE readFiles
                /\ IF repo.current[r] = "malformed" /\ r \notin hashFiles
                   THEN Return("error") /\ UNCHANGED cleared
                   ELSE CASE LookedUp(f) = "absent" ->
                               Return("unfrozen") /\ cleared' = cleared \cup {f}
                          [] LookedUp(f) = "mismatch" ->
                               Return("changed") /\ UNCHANGED cleared
                          [] OTHER ->
                               Return("frozen") /\ UNCHANGED cleared
    /\ UNCHANGED <<world, cache, imported, rejected, enforced>>

Dependencies ==
    /\ At("deps")
    /\ Call([Top EXCEPT !.pc = "depsParsed"], Parse(Top.file, "FULL"))
    /\ UNCHANGED <<world, files, rules>>

DependenciesParsed ==
    /\ Resumed("depsParsed")
    /\ IF ret = "ok"
       THEN Goto([Top EXCEPT !.pc = "depsPick", !.todo = ImportedPackages(Top.file)])
       ELSE Return("error")
    /\ UNCHANGED <<world, files, rules>>

\* the set is sorted by name; names of packages are not modelled, any order is
DependencyPick ==
    /\ At("depsPick")
    /\ \/ Top.todo = {} /\ Return(IF Top.flag THEN "unfrozen" ELSE "ok")
       \/ \E p \in Top.todo :
             IF HasSources(p)
             THEN Goto([Top EXCEPT !.pc = "depsNext", !.at = p, !.j = 0,
                                   !.todo = @ \ {p}])
             ELSE Return("error")
    /\ UNCHANGED <<world, files, rules>>

DependencyNext ==
    /\ At("depsNext")
    /\ \/ \E n \in Names :
             /\ NextName(Top.at, Top.j, n)
             /\ Call([Top EXCEPT !.pc = "depHashed", !.j = n],
                     Rule("check", File(Top.at, n), "FULL"))
       \/ /\ Exhausted(Top.at, Top.j)
          /\ Goto([Top EXCEPT !.pc = "depsPick"])
    /\ UNCHANGED <<world, files, rules>>

DependencyHashed ==
    /\ Resumed("depHashed")
    /\ IF ret \in {"changed", "error"}
       THEN Return("error")
       ELSE Goto([Top EXCEPT !.pc = "depsNext", !.j = @ + 1,
                             !.flag = @ \/ ret = "unfrozen"])
    /\ UNCHANGED <<world, files, rules>>

-----------------------------------------------------------------------------
Driver == Request \/ Generated \/ Fail \/ Finish \/ Abort
ParseStep ==
    \/ FindCached \/ FindAbsent \/ TypesParsed \/ Open
    \/ ImportName \/ ImportPackage \/ Imported \/ ImportedTypes
    \/ Reject \/ Accept \/ Enforced
RuleStep ==
    \/ Enforce \/ UprevsEnforced \/ HashesEnforced
    \/ Uprev \/ UprevNext \/ CurrentParsed \/ LastParsed
    \/ HashNext \/ HashChecked \/ DependenciesChecked \/ Check \/ Checked
    \/ Dependencies \/ DependenciesParsed \/ DependencyPick
    \/ DependencyNext \/ DependencyHashed

\* the process has ended
Terminated == status # "running" /\ UNCHANGED vars

Next == Driver \/ ParseStep \/ RuleStep \/ Terminated

Spec == Init /\ [][Next]_vars

\* the program is sequential: as long as it can take a step, it does
FairSpec == Spec /\ WF_vars(Next)
=============================================================================
