------------------------- MODULE CoordinatorProofs -------------------------
(***************************************************************************)
(* Proofs about the Coordinator, for every source tree and every request.  *)
(* First the types; then the cache as a guard on the recursion: NoReentry, *)
(* NoFalseCycle, NoDanglingWhileBuilding, CurrentStaysAlive and            *)
(* StickyVerdict.  The inductive invariant says, of the call stack, what   *)
(* each activation knows of the cache, what two activations have to do     *)
(* with each other, and what the last answer means to the one it is for.   *)
(* Last what the verdicts are worth: LiveIsValid, NoSpuriousError,         *)
(* RulesHold and FirstTargetIsIntact.  An activation has seen answers that *)
(* it relies on later; an invariant says what each one knows, in terms of  *)
(* sets of files that only grow, or only shrink.                           *)
(***************************************************************************)
EXTENDS CoordinatorProperties, TLAPS

-----------------------------------------------------------------------------
(* Types.  A frame's locals satisfy more than their types where an action  *)
(* builds the name of a file from them.                                    *)

FrameOK(t) ==
    /\ t.pc \in {"uprevNext", "current", "last"} => t.file.pkg.minor > 0
    /\ t.pc \in {"current", "last", "hashed", "depended"} => t.k \in Names
    /\ t.pc = "last" => t.j \in 0..(t.file.pkg.minor - 1)

StackOK == stack \in Seq(Frames) /\ \A i \in 1..Len(stack) : FrameOK(stack[i])

TypeInv == TypeOK /\ StackOK

USE DEF Types

\* The repository the process runs on is one of the source trees assumed.
LEMMA RepoTyped == ASSUME tree \in DOMAIN Repos PROVE IsRepo(repo)
BY ReposAssumption DEF repo

\* Frames as they are pushed have the type of a frame.
LEMMA ActivationTyped ==
    ASSUME NEW pc \in ParsePCs \cup RulePCs, NEW f \in Files,
           NEW e \in Enforcements, NEW g \in Files \cup {NoFile}
    PROVE  Activation(pc, f, e, g) \in Frames
BY DEF Activation, Frames, Files

LEMMA FileTyped ==
    ASSUME NEW p \in Packages, NEW n \in Names
    PROVE  File(p, n) \in Files /\ File(p, n).pkg = p /\ File(p, n).name = n
BY DEF File, Files

LEMMA FileParts == ASSUME NEW f \in Files PROVE f.pkg \in Packages /\ f.name \in Names
BY DEF Files

LEMMA TypesTyped == ASSUME NEW p \in Packages PROVE TypesOf(p) \in Files
BY NamesAssumption, FileTyped DEF TypesOf, Names

\* The versions before x.y are versions of the same package.
LEMMA DownRevTyped ==
    ASSUME NEW p \in Packages, NEW m \in 0..p.minor
    PROVE  DownRev(p, m) \in Packages /\ p.minor \in Nat
BY PackagesAssumption DEF DownRev

LEMMA StatementTyped ==
    ASSUME tree \in DOMAIN Repos, NEW f \in Files, NEW k
    PROVE  Statement(f, k) \in Imports
<1>1. repo.imports[f] \in Seq(Imports)
  BY RepoTyped DEF IsRepo
<1>2. CASE k \in 1..Len(repo.imports[f])
  BY <1>1, <1>2 DEF Statement
<1>3. CASE k \notin 1..Len(repo.imports[f])
  BY <1>3, PackagesAssumption, NamesAssumption DEF Statement, Imports, IBase, Names
<1> QED BY <1>2, <1>3

-----------------------------------------------------------------------------
(* What the three steps of a call stack do to an invariant of its frames.  *)

LEMMA Wider == ASSUME NEW S, NEW T, S \subseteq T, NEW s \in Seq(S) PROVE s \in Seq(T)
OBVIOUS

LEMMA ReplaceLast ==
    ASSUME NEW S, NEW s \in Seq(S), s # <<>>, NEW t,
           NEW r, r = [s EXCEPT ![Len(s)] = t]
    PROVE  /\ Len(r) = Len(s) /\ Len(s) \in Nat \ {0}
           /\ r[Len(s)] = t
           /\ \A i \in 1..(Len(s) - 1) : r[i] = s[i]
           /\ t \in S => r \in Seq(S)
<1>1. s \in Seq(S \cup {t})
  BY Wider
<1> QED BY <1>1

LEMMA Push ==
    ASSUME NEW S, NEW s \in Seq(S), s # <<>>, NEW t, NEW c,
           NEW r, r = Append([s EXCEPT ![Len(s)] = t], c)
    PROVE  /\ Len(r) = Len(s) + 1 /\ Len(s) \in Nat \ {0}
           /\ r[Len(s)] = t /\ r[Len(s) + 1] = c
           /\ \A i \in 1..(Len(s) - 1) : r[i] = s[i]
           /\ t \in S /\ c \in S => r \in Seq(S)
<1> DEFINE T == S \cup {t, c}
           u == [s EXCEPT ![Len(s)] = t]
<1>1. s \in Seq(T)
  BY Wider
<1>2. /\ u \in Seq(T) /\ Len(u) = Len(s) /\ Len(s) \in Nat \ {0}
      /\ u[Len(s)] = t /\ \A i \in 1..(Len(s) - 1) : u[i] = s[i]
  BY <1>1
<1>3. t \in S => u \in Seq(S)
  OBVIOUS
<1> HIDE DEF u
<1>4. r = Append(u, c)
  BY DEF u
<1> QED BY <1>2, <1>3, <1>4

LEMMA Pop ==
    ASSUME NEW S, NEW s \in Seq(S), s # <<>>,
           NEW r, r = [i \in 1..(Len(s) - 1) |-> s[i]]
    PROVE  /\ r \in Seq(S) /\ Len(r) = Len(s) - 1 /\ Len(s) \in Nat \ {0}
           /\ \A i \in 1..(Len(s) - 1) : r[i] = s[i]
OBVIOUS

LEMMA GotoTyped ==
    ASSUME StackOK, stack # <<>>, NEW t \in Frames, FrameOK(t), Goto(t)
    PROVE  StackOK' /\ ret' = "none"
BY ReplaceLast DEF StackOK, Goto

LEMMA CallTyped ==
    ASSUME StackOK, stack # <<>>, NEW t \in Frames, FrameOK(t),
           NEW c \in Frames, FrameOK(c), Call(t, c)
    PROVE  StackOK' /\ ret' = "none"
BY Push DEF StackOK, Call

LEMMA ReturnTyped ==
    ASSUME StackOK, stack # <<>>, NEW v \in Results, Return(v)
    PROVE  StackOK' /\ ret' \in Results
BY Pop DEF StackOK, Return, Below

LEMMA TopTyped ==
    ASSUME TypeInv, stack # <<>>
    PROVE  /\ Top \in Frames /\ FrameOK(Top)
           /\ Top.file \in Files /\ Top.file.pkg \in Packages /\ Top.file.name \in Names
           /\ Top.enf \in Enforcements /\ Top.k \in Nat /\ Top.j \in Nat
           /\ Top.k + 1 \in Nat /\ Top.j + 1 \in Nat /\ Names \subseteq Nat
           /\ Top.todo \subseteq Packages /\ Top.at \in Packages
<1>1. Top \in Frames /\ FrameOK(Top)
  BY DEF TypeInv, StackOK, Top
<1>2. Top.k \in Nat /\ Top.j \in Nat
  BY <1>1 DEF Frames
<1>3. Top.k + 1 \in Nat /\ Top.j + 1 \in Nat /\ Names \subseteq Nat
  BY <1>2, NamesAssumption DEF Names
<1> QED BY <1>1, <1>2, <1>3, FileParts DEF Frames

\* Steps that change the stack and nothing else.
LEMMA OnlyStack ==
    ASSUME TypeInv, StackOK', ret' \in Results, UNCHANGED <<world, files, rules>>
    PROVE  TypeInv'
BY DEF TypeInv, TypeOK, StackOK, world, files, rules

LEMMA GotoOnly ==
    ASSUME TypeInv, stack # <<>>, UNCHANGED <<world, files, rules>>,
           NEW t \in Frames, FrameOK(t), Goto(t)
    PROVE  TypeInv'
BY GotoTyped, OnlyStack DEF TypeInv, Results

LEMMA CallOnly ==
    ASSUME TypeInv, stack # <<>>, UNCHANGED <<world, files, rules>>,
           NEW t \in Frames, FrameOK(t), NEW c \in Frames, FrameOK(c), Call(t, c)
    PROVE  TypeInv'
BY CallTyped, OnlyStack DEF TypeInv, Results

LEMMA ReturnOnly ==
    ASSUME TypeInv, stack # <<>>, UNCHANGED <<world, files, rules>>,
           NEW v \in Results, Return(v)
    PROVE  TypeInv'
BY ReturnTyped, OnlyStack DEF TypeInv

-----------------------------------------------------------------------------
(* One lemma for every action: it keeps the types.                         *)

LEMMA ImportNameTyped == ASSUME TypeInv, ImportName PROVE TypeInv'
<1> DEFINE s == Statement(Top.file, Top.k)
           t == [Top EXCEPT !.pc = "importing"]
           c == ParseInto(File(s.pkg, s.top), Top.file)
<1>1. stack # <<>> /\ Call(t, c) /\ s.top # WholePackage /\ UNCHANGED <<world, files, rules>>
  BY DEF ImportName, At
<1>2. s \in Imports
  BY <1>1, TopTyped, StatementTyped DEF TypeInv, TypeOK
<1>3. File(s.pkg, s.top) \in Files
  BY <1>1, <1>2, FileTyped DEF Imports
<1>4. c \in Frames /\ FrameOK(c)
  BY <1>1, <1>3, TopTyped, ActivationTyped DEF ParseInto, Activation, FrameOK, ParsePCs, Enforcements
<1>5. t \in Frames /\ FrameOK(t)
  BY <1>1, TopTyped DEF Frames, FrameOK, ParsePCs
<1> QED BY <1>1, <1>4, <1>5, CallOnly

LEMMA BadOrGoodTyped ==
    ASSUME TypeInv, stack # <<>>, UNCHANGED <<world, files, rules>>, BadImport \/ GoodImport
    PROVE  TypeInv'
<1>1. [Top EXCEPT !.pc = "import", !.k = @ + 1, !.j = 0] \in Frames
      /\ FrameOK([Top EXCEPT !.pc = "import", !.k = @ + 1, !.j = 0])
  BY TopTyped DEF Frames, FrameOK, ParsePCs
<1>2. [Top EXCEPT !.pc = "import", !.k = @ + 1, !.j = 0, !.flag = TRUE] \in Frames
      /\ FrameOK([Top EXCEPT !.pc = "import", !.k = @ + 1, !.j = 0, !.flag = TRUE])
  BY TopTyped DEF Frames, FrameOK, ParsePCs
<1> QED BY <1>1, <1>2, GotoOnly DEF BadImport, GoodImport

LEMMA ImportPackageTyped == ASSUME TypeInv, ImportPackage PROVE TypeInv'
<1> DEFINE s == Statement(Top.file, Top.k)
<1>1. stack # <<>> /\ UNCHANGED <<world, files, rules>>
  BY DEF ImportPackage, At
<1>2. s \in Imports
  BY <1>1, TopTyped, StatementTyped DEF TypeInv, TypeOK
<1>3. CASE BadImport \/ GoodImport
  BY <1>1, <1>3, BadOrGoodTyped
<1>4. ASSUME NEW n \in Names,
             Call([Top EXCEPT !.pc = "importing", !.j = n],
                  ParseInto(File(s.pkg, n), Top.file))
      PROVE  TypeInv'
  <2> DEFINE t == [Top EXCEPT !.pc = "importing", !.j = n]
             c == ParseInto(File(s.pkg, n), Top.file)
  <2>1. c \in Frames /\ FrameOK(c)
    BY <1>1, <1>2, TopTyped, FileTyped, ActivationTyped
       DEF ParseInto, Activation, FrameOK, ParsePCs, Enforcements, Imports
  <2>2. t \in Frames /\ FrameOK(t)
    BY <1>1, TopTyped DEF Frames, FrameOK, ParsePCs
  <2> QED BY <1>1, <1>4, <2>1, <2>2, CallOnly
<1> QED BY <1>3, <1>4 DEF ImportPackage

LEMMA ImportedTyped == ASSUME TypeInv, Imported PROVE TypeInv'
<1> DEFINE s == Statement(Top.file, Top.k)
<1>1. stack # <<>> /\ UNCHANGED <<world, files, rules>>
  BY DEF Imported, Resumed
<1>2. s \in Imports
  BY <1>1, TopTyped, StatementTyped DEF TypeInv, TypeOK
<1>3. CASE Goto([Top EXCEPT !.pc = "import", !.j = @ + 1])
  <2>1. [Top EXCEPT !.pc = "import", !.j = @ + 1] \in Frames
        /\ FrameOK([Top EXCEPT !.pc = "import", !.j = @ + 1])
    BY <1>1, TopTyped DEF Frames, FrameOK, ParsePCs
  <2> QED BY <1>1, <1>3, <2>1, GotoOnly
<1>4. CASE BadImport \/ GoodImport
  BY <1>1, <1>4, BadOrGoodTyped
<1>5. CASE Call([Top EXCEPT !.pc = "importTypes"], ParseInto(TypesOf(s.pkg), Top.file))
  <2> DEFINE t == [Top EXCEPT !.pc = "importTypes"]
             c == ParseInto(TypesOf(s.pkg), Top.file)
  <2>1. c \in Frames /\ FrameOK(c)
    BY <1>1, <1>2, TopTyped, TypesTyped, ActivationTyped
       DEF ParseInto, Activation, FrameOK, ParsePCs, Enforcements, Imports
  <2>2. t \in Frames /\ FrameOK(t)
    BY <1>1, TopTyped DEF Frames, FrameOK, ParsePCs
  <2> QED BY <1>1, <1>5, <2>1, <2>2, CallOnly
<1> QED BY <1>3, <1>4, <1>5 DEF Imported

LEMMA ImportedTypesTyped == ASSUME TypeInv, ImportedTypes PROVE TypeInv'
BY BadOrGoodTyped DEF ImportedTypes, Resumed

\* Steps of the parser that change the caches as well.
LEMMA FilesStep ==
    ASSUME TypeInv, StackOK', ret' \in Results, UNCHANGED <<world, rules>>,
           cache' \in [Files -> {"absent", "null", "ast"}],
           imported' \in [Files -> SUBSET Files],
           rejected' \subseteq Files, readFiles' \subseteq Files \cup Roots
    PROVE  TypeInv'
BY DEF TypeInv, TypeOK, StackOK, world, rules

LEMMA InsertedTyped ==
    ASSUME TypeOK, NEW f \in Files, NEW g \in Files \cup {NoFile}
    PROVE  Inserted(f, g) \in [Files -> SUBSET Files]
BY DEF Inserted, TypeOK

LEMMA FindCachedTyped == ASSUME TypeInv, FindCached PROVE TypeInv'
<1>1. stack # <<>> /\ UNCHANGED <<world, cache, rejected, readFiles, rules>>
  BY DEF FindCached, At
<1>2. StackOK' /\ ret' \in Results
  BY <1>1, ReturnTyped DEF FindCached, TypeInv, Results
<1>3. imported' \in [Files -> SUBSET Files]
  <2>1. Inserted(Top.file, Top.into) \in [Files -> SUBSET Files]
    BY <1>1, TopTyped, InsertedTyped DEF TypeInv, Frames
  <2> QED BY <2>1 DEF FindCached, TypeInv, TypeOK
<1> QED BY <1>1, <1>2, <1>3, FilesStep DEF TypeInv, TypeOK

LEMMA FindAbsentTyped == ASSUME TypeInv, FindAbsent PROVE TypeInv'
<1> DEFINE t == [Top EXCEPT !.pc = "types"]
           u == [Top EXCEPT !.pc = "open"]
           c == Parse(TypesOf(Top.file.pkg), "NONE")
<1>1. stack # <<>> /\ UNCHANGED <<world, imported, rejected, readFiles, rules>>
  BY DEF FindAbsent, At
<1>2. t \in Frames /\ FrameOK(t) /\ u \in Frames /\ FrameOK(u)
  BY <1>1, TopTyped DEF Frames, FrameOK, ParsePCs
<1>3. c \in Frames /\ FrameOK(c)
  BY <1>1, TopTyped, TypesTyped, ActivationTyped
     DEF Parse, Activation, FrameOK, ParsePCs, Enforcements
<1>4. StackOK' /\ ret' \in Results
  BY <1>1, <1>2, <1>3, GotoTyped, CallTyped DEF FindAbsent, TypeInv, Results
<1>5. cache' \in [Files -> {"absent", "null", "ast"}]
  BY DEF FindAbsent, TypeInv, TypeOK
<1> QED BY <1>1, <1>4, <1>5, FilesStep DEF TypeInv, TypeOK

LEMMA TypesParsedTyped == ASSUME TypeInv, TypesParsed PROVE TypeInv'
<1>1. stack # <<>> /\ UNCHANGED <<world, cache, rejected, readFiles, rules>>
  BY DEF TypesParsed, Resumed
<1>2. [Top EXCEPT !.pc = "open"] \in Frames /\ FrameOK([Top EXCEPT !.pc = "open"])
  BY <1>1, TopTyped DEF Frames, FrameOK, ParsePCs
<1>3. StackOK' /\ ret' \in Results
  BY <1>1, <1>2, GotoTyped, ReturnTyped DEF TypesParsed, TypeInv, Results
<1>4. imported' \in [Files -> SUBSET Files]
  <2>1. Inserted(TypesOf(Top.file.pkg), Top.file) \in [Files -> SUBSET Files]
    BY <1>1, TopTyped, TypesTyped, InsertedTyped DEF TypeInv
  <2> QED BY <2>1 DEF TypesParsed, TypeInv, TypeOK
<1> QED BY <1>1, <1>3, <1>4, FilesStep DEF TypeInv, TypeOK

LEMMA OpenTyped == ASSUME TypeInv, Open PROVE TypeInv'
<1>1. stack # <<>> /\ UNCHANGED <<world, rejected, rules>>
  BY DEF Open, At
<1>2. [Top EXCEPT !.pc = "import"] \in Frames /\ FrameOK([Top EXCEPT !.pc = "import"])
  BY <1>1, TopTyped DEF Frames, FrameOK, ParsePCs
<1>3. StackOK' /\ ret' \in Results
  BY <1>1, <1>2, GotoTyped, ReturnTyped DEF Open, TypeInv, Results
<1>4. /\ cache' \in [Files -> {"absent", "null", "ast"}]
      /\ imported' \in [Files -> SUBSET Files]
      /\ readFiles' \subseteq Files \cup Roots
  BY <1>1, TopTyped DEF Open, TypeInv, TypeOK
<1> QED BY <1>1, <1>3, <1>4, FilesStep DEF TypeInv, TypeOK

LEMMA RejectTyped == ASSUME TypeInv, Reject PROVE TypeInv'
<1>1. stack # <<>> /\ UNCHANGED <<world, cache, rejected, readFiles, rules>>
  BY DEF Reject, At
<1>2. StackOK' /\ ret' \in Results
  BY <1>1, ReturnTyped DEF Reject, TypeInv, Results
<1>3. imported' \in [Files -> SUBSET Files]
  BY DEF Reject, TypeInv, TypeOK
<1> QED BY <1>1, <1>2, <1>3, FilesStep DEF TypeInv, TypeOK

LEMMA AcceptTyped == ASSUME TypeInv, Accept PROVE TypeInv'
<1> DEFINE t == [Top EXCEPT !.pc = "enforcing"]
           c == Rule("enforce", Top.file, Top.enf)
<1>1. stack # <<>> /\ UNCHANGED <<world, rejected, readFiles, rules>> /\ Call(t, c)
  BY DEF Accept, At
<1>2. t \in Frames /\ FrameOK(t)
  BY <1>1, TopTyped DEF Frames, FrameOK, ParsePCs
<1>3. c \in Frames /\ FrameOK(c)
  BY <1>1, TopTyped, ActivationTyped DEF Rule, Activation, FrameOK, RulePCs
<1>4. StackOK' /\ ret' \in Results
  BY <1>1, <1>2, <1>3, CallTyped DEF TypeInv, Results
<1>5. cache' \in [Files -> {"absent", "null", "ast"}]
  BY DEF Accept, TypeInv, TypeOK
<1>6. imported' \in [Files -> SUBSET Files]
  BY <1>1, TopTyped, InsertedTyped DEF Accept, TypeInv, Frames
<1> QED BY <1>1, <1>4, <1>5, <1>6, FilesStep DEF TypeInv, TypeOK

LEMMA EnforcedTyped == ASSUME TypeInv, Enforced PROVE TypeInv'
<1>1. stack # <<>> /\ UNCHANGED <<world, readFiles, rules>>
  BY DEF Enforced, Resumed
<1>2. StackOK' /\ ret' \in Results
  BY <1>1, ReturnTyped DEF Enforced, TypeInv, Results
<1>3. /\ cache' \in [Files -> {"absent", "null", "ast"}]
      /\ imported' \in [Files -> SUBSET Files]
      /\ rejected' \subseteq Files
  BY <1>1, TopTyped DEF Enforced, TypeInv, TypeOK
<1> QED BY <1>1, <1>2, <1>3, FilesStep DEF TypeInv, TypeOK

\* Steps of the enforcement.

LEMMA EnforceTyped == ASSUME TypeInv, Enforce PROVE TypeInv'
<1> DEFINE t == [Top EXCEPT !.pc = "uprevs"]
           c == Rule("uprev", Top.file, Top.enf)
<1>1. stack # <<>> /\ UNCHANGED <<world, files, rules>>
  BY DEF Enforce, At
<1>2. t \in Frames /\ FrameOK(t)
  BY <1>1, TopTyped DEF Frames, FrameOK, RulePCs
<1>3. c \in Frames /\ FrameOK(c)
  BY <1>1, TopTyped, ActivationTyped DEF Rule, Activation, FrameOK, RulePCs
<1> QED BY <1>1, <1>2, <1>3, CallOnly, ReturnOnly DEF Enforce, Results

LEMMA RulesStep ==
    ASSUME TypeInv, StackOK', ret' \in Results, UNCHANGED <<world, cache, imported, rejected>>,
           enforced' \subseteq Packages, hashFiles' \subseteq Roots,
           cleared' \subseteq Files, readFiles' \subseteq Files \cup Roots
    PROVE  TypeInv'
BY DEF TypeInv, TypeOK, StackOK, world

LEMMA UprevsEnforcedTyped == ASSUME TypeInv, UprevsEnforced PROVE TypeInv'
<1> DEFINE t == [Top EXCEPT !.pc = "hashes"]
           c == [Rule("hashNext", Top.file, Top.enf) EXCEPT !.k = 0]
<1>1. stack # <<>> /\ UNCHANGED <<world, files, hashFiles, cleared>>
  BY DEF UprevsEnforced, Resumed
<1>2. t \in Frames /\ FrameOK(t)
  BY <1>1, TopTyped DEF Frames, FrameOK, RulePCs
<1>3. c \in Frames /\ FrameOK(c)
  <2>1. Rule("hashNext", Top.file, Top.enf) \in Frames
    BY <1>1, TopTyped, ActivationTyped DEF Rule, RulePCs
  <2> QED BY <2>1 DEF Frames, Rule, Activation, FrameOK
<1>4. StackOK' /\ ret' \in Results
  BY <1>1, <1>2, <1>3, CallTyped, ReturnTyped DEF UprevsEnforced, TypeInv, Results
<1>5. enforced' \subseteq Packages
  BY <1>1, TopTyped DEF UprevsEnforced, TypeInv, TypeOK
<1> QED BY <1>1, <1>4, <1>5, RulesStep DEF TypeInv, TypeOK, files

LEMMA HashesEnforcedTyped == ASSUME TypeInv, HashesEnforced PROVE TypeInv'
<1>1. stack # <<>> /\ UNCHANGED <<world, files, hashFiles, cleared>>
  BY DEF HashesEnforced, Resumed
<1>2. StackOK' /\ ret' \in Results
  BY <1>1, ReturnTyped DEF HashesEnforced, TypeInv, Results
<1>3. enforced' \subseteq Packages
  BY <1>1, TopTyped DEF HashesEnforced, TypeInv, TypeOK
<1> QED BY <1>1, <1>2, <1>3, RulesStep DEF TypeInv, TypeOK, files

LEMMA UprevTyped == ASSUME TypeInv, Uprev PROVE TypeInv'
<1> DEFINE t == [Top EXCEPT !.pc = "uprevNext"]
           p == Top.file.pkg
<1>1. stack # <<>> /\ UNCHANGED <<world, files, rules>>
  BY DEF Uprev, At
<1>2. CASE PrevPackage(p) \in Earlier(p) /\ Goto(t)
  <2>1. p.minor > 0
    <3>1. /\ PrevPackage(p) \in Packages
          /\ PrevPackage(p).minor < p.minor
      BY <1>1, <1>2, RepoTyped DEF Earlier, IsRepo, TypeInv, TypeOK
    <3>2. PrevPackage(p).minor \in Nat /\ p.minor \in Nat
      BY <1>1, <3>1, TopTyped, PackagesAssumption
    <3> QED BY <3>1, <3>2
  <2>2. t \in Frames /\ FrameOK(t)
    BY <1>1, <2>1, TopTyped DEF Frames, FrameOK, RulePCs
  <2> QED BY <1>1, <1>2, <2>2, GotoOnly
<1>3. CASE Return("ok") \/ Return("error")
  BY <1>1, <1>3, ReturnOnly DEF Results
<1> QED BY <1>2, <1>3 DEF Uprev

LEMMA UprevNextTyped == ASSUME TypeInv, UprevNext PROVE TypeInv'
<1> DEFINE p == Top.file.pkg
<1>1. stack # <<>> /\ Top.pc = "uprevNext" /\ UNCHANGED <<world, files, rules>>
  BY DEF UprevNext, At
<1>2. ASSUME NEW n \in Names,
             Call([Top EXCEPT !.pc = "current", !.k = n], Parse(File(p, n), Top.enf))
      PROVE  TypeInv'
  <2> DEFINE t == [Top EXCEPT !.pc = "current", !.k = n]
             c == Parse(File(p, n), Top.enf)
  <2>1. t \in Frames /\ FrameOK(t)
    BY <1>1, TopTyped DEF Frames, FrameOK, RulePCs
  <2>2. c \in Frames /\ FrameOK(c)
    BY <1>1, TopTyped, FileTyped, ActivationTyped DEF Parse, Activation, FrameOK, ParsePCs
  <2> QED BY <1>1, <1>2, <2>1, <2>2, CallOnly
<1>3. CASE Return(IF Top.flag THEN "ok" ELSE "error")
  BY <1>1, <1>3, ReturnOnly DEF Results
<1> QED BY <1>2, <1>3 DEF UprevNext

\* The loop goes on with the next interface of the package.
LEMMA NextInterfaceTyped ==
    ASSUME TypeInv, stack # <<>>, UNCHANGED <<world, files, rules>>,
           Top.pc \in {"current", "last"}, NEW b \in BOOLEAN, NextInterface(b)
    PROVE  TypeInv'
<1> DEFINE t == [Top EXCEPT !.pc = "uprevNext", !.k = @ + 1, !.flag = @ \/ b]
<1>1. (Top.flag \/ b) \in BOOLEAN
  OBVIOUS
<1>2. t \in Frames
  BY <1>1, TopTyped DEF Frames, RulePCs
<1>3. FrameOK(t)
  BY TopTyped DEF Frames, FrameOK
<1> QED BY <1>2, <1>3, GotoOnly DEF NextInterface

LEMMA LastCallTyped ==
    ASSUME TypeInv, stack # <<>>, UNCHANGED <<world, files, rules>>,
           Top.pc \in {"current", "last"}, NEW m \in 0..(Top.file.pkg.minor - 1),
           Call([Top EXCEPT !.pc = "last", !.j = m], Parse(LastOf(Top.file.pkg, m, Top.k), "FULL"))
    PROVE  TypeInv'
<1> DEFINE t == [Top EXCEPT !.pc = "last", !.j = m]
           c == Parse(LastOf(Top.file.pkg, m, Top.k), "FULL")
<1>1. Top.k \in Names /\ Top.file.pkg.minor > 0 /\ m \in Nat /\ Top.file.pkg.minor \in Nat
  BY TopTyped, PackagesAssumption DEF FrameOK
<1>2. DownRev(Top.file.pkg, m) \in Packages
  BY <1>1, TopTyped, DownRevTyped
<1>3. t \in Frames /\ FrameOK(t)
  BY <1>1, TopTyped DEF Frames, FrameOK, RulePCs
<1>4. c \in Frames /\ FrameOK(c)
  BY <1>1, <1>2, FileTyped, ActivationTyped
     DEF LastOf, Parse, Activation, FrameOK, ParsePCs, Enforcements
<1> QED BY <1>3, <1>4, CallOnly

LEMMA CurrentParsedTyped == ASSUME TypeInv, CurrentParsed PROVE TypeInv'
<1>1. stack # <<>> /\ Top.pc = "current" /\ UNCHANGED <<world, files, rules>>
  BY DEF CurrentParsed, Resumed
<1>2. Top.file.pkg.minor - 1 \in 0..(Top.file.pkg.minor - 1)
  BY <1>1, TopTyped, PackagesAssumption DEF FrameOK
<1> QED BY <1>1, <1>2, NextInterfaceTyped, LastCallTyped DEF CurrentParsed

LEMMA LastParsedTyped == ASSUME TypeInv, LastParsed PROVE TypeInv'
<1> DEFINE p == Top.file.pkg
<1>1. stack # <<>> /\ Top.pc = "last" /\ UNCHANGED <<world, files, rules>>
  BY DEF LastParsed, Resumed
<1>2. CASE Top.j > 0 /\ Call([Top EXCEPT !.j = @ - 1], Parse(LastOf(p, Top.j - 1, Top.k), "FULL"))
  <2>1. Top.j - 1 \in 0..(p.minor - 1)
    BY <1>1, <1>2, TopTyped, PackagesAssumption DEF FrameOK
  <2>2. [Top EXCEPT !.j = @ - 1] = [Top EXCEPT !.pc = "last", !.j = Top.j - 1]
    BY <1>1, TopTyped DEF Frames
  <2> QED BY <1>1, <1>2, <2>1, <2>2, LastCallTyped
<1>3. CASE \E b \in BOOLEAN : NextInterface(b)
  BY <1>1, <1>3, NextInterfaceTyped
<1>4. CASE Return("error")
  BY <1>1, <1>4, ReturnOnly DEF Results
<1> QED BY <1>2, <1>3, <1>4 DEF LastParsed

LEMMA HashNextTyped == ASSUME TypeInv, HashNext PROVE TypeInv'
<1> DEFINE p == Top.file.pkg
<1>1. stack # <<>> /\ UNCHANGED <<world, files, rules>>
  BY DEF HashNext, At
<1>2. ASSUME NEW n \in Names,
             Call([Top EXCEPT !.pc = "hashed", !.k = n], Rule("check", File(p, n), "FULL"))
      PROVE  TypeInv'
  <2> DEFINE t == [Top EXCEPT !.pc = "hashed", !.k = n]
             c == Rule("check", File(p, n), "FULL")
  <2>1. t \in Frames /\ FrameOK(t)
    BY <1>1, TopTyped DEF Frames, FrameOK, RulePCs
  <2>2. c \in Frames /\ FrameOK(c)
    BY <1>1, TopTyped, FileTyped, ActivationTyped
       DEF Rule, Activation, FrameOK, RulePCs, Enforcements
  <2> QED BY <1>1, <1>2, <2>1, <2>2, CallOnly
<1> QED BY <1>1, <1>2, ReturnOnly DEF HashNext, Results

LEMMA HashCheckedTyped == ASSUME TypeInv, HashChecked PROVE TypeInv'
<1> DEFINE t == [Top EXCEPT !.pc = "hashNext", !.k = @ + 1]
           u == [Top EXCEPT !.pc = "depended"]
           c == Rule("deps", File(Top.file.pkg, Top.k), "FULL")
<1>1. stack # <<>> /\ Top.pc = "hashed" /\ UNCHANGED <<world, files, rules>>
  BY DEF HashChecked, Resumed
<1>2. t \in Frames /\ FrameOK(t) /\ u \in Frames /\ FrameOK(u)
  BY <1>1, TopTyped DEF Frames, FrameOK, RulePCs
<1>3. c \in Frames /\ FrameOK(c)
  BY <1>1, TopTyped, FileTyped, ActivationTyped
     DEF Rule, Activation, FrameOK, RulePCs, Enforcements
<1> QED BY <1>1, <1>2, <1>3, GotoOnly, CallOnly, ReturnOnly DEF HashChecked, Results

LEMMA DependenciesCheckedTyped == ASSUME TypeInv, DependenciesChecked PROVE TypeInv'
<1> DEFINE t == [Top EXCEPT !.pc = "hashNext", !.k = @ + 1]
<1>1. stack # <<>> /\ UNCHANGED <<world, files, rules>>
  BY DEF DependenciesChecked, Resumed
<1>2. t \in Frames /\ FrameOK(t)
  BY <1>1, TopTyped DEF Frames, FrameOK, RulePCs
<1> QED BY <1>1, <1>2, GotoOnly, ReturnOnly DEF DependenciesChecked, Results

LEMMA CheckTyped == ASSUME TypeInv, Check PROVE TypeInv'
<1> DEFINE t == [Top EXCEPT !.pc = "checked"]
           c == Parse(Top.file, "FULL")
<1>1. stack # <<>> /\ Call(t, c) /\ UNCHANGED <<world, files, rules>>
  BY DEF Check, At
<1>2. t \in Frames /\ FrameOK(t)
  BY <1>1, TopTyped DEF Frames, FrameOK, RulePCs
<1>3. c \in Frames /\ FrameOK(c)
  BY <1>1, TopTyped, ActivationTyped DEF Parse, Activation, FrameOK, ParsePCs, Enforcements
<1> QED BY <1>1, <1>2, <1>3, CallOnly

LEMMA CheckedTyped == ASSUME TypeInv, Checked PROVE TypeInv'
<1>1. stack # <<>> /\ UNCHANGED <<world, cache, imported, rejected, enforced>>
  BY DEF Checked, Resumed
<1>2. \E v \in Results : Return(v)
  BY DEF Checked, Results
<1>3. StackOK' /\ ret' \in Results
  BY <1>1, <1>2, ReturnTyped DEF TypeInv
<1>4. Rooted(Top.file.pkg) => Root(Top.file.pkg) \in Roots
  <2>1. Top.file.pkg.base \in Bases
    BY <1>1, TopTyped DEF Bases
  <2>2. repo.root \in [Bases -> Roots \cup {NoRoot}]
    BY RepoTyped DEF IsRepo, TypeInv, TypeOK
  <2> QED BY <2>1, <2>2 DEF Rooted, Root
<1>5. hashFiles' \subseteq Roots /\ readFiles' \subseteq Files \cup Roots
  BY <1>4 DEF Checked, TypeInv, TypeOK
<1>6. cleared' \subseteq Files
  BY <1>1, TopTyped DEF Checked, TypeInv, TypeOK
<1> QED BY <1>1, <1>3, <1>5, <1>6, RulesStep DEF TypeInv, TypeOK

LEMMA DependenciesTyped == ASSUME TypeInv, Dependencies PROVE TypeInv'
<1> DEFINE t == [Top EXCEPT !.pc = "depsParsed"]
           c == Parse(Top.file, "FULL")
<1>1. stack # <<>> /\ Call(t, c) /\ UNCHANGED <<world, files, rules>>
  BY DEF Dependencies, At
<1>2. t \in Frames /\ FrameOK(t)
  BY <1>1, TopTyped DEF Frames, FrameOK, RulePCs
<1>3. c \in Frames /\ FrameOK(c)
  BY <1>1, TopTyped, ActivationTyped DEF Parse, Activation, FrameOK, ParsePCs, Enforcements
<1> QED BY <1>1, <1>2, <1>3, CallOnly

LEMMA DependenciesParsedTyped == ASSUME TypeInv, DependenciesParsed PROVE TypeInv'
<1> DEFINE t == [Top EXCEPT !.pc = "depsPick", !.todo = ImportedPackages(Top.file)]
<1>1. stack # <<>> /\ UNCHANGED <<world, files, rules>>
  BY DEF DependenciesParsed, Resumed
<1>2. ImportedPackages(Top.file) \subseteq Packages
  <2>1. \A k \in Statements(Top.file) : Statement(Top.file, k) \in Imports
    BY <1>1, TopTyped, StatementTyped DEF TypeInv, TypeOK
  <2> QED BY <2>1 DEF ImportedPackages, Imports
<1>3. t \in Frames /\ FrameOK(t)
  BY <1>1, <1>2, TopTyped DEF Frames, FrameOK, RulePCs
<1> QED BY <1>1, <1>3, GotoOnly, ReturnOnly DEF DependenciesParsed, Results

LEMMA DependencyPickTyped == ASSUME TypeInv, DependencyPick PROVE TypeInv'
<1>1. stack # <<>> /\ UNCHANGED <<world, files, rules>>
  BY DEF DependencyPick, At
<1>2. ASSUME NEW p \in Top.todo,
             Goto([Top EXCEPT !.pc = "depsNext", !.at = p, !.j = 0, !.todo = @ \ {p}])
      PROVE  TypeInv'
  <2> DEFINE t == [Top EXCEPT !.pc = "depsNext", !.at = p, !.j = 0, !.todo = @ \ {p}]
  <2>1. p \in Packages /\ (Top.todo \ {p}) \in SUBSET Packages
    BY <1>1, TopTyped
  <2>2. t \in Frames /\ FrameOK(t)
    BY <1>1, <2>1, TopTyped DEF Frames, FrameOK, RulePCs
  <2> QED BY <1>1, <1>2, <2>2, GotoOnly
<1>3. CASE Return("unfrozen") \/ Return("ok") \/ Return("error")
  BY <1>1, <1>3, ReturnOnly DEF Results
<1> QED BY <1>2, <1>3 DEF DependencyPick

LEMMA DependencyNextTyped == ASSUME TypeInv, DependencyNext PROVE TypeInv'
<1>1. stack # <<>> /\ UNCHANGED <<world, files, rules>>
  BY DEF DependencyNext, At
<1>2. ASSUME NEW n \in Names,
             Call([Top EXCEPT !.pc = "depHashed", !.j = n], Rule("check", File(Top.at, n), "FULL"))
      PROVE  TypeInv'
  <2> DEFINE t == [Top EXCEPT !.pc = "depHashed", !.j = n]
             c == Rule("check", File(Top.at, n), "FULL")
  <2>1. t \in Frames /\ FrameOK(t)
    BY <1>1, TopTyped DEF Frames, FrameOK, RulePCs
  <2>2. c \in Frames /\ FrameOK(c)
    BY <1>1, TopTyped, FileTyped, ActivationTyped
       DEF Rule, Activation, FrameOK, RulePCs, Enforcements
  <2> QED BY <1>1, <1>2, <2>1, <2>2, CallOnly
<1>3. CASE Goto([Top EXCEPT !.pc = "depsPick"])
  <2>1. [Top EXCEPT !.pc = "depsPick"] \in Frames /\ FrameOK([Top EXCEPT !.pc = "depsPick"])
    BY <1>1, TopTyped DEF Frames, FrameOK, RulePCs
  <2> QED BY <1>1, <1>3, <2>1, GotoOnly
<1> QED BY <1>2, <1>3 DEF DependencyNext

LEMMA DependencyHashedTyped == ASSUME TypeInv, DependencyHashed PROVE TypeInv'
<1> DEFINE b == Top.flag \/ ret = "unfrozen"
           t == [Top EXCEPT !.pc = "depsNext", !.j = @ + 1, !.flag = b]
<1>1. stack # <<>> /\ UNCHANGED <<world, files, rules>>
  BY DEF DependencyHashed, Resumed
<1>2. b \in BOOLEAN
  OBVIOUS
<1>3. t \in Frames /\ FrameOK(t)
  <2> HIDE DEF b
  <2> QED BY <1>1, <1>2, TopTyped DEF Frames, FrameOK, RulePCs
<1>4. CASE Goto(t)
  BY <1>1, <1>3, <1>4, GotoOnly
<1>5. CASE Return("error")
  BY <1>1, <1>5, ReturnOnly DEF Results
<1> QED BY <1>4, <1>5 DEF DependencyHashed

-----------------------------------------------------------------------------
LEMMA RequestTyped == ASSUME TypeInv, Request PROVE TypeInv'
<1> DEFINE r == queue[turn + 1]
           c == Parse(r.file, r.enf)
<1>1. /\ r.file \in Files /\ r.enf \in Enforcements
      /\ turn + 1 \in 0..Len(queue)
  <2>1. queue \in Seq([file : Files, enf : {"FULL", "NO_HASH"}]) /\ turn \in 0..Len(queue)
    BY RequestsAssumption DEF TypeInv, TypeOK
  <2>2. turn + 1 \in 1..Len(queue)
    BY <2>1 DEF Request
  <2>3. r \in [file : Files, enf : {"FULL", "NO_HASH"}]
    <3> DEFINE S == [file : Files, enf : {"FULL", "NO_HASH"}]
    <3>1. queue \in Seq(S)
      BY <2>1
    <3> HIDE DEF S
    <3>2. queue[turn + 1] \in S
      BY <2>2, <3>1
    <3> QED BY <3>2 DEF S
  <2> QED BY <2>2, <2>3 DEF Enforcements
<1>2. c \in Frames /\ FrameOK(c)
  BY <1>1, ActivationTyped DEF Parse, Activation, FrameOK, ParsePCs
<1>3. CASE stack' = <<c>>
  <2>1. StackOK'
    BY <1>2, <1>3 DEF StackOK
  <2> QED BY <1>1, <1>3, <2>1 DEF Request, TypeInv, TypeOK, files, rules, StackOK
<1>4. CASE UNCHANGED stack /\ UNCHANGED turn /\ status' = "failed"
  BY <1>4 DEF Request, TypeInv, TypeOK, StackOK, files, rules
<1> QED BY <1>3, <1>4 DEF Request

LEMMA DriverTyped == ASSUME TypeInv, Driver PROVE TypeInv'
<1>1. CASE Request
  BY <1>1, RequestTyped
<1>2. CASE Generated \/ Fail \/ Finish \/ Abort
  BY <1>2 DEF Generated, Fail, Finish, Abort, TypeInv, TypeOK, StackOK, files, rules, world, Results
<1> QED BY <1>1, <1>2 DEF Driver

LEMMA InitTyped == ASSUME Init PROVE TypeInv
BY RequestsAssumption DEF Init, TypeInv, TypeOK, StackOK, Results

LEMMA NextTyped == ASSUME TypeInv, [Next]_vars PROVE TypeInv'
<1>1. CASE Driver
  BY <1>1, DriverTyped
<1>2. CASE ParseStep
  BY <1>2, FindCachedTyped, FindAbsentTyped, TypesParsedTyped, OpenTyped, ImportNameTyped,
     ImportPackageTyped, ImportedTyped, ImportedTypesTyped, RejectTyped, AcceptTyped,
     EnforcedTyped
     DEF ParseStep
<1>3. CASE RuleStep
  BY <1>3, EnforceTyped, UprevsEnforcedTyped, HashesEnforcedTyped, UprevTyped, UprevNextTyped,
     CurrentParsedTyped, LastParsedTyped, HashNextTyped, HashCheckedTyped,
     DependenciesCheckedTyped, CheckTyped, CheckedTyped, DependenciesTyped,
     DependenciesParsedTyped, DependencyPickTyped, DependencyNextTyped, DependencyHashedTyped
     DEF RuleStep
<1>4. CASE UNCHANGED vars
  BY <1>4 DEF vars, TypeInv, TypeOK, StackOK
<1> QED BY <1>1, <1>2, <1>3, <1>4 DEF Next, Terminated

\* Every variable has its type, and every activation on the call stack the
\* locals its next step builds file names from: no minor version is below
\* zero.  (enforceMinorVersionUprevs walks down from the one before.)
THEOREM TypeCorrect == Spec => []TypeOK
<1>1. TypeInv => TypeOK
  BY DEF TypeInv
<1> QED BY <1>1, InitTyped, NextTyped, PTL DEF Spec

-----------------------------------------------------------------------------
(* The cache as a guard on the recursion.                                  *)


Current(a) == File(a.file.pkg, a.k)

\* the file an activation waits for
Asked(a) == IF a.pc = "types" THEN TypesOf(a.file.pkg) ELSE Current(a)

Enforcers == {"enforce", "uprevs", "hashes"}

\* what one activation knows, of the cache c and of the imported ASTs m
Framed(a, c, m) ==
    /\ a.pc \in BuildPCs => c[a.file] = "null" /\ \A g \in m[a.file] : c[g] = "ast"
    /\ a.pc = "enforcing" => c[a.file] = "ast"
    /\ a.pc = "last" => c[Current(a)] = "ast"
    /\ a.pc \in RulePCs \ {"enforce"} => a.enf # "NONE"

\* a called b
Linked(a, b) ==
    /\ a.pc \in {"types", "current"} => b.pc \in ParsePCs /\ b.file = Asked(a)
    /\ a.pc = "enforcing" => b.pc \in Enforcers /\ b.enf = a.enf
    /\ b.pc \in ParsePCs /\ b.into # NoFile =>
          a.pc \in {"importing", "importTypes"} /\ b.into = a.file

\* b runs inside of a
Nested(a, b) ==
    /\ a.pc \in BuildPCs => b.enf = "NONE"
    /\ a.pc \in OwnPCs /\ b.pc \in OwnPCs => a.file # b.file
    /\ a.pc = "last" /\ b.pc \in OwnPCs => b.file # Current(a)

Outermost(a) == a.pc \in ParsePCs => a.into = NoFile

StackInv ==
    /\ \A i \in Depth : Framed(stack[i], cache, imported)
    /\ \A i, j \in Depth : i < j => Nested(stack[i], stack[j])
    /\ \A i \in 1..(Len(stack) - 1) : Linked(stack[i], stack[i + 1])
    /\ stack # <<>> => Outermost(stack[1])

AnswerInv ==
    stack # <<>> /\ Answered =>
        /\ Top.pc \in {"types", "current"} /\ ret = "ok" => cache[Asked(Top)] = "ast"
        /\ Top.pc = "enforcing" /\ Top.enf = "NONE" => ret = "ok"

AbsentInv == \A f \in Files : cache[f] = "absent" => imported[f] = {}

SafeInv == TypeInv /\ StackInv /\ AnswerInv /\ AbsentInv

-----------------------------------------------------------------------------
(* The invariant across the three steps of the stack.                      *)

\* t may take the place of the top, c and m being the caches then
Fits(t, c, m) ==
    /\ Framed(t, c, m)
    /\ \A i \in 1..(Len(stack) - 1) : Framed(stack[i], c, m) /\ Nested(stack[i], t)
    /\ Len(stack) > 1 => Linked(stack[Len(stack) - 1], t)
    /\ Len(stack) = 1 => Outermost(t)

LEMMA OneOrMore == \A n \in Nat \ {0} : n = 1 \/ n > 1
OBVIOUS

LEMMA TwoOfOneMore ==
    ASSUME NEW n \in Nat \ {0}, NEW i \in 1..(n + 1), NEW j \in 1..(n + 1), i < j
    PROVE  \/ i = n
           \/ i \in 1..(n - 1) /\ j = n + 1
           \/ i \in 1..(n - 1) /\ j = n
           \/ i \in 1..(n - 1) /\ j \in 1..(n - 1)
OBVIOUS

LEMMA GotoFits ==
    ASSUME TypeInv, StackInv, stack # <<>>, NEW t, Goto(t),
           Fits(t, cache', imported')
    PROVE  StackInv'
<1>1. /\ Len(stack') = Len(stack) /\ Len(stack) \in Nat \ {0}
      /\ stack'[Len(stack)] = t
      /\ \A i \in 1..(Len(stack) - 1) : stack'[i] = stack[i]
  BY ReplaceLast DEF Goto, TypeInv, StackOK
<1>2. \A i \in 1..Len(stack') : Framed(stack'[i], cache', imported')
  BY <1>1 DEF Fits
<1>3. \A i, j \in 1..Len(stack') : i < j => Nested(stack'[i], stack'[j])
  BY <1>1 DEF Fits, StackInv, Depth
<1>4. \A i \in 1..(Len(stack') - 1) : Linked(stack'[i], stack'[i + 1])
  BY <1>1 DEF Fits, StackInv
<1>5. Outermost(stack'[1])
  BY <1>1 DEF Fits, StackInv
<1> QED BY <1>2, <1>3, <1>4, <1>5 DEF StackInv, Depth

LEMMA CallFits ==
    ASSUME TypeInv, StackInv, stack # <<>>, NEW t, NEW c, Call(t, c),
           Fits(t, cache', imported'), Framed(c, cache', imported'), Linked(t, c),
           Nested(t, c), \A i \in 1..(Len(stack) - 1) : Nested(stack[i], c)
    PROVE  StackInv'
<1>1. /\ Len(stack') = Len(stack) + 1 /\ Len(stack) \in Nat \ {0}
      /\ stack'[Len(stack)] = t /\ stack'[Len(stack) + 1] = c
      /\ \A i \in 1..(Len(stack) - 1) : stack'[i] = stack[i]
  BY Push DEF Call, TypeInv, StackOK
<1>2. \A i \in 1..Len(stack') : Framed(stack'[i], cache', imported')
  BY <1>1 DEF Fits
<1>3. ASSUME NEW i \in 1..Len(stack'), NEW j \in 1..Len(stack'), i < j
      PROVE  Nested(stack'[i], stack'[j])
  <2>1. CASE i = Len(stack)
    BY <1>1, <1>3, <2>1
  <2>2. CASE i \in 1..(Len(stack) - 1) /\ j = Len(stack) + 1
    BY <1>1, <2>2
  <2>3. CASE i \in 1..(Len(stack) - 1) /\ j = Len(stack)
    BY <1>1, <2>3 DEF Fits
  <2>4. CASE i \in 1..(Len(stack) - 1) /\ j \in 1..(Len(stack) - 1)
    <3>1. i \in Depth /\ j \in Depth
      BY <2>4 DEF Depth
    <3> QED BY <1>1, <1>3, <2>4, <3>1 DEF StackInv
  <2>5. \/ i = Len(stack)
        \/ i \in 1..(Len(stack) - 1) /\ j = Len(stack) + 1
        \/ i \in 1..(Len(stack) - 1) /\ j = Len(stack)
        \/ i \in 1..(Len(stack) - 1) /\ j \in 1..(Len(stack) - 1)
    BY <1>1, <1>3, TwoOfOneMore
  <2> QED BY <2>1, <2>2, <2>3, <2>4, <2>5
<1>4. ASSUME NEW i \in 1..(Len(stack') - 1) PROVE Linked(stack'[i], stack'[i + 1])
  <2>1. CASE i = Len(stack)
    BY <1>1, <2>1
  <2>2. CASE i = Len(stack) - 1
    BY <1>1, <2>2 DEF Fits
  <2>3. CASE i < Len(stack) - 1
    <3>1. i \in 1..(Len(stack) - 1) /\ i + 1 \in 1..(Len(stack) - 1)
      BY <1>1, <2>3
    <3> QED BY <1>1, <3>1 DEF StackInv
  <2>4. i = Len(stack) \/ i = Len(stack) - 1 \/ i < Len(stack) - 1
    BY <1>1
  <2> QED BY <2>1, <2>2, <2>3, <2>4
<1>5. Outermost(stack'[1])
  <2>1. CASE Len(stack) = 1
    BY <1>1, <2>1 DEF Fits
  <2>2. CASE Len(stack) > 1
    <3>1. stack'[1] = stack[1]
      BY <1>1, <2>2
    <3> QED BY <3>1 DEF StackInv
  <2> QED BY <1>1, <2>1, <2>2, OneOrMore
<1> QED BY <1>2, <1>3, <1>4, <1>5 DEF StackInv, Depth

LEMMA ReturnFits ==
    ASSUME TypeInv, StackInv, stack # <<>>, NEW v, Return(v),
           \A i \in 1..(Len(stack) - 1) : Framed(stack[i], cache', imported')
    PROVE  StackInv'
<1>1. /\ stack' \in Seq(Frames) /\ Len(stack') = Len(stack) - 1 /\ Len(stack) \in Nat \ {0}
      /\ \A i \in 1..(Len(stack) - 1) : stack'[i] = stack[i]
  BY Pop DEF Return, Below, TypeInv, StackOK
<1>2. \A i \in 1..Len(stack') : Framed(stack'[i], cache', imported')
  BY <1>1
<1>3. \A i, j \in 1..Len(stack') : i < j => Nested(stack'[i], stack'[j])
  BY <1>1 DEF StackInv, Depth
<1>4. \A i \in 1..(Len(stack') - 1) : Linked(stack'[i], stack'[i + 1])
  BY <1>1 DEF StackInv
<1>5. stack' # <<>> => Outermost(stack'[1])
  BY <1>1 DEF StackInv
<1> QED BY <1>2, <1>3, <1>4, <1>5 DEF StackInv, Depth

\* What StackInv says of the top.
LEMMA TopFits == ASSUME TypeInv, StackInv, stack # <<>> PROVE Fits(Top, cache, imported)
BY DEF TypeInv, StackOK, StackInv, Fits, Top, Depth

\* The caller gets an answer: the one below the top is the top then.
LEMMA Answering ==
    ASSUME TypeInv, StackInv, stack # <<>>, NEW v, Return(v), stack' # <<>>
    PROVE  /\ Len(stack) > 1 /\ Top' = stack[Len(stack) - 1]
           /\ Linked(Top', Top) /\ Nested(Top', Top)
<1>1. /\ Len(stack') = Len(stack) - 1 /\ Len(stack) \in Nat \ {0} /\ stack' \in Seq(Frames)
      /\ \A i \in 1..(Len(stack) - 1) : stack'[i] = stack[i]
  BY Pop DEF Return, Below, TypeInv, StackOK
<1>2. Len(stack) > 1
  BY <1>1
<1>3. Top' = stack[Len(stack) - 1]
  BY <1>1, <1>2 DEF Top
<1> QED BY <1>2, <1>3, TopFits DEF Fits

-----------------------------------------------------------------------------
(* Steps of the enforcement leave the caches alone, and nothing is being   *)
(* built below them.                                                       *)

Kept == StackInv /\ AnswerInv /\ AbsentInv

LEMMA RuleFits ==
    ASSUME TypeInv, StackInv, stack # <<>>, Top.pc \in RulePCs, Top.enf # "NONE",
           NEW t, t.pc \in RulePCs \ {"enforce"}, t.file = Top.file, t.enf = Top.enf,
           Top.pc \in Enforcers => t.pc \in Enforcers,
           t.pc = "last" => cache[Current(t)] = "ast"
    PROVE  Fits(t, cache, imported)
<1>1. Fits(Top, cache, imported)
  BY TopFits
<1>2. Framed(t, cache, imported)
  BY DEF Framed, RulePCs, BuildPCs
<1>3. ASSUME NEW a, Nested(a, Top) PROVE Nested(a, t)
  BY <1>3 DEF Nested, OwnPCs, BuildPCs, RulePCs
<1>4. ASSUME NEW a, Linked(a, Top) PROVE Linked(a, t)
  BY <1>4 DEF Linked, ParsePCs, RulePCs, Enforcers
<1>5. Outermost(t)
  BY DEF Outermost, ParsePCs, RulePCs
<1> QED BY <1>1, <1>2, <1>3, <1>4, <1>5 DEF Fits

LEMMA RuleGoto ==
    ASSUME SafeInv, stack # <<>>, cache' = cache, imported' = imported,
           Top.pc \in RulePCs \ {"enforce"},
           NEW t, t.pc \in RulePCs \ {"enforce", "last"},
           t.file = Top.file, t.enf = Top.enf,
           Top.pc \in Enforcers => t.pc \in Enforcers, Goto(t)
    PROVE  Kept'
<1>1. Top.enf # "NONE"
  BY TopFits DEF SafeInv, Fits, Framed
<1>2. Fits(t, cache, imported)
  BY <1>1, RuleFits DEF SafeInv
<1>3. StackInv'
  BY <1>2, GotoFits DEF SafeInv
<1> QED BY <1>3 DEF Kept, SafeInv, AnswerInv, AbsentInv, Answered, Goto

LEMMA RuleCall ==
    ASSUME SafeInv, stack # <<>>, cache' = cache, imported' = imported,
           Top.pc \in RulePCs, Top.enf # "NONE",
           NEW t, t.pc \in RulePCs \ {"enforce"},
           t.file = Top.file, t.enf = Top.enf,
           Top.pc \in Enforcers => t.pc \in Enforcers,
           t.pc = "last" => cache[Current(t)] = "ast",
           NEW c, c.pc \in {"find", "uprev", "hashNext", "check", "deps"},
           c.enf # "NONE", c.into = NoFile,
           t.pc = "current" => c.pc = "find" /\ c.file = Current(t), Call(t, c)
    PROVE  Kept'
<1>1. Fits(t, cache, imported)
  BY RuleFits DEF SafeInv
<1>2. Framed(c, cache, imported)
  BY DEF Framed, RulePCs, BuildPCs
<1>3. Linked(t, c)
  BY DEF Linked, Asked, RulePCs, ParsePCs
<1>4. Nested(t, c)
  BY DEF Nested, OwnPCs, BuildPCs, RulePCs
<1>5. ASSUME NEW i \in 1..(Len(stack) - 1) PROVE Nested(stack[i], c)
  <2>1. Nested(stack[i], Top)
    BY TopFits DEF SafeInv, Fits
  <2> QED BY <2>1 DEF Nested, OwnPCs, BuildPCs
<1>6. StackInv'
  BY <1>1, <1>2, <1>3, <1>4, <1>5, CallFits DEF SafeInv
<1> QED BY <1>6 DEF Kept, SafeInv, AnswerInv, AbsentInv, Answered, Call

LEMMA RuleReturn ==
    ASSUME SafeInv, stack # <<>>, cache' = cache, imported' = imported,
           Top.pc \in RulePCs, NEW v, Return(v), Top.pc = "enforce" => v = "ok"
    PROVE  Kept'
<1>1. Fits(Top, cache, imported)
  BY TopFits DEF SafeInv
<1>2. StackInv'
  BY <1>1, ReturnFits DEF SafeInv, Fits
<1>3. AnswerInv'
  <2> SUFFICES ASSUME stack' # <<>>
               PROVE  /\ Top'.pc \notin {"types", "current"}
                      /\ Top'.pc = "enforcing" /\ Top'.enf = "NONE" => ret' = "ok"
    BY DEF AnswerInv
  <2>1. Linked(Top', Top)
    BY Answering DEF SafeInv
  <2>2. ret' = v
    BY DEF Return
  <2>3. Top.pc # "enforce" => Top.enf # "NONE"
    BY <1>1 DEF Fits, Framed
  <2> QED BY <2>1, <2>2, <2>3 DEF Linked, ParsePCs, RulePCs, Enforcers
<1> QED BY <1>2, <1>3 DEF Kept, SafeInv, AbsentInv

LEMMA EnforceKeeps == ASSUME SafeInv, Enforce PROVE Kept'
<1>1. stack # <<>> /\ Top.pc = "enforce" /\ cache' = cache /\ imported' = imported
  BY DEF Enforce, At, files
<1>2. CASE Return("ok")
  BY <1>1, <1>2, RuleReturn DEF RulePCs
<1>3. CASE Top.enf # "NONE"
           /\ Call([Top EXCEPT !.pc = "uprevs"], Rule("uprev", Top.file, Top.enf))
  <2> DEFINE t == [Top EXCEPT !.pc = "uprevs"]
             c == Rule("uprev", Top.file, Top.enf)
  <2>1. t.pc = "uprevs" /\ t.file = Top.file /\ t.enf = Top.enf
    BY <1>1, TopTyped DEF SafeInv, Frames
  <2>2. c.pc = "uprev" /\ c.enf = Top.enf /\ c.into = NoFile
    BY DEF Rule, Activation
  <2>5. Call(t, c)
    BY <1>3
  <2> HIDE DEF t, c
  <2> QED BY <1>1, <1>3, <2>1, <2>2, <2>5, RuleCall DEF RulePCs, Enforcers
<1> QED BY <1>2, <1>3 DEF Enforce

\* what the loops over a package have in common
LEMMA RuleStepKeeps ==
    ASSUME SafeInv, stack # <<>>, cache' = cache, imported' = imported,
           Top.pc \in RulePCs \ {"enforce"},
           NEW t, t.pc \in RulePCs \ {"enforce"}, t.file = Top.file, t.enf = Top.enf,
           Top.pc \in Enforcers => t.pc \in Enforcers,
           t.pc = "last" => cache[Current(t)] = "ast",
           NEW c, c.pc \in {"find", "uprev", "hashNext", "check", "deps"},
           c.enf # "NONE", c.into = NoFile,
           t.pc = "current" => c.pc = "find" /\ c.file = Current(t), Call(t, c)
    PROVE  Kept'
<1>1. Top.enf # "NONE"
  BY TopFits DEF SafeInv, Fits, Framed
<1> QED BY <1>1, RuleCall

LEMMA UprevsEnforcedKeeps == ASSUME SafeInv, UprevsEnforced PROVE Kept'
<1>1. stack # <<>> /\ Top.pc = "uprevs" /\ cache' = cache /\ imported' = imported
  BY DEF UprevsEnforced, Resumed, files
<1>2. CASE \E v \in Results : Return(v)
  BY <1>1, <1>2, RuleReturn DEF RulePCs
<1>3. CASE Call([Top EXCEPT !.pc = "hashes"], [Rule("hashNext", Top.file, Top.enf) EXCEPT !.k = 0])
  <2> DEFINE t == [Top EXCEPT !.pc = "hashes"]
             c == [Rule("hashNext", Top.file, Top.enf) EXCEPT !.k = 0]
  <2>1. t.pc = "hashes" /\ t.file = Top.file /\ t.enf = Top.enf
    BY <1>1, TopTyped DEF SafeInv, Frames
  <2>2. c.pc = "hashNext" /\ c.enf = Top.enf /\ c.into = NoFile
    BY DEF Rule, Activation
  <2>3. Top.enf # "NONE"
    BY <1>1, TopFits DEF SafeInv, Fits, Framed, RulePCs
  <2>5. Call(t, c)
    BY <1>3
  <2> HIDE DEF t, c
  <2> QED BY <1>1, <1>3, <2>1, <2>2, <2>3, <2>5, RuleStepKeeps DEF RulePCs, Enforcers
<1> QED BY <1>2, <1>3 DEF UprevsEnforced, Results

LEMMA HashesEnforcedKeeps == ASSUME SafeInv, HashesEnforced PROVE Kept'
<1>1. stack # <<>> /\ Top.pc = "hashes" /\ cache' = cache /\ imported' = imported
  BY DEF HashesEnforced, Resumed, files
<1>2. \E v \in Results : Return(v)
  BY DEF HashesEnforced, Results
<1> QED BY <1>1, <1>2, RuleReturn DEF RulePCs

LEMMA UprevKeeps == ASSUME SafeInv, Uprev PROVE Kept'
<1> DEFINE t == [Top EXCEPT !.pc = "uprevNext"]
<1>1. stack # <<>> /\ Top.pc = "uprev" /\ cache' = cache /\ imported' = imported
  BY DEF Uprev, At, files
<1>2. t.pc = "uprevNext" /\ t.file = Top.file /\ t.enf = Top.enf
  BY <1>1, TopTyped DEF SafeInv, Frames
<1>3. Goto(t) \/ Return("ok") \/ Return("error")
  BY DEF Uprev
<1> HIDE DEF t
<1> QED BY <1>1, <1>2, <1>3, RuleGoto, RuleReturn DEF RulePCs, Enforcers

LEMMA UprevNextKeeps == ASSUME SafeInv, UprevNext PROVE Kept'
<1>1. stack # <<>> /\ Top.pc = "uprevNext" /\ cache' = cache /\ imported' = imported
  BY DEF UprevNext, At, files
<1>2. CASE Return(IF Top.flag THEN "ok" ELSE "error")
  BY <1>1, <1>2, RuleReturn DEF RulePCs
<1>3. ASSUME NEW n \in Names,
             Call([Top EXCEPT !.pc = "current", !.k = n],
                  Parse(File(Top.file.pkg, n), Top.enf))
      PROVE  Kept'
  <2> DEFINE t == [Top EXCEPT !.pc = "current", !.k = n]
             c == Parse(File(Top.file.pkg, n), Top.enf)
  <2>1. t.pc = "current" /\ t.file = Top.file /\ t.enf = Top.enf /\ t.k = n
    BY <1>1, TopTyped DEF SafeInv, Frames
  <2>2. c.pc = "find" /\ c.enf = Top.enf /\ c.into = NoFile /\ c.file = File(Top.file.pkg, n)
    BY DEF Parse, Activation
  <2>3. Top.enf # "NONE"
    BY <1>1, TopFits DEF SafeInv, Fits, Framed, RulePCs
  <2>4. c.file = Current(t)
    BY <2>1, <2>2 DEF Current
  <2>5. Call(t, c)
    BY <1>3
  <2> HIDE DEF t, c
  <2> QED BY <1>1, <1>3, <2>1, <2>2, <2>3, <2>4, <2>5, RuleStepKeeps DEF RulePCs, Enforcers
<1> QED BY <1>2, <1>3 DEF UprevNext

LEMMA NextInterfaceKeeps ==
    ASSUME SafeInv, stack # <<>>, Top.pc \in {"current", "last"},
           cache' = cache, imported' = imported, NEW b \in BOOLEAN, NextInterface(b)
    PROVE  Kept'
<1> DEFINE t == [Top EXCEPT !.pc = "uprevNext", !.k = @ + 1, !.flag = @ \/ b]
<1>1. t.pc = "uprevNext" /\ t.file = Top.file /\ t.enf = Top.enf /\ Goto(t)
  BY TopTyped DEF SafeInv, Frames, NextInterface
<1> HIDE DEF t
<1> QED BY <1>1, RuleGoto DEF RulePCs, Enforcers

LEMMA LastCallKeeps ==
    ASSUME SafeInv, stack # <<>>, Top.pc \in {"current", "last"},
           cache' = cache, imported' = imported, cache[Current(Top)] = "ast",
           NEW m, NEW f,
           Call([Top EXCEPT !.pc = "last", !.j = m], Parse(f, "FULL"))
    PROVE  Kept'
<1> DEFINE t == [Top EXCEPT !.pc = "last", !.j = m]
           c == Parse(f, "FULL")
<1>1. t.pc = "last" /\ t.file = Top.file /\ t.enf = Top.enf /\ t.k = Top.k
  BY TopTyped DEF SafeInv, Frames
<1>2. c.pc = "find" /\ c.enf = "FULL" /\ c.into = NoFile
  BY DEF Parse, Activation
<1>3. cache[Current(t)] = "ast"
  BY <1>1 DEF Current
<1>4. Call(t, c)
  OBVIOUS
<1> HIDE DEF t, c
<1> QED BY <1>4, <1>1, <1>2, <1>3, RuleStepKeeps DEF RulePCs, Enforcers

LEMMA CurrentParsedKeeps == ASSUME SafeInv, CurrentParsed PROVE Kept'
<1>1. stack # <<>> /\ Top.pc = "current" /\ Answered /\ cache' = cache /\ imported' = imported
  BY DEF CurrentParsed, Resumed, files
<1>2. ret = "ok" => cache[Current(Top)] = "ast"
  BY <1>1 DEF SafeInv, AnswerInv, Asked
<1> QED BY <1>1, <1>2, NextInterfaceKeeps, LastCallKeeps DEF CurrentParsed

LEMMA LastParsedKeeps == ASSUME SafeInv, LastParsed PROVE Kept'
<1> DEFINE p == Top.file.pkg
<1>1. stack # <<>> /\ Top.pc = "last" /\ cache' = cache /\ imported' = imported
  BY DEF LastParsed, Resumed, files
<1>2. cache[Current(Top)] = "ast"
  BY <1>1, TopFits DEF SafeInv, Fits, Framed
<1>3. CASE Call([Top EXCEPT !.j = @ - 1], Parse(LastOf(p, Top.j - 1, Top.k), "FULL"))
  <2>1. [Top EXCEPT !.j = @ - 1] = [Top EXCEPT !.pc = "last", !.j = Top.j - 1]
    BY <1>1, TopTyped DEF SafeInv, Frames
  <2> QED BY <1>1, <1>2, <1>3, <2>1, LastCallKeeps
<1>4. CASE \E b \in BOOLEAN : NextInterface(b)
  BY <1>1, <1>4, NextInterfaceKeeps
<1>5. CASE Return("error")
  BY <1>1, <1>5, RuleReturn DEF RulePCs
<1> QED BY <1>3, <1>4, <1>5 DEF LastParsed

\* a loop that goes on with its next name, and one that calls
LEMMA LoopGoto ==
    ASSUME SafeInv, stack # <<>>, cache' = cache, imported' = imported,
           Top.pc \in RulePCs \ (Enforcers \cup {"enforce"}),
           NEW t, t.pc \in RulePCs \ {"enforce", "last"},
           t.file = Top.file, t.enf = Top.enf, Goto(t)
    PROVE  Kept'
BY RuleGoto

LEMMA LoopCall ==
    ASSUME SafeInv, stack # <<>>, cache' = cache, imported' = imported,
           Top.pc \in RulePCs \ (Enforcers \cup {"enforce"}),
           NEW t, t.pc \in RulePCs \ {"enforce", "current", "last"},
           t.file = Top.file, t.enf = Top.enf,
           NEW c, c.pc \in {"find", "check", "deps"}, c.enf = "FULL", c.into = NoFile,
           Call(t, c)
    PROVE  Kept'
BY RuleStepKeeps

LEMMA HashNextKeeps == ASSUME SafeInv, HashNext PROVE Kept'
<1>1. stack # <<>> /\ Top.pc = "hashNext" /\ cache' = cache /\ imported' = imported
  BY DEF HashNext, At, files
<1>2. CASE Return("ok")
  BY <1>1, <1>2, RuleReturn DEF RulePCs
<1>3. ASSUME NEW n \in Names, NEW f,
             Call([Top EXCEPT !.pc = "hashed", !.k = n], Rule("check", f, "FULL"))
      PROVE  Kept'
  <2> DEFINE t == [Top EXCEPT !.pc = "hashed", !.k = n]
             c == Rule("check", f, "FULL")
  <2>1. t.pc = "hashed" /\ t.file = Top.file /\ t.enf = Top.enf /\ Call(t, c)
    BY <1>1, <1>3, TopTyped DEF SafeInv, Frames
  <2>2. c.pc = "check" /\ c.enf = "FULL" /\ c.into = NoFile
    BY DEF Rule, Activation
  <2> HIDE DEF t, c
  <2> QED BY <1>1, <2>1, <2>2, LoopCall DEF RulePCs, Enforcers
<1> QED BY <1>2, <1>3 DEF HashNext

LEMMA HashCheckedKeeps == ASSUME SafeInv, HashChecked PROVE Kept'
<1>1. stack # <<>> /\ Top.pc = "hashed" /\ cache' = cache /\ imported' = imported
  BY DEF HashChecked, Resumed, files
<1>2. CASE Return("error")
  BY <1>1, <1>2, RuleReturn DEF RulePCs
<1>3. CASE Goto([Top EXCEPT !.pc = "hashNext", !.k = @ + 1])
  <2> DEFINE t == [Top EXCEPT !.pc = "hashNext", !.k = @ + 1]
  <2>1. t.pc = "hashNext" /\ t.file = Top.file /\ t.enf = Top.enf /\ Goto(t)
    BY <1>1, <1>3, TopTyped DEF SafeInv, Frames
  <2> HIDE DEF t
  <2> QED BY <1>1, <2>1, LoopGoto DEF RulePCs, Enforcers
<1>4. ASSUME NEW f, Call([Top EXCEPT !.pc = "depended"], Rule("deps", f, "FULL"))
      PROVE  Kept'
  <2> DEFINE t == [Top EXCEPT !.pc = "depended"]
             c == Rule("deps", f, "FULL")
  <2>1. t.pc = "depended" /\ t.file = Top.file /\ t.enf = Top.enf /\ Call(t, c)
    BY <1>1, <1>4, TopTyped DEF SafeInv, Frames
  <2>2. c.pc = "deps" /\ c.enf = "FULL" /\ c.into = NoFile
    BY DEF Rule, Activation
  <2> HIDE DEF t, c
  <2> QED BY <1>1, <2>1, <2>2, LoopCall DEF RulePCs, Enforcers
<1> QED BY <1>2, <1>3, <1>4 DEF HashChecked

LEMMA DependenciesCheckedKeeps == ASSUME SafeInv, DependenciesChecked PROVE Kept'
<1> DEFINE t == [Top EXCEPT !.pc = "hashNext", !.k = @ + 1]
<1>1. stack # <<>> /\ Top.pc = "depended" /\ cache' = cache /\ imported' = imported
  BY DEF DependenciesChecked, Resumed, files
<1>2. t.pc = "hashNext" /\ t.file = Top.file /\ t.enf = Top.enf
  BY <1>1, TopTyped DEF SafeInv, Frames
<1>3. Goto(t) \/ Return("error")
  BY DEF DependenciesChecked
<1> HIDE DEF t
<1> QED BY <1>1, <1>2, <1>3, LoopGoto, RuleReturn DEF RulePCs, Enforcers

\* checkHash and getUnfrozenDependencies parse their file first
LEMMA ParseFirstKeeps ==
    ASSUME SafeInv, stack # <<>>, cache' = cache, imported' = imported,
           Top.pc \in {"check", "deps"}, NEW pc \in {"checked", "depsParsed"},
           Call([Top EXCEPT !.pc = pc], Parse(Top.file, "FULL"))
    PROVE  Kept'
<1> DEFINE t == [Top EXCEPT !.pc = pc]
           c == Parse(Top.file, "FULL")
<1>1. t.pc = pc /\ t.file = Top.file /\ t.enf = Top.enf /\ Call(t, c)
  BY TopTyped DEF SafeInv, Frames
<1>2. c.pc = "find" /\ c.enf = "FULL" /\ c.into = NoFile
  BY DEF Parse, Activation
<1> HIDE DEF t, c
<1> QED BY <1>1, <1>2, LoopCall DEF RulePCs, Enforcers

LEMMA CheckKeeps == ASSUME SafeInv, Check PROVE Kept'
BY ParseFirstKeeps DEF Check, At, files

LEMMA DependenciesKeeps == ASSUME SafeInv, Dependencies PROVE Kept'
BY ParseFirstKeeps DEF Dependencies, At, files

LEMMA CheckedKeeps == ASSUME SafeInv, Checked PROVE Kept'
<1>1. stack # <<>> /\ Top.pc = "checked" /\ cache' = cache /\ imported' = imported
  BY DEF Checked, Resumed
<1>2. \E v \in Results : Return(v)
  BY DEF Checked, Results
<1> QED BY <1>1, <1>2, RuleReturn DEF RulePCs

LEMMA DependenciesParsedKeeps == ASSUME SafeInv, DependenciesParsed PROVE Kept'
<1> DEFINE t == [Top EXCEPT !.pc = "depsPick", !.todo = ImportedPackages(Top.file)]
<1>1. stack # <<>> /\ Top.pc = "depsParsed" /\ cache' = cache /\ imported' = imported
  BY DEF DependenciesParsed, Resumed, files
<1>2. t.pc = "depsPick" /\ t.file = Top.file /\ t.enf = Top.enf
  BY <1>1, TopTyped DEF SafeInv, Frames
<1>3. Goto(t) \/ Return("error")
  BY DEF DependenciesParsed
<1> HIDE DEF t
<1> QED BY <1>1, <1>2, <1>3, LoopGoto, RuleReturn DEF RulePCs, Enforcers

LEMMA DependencyPickKeeps == ASSUME SafeInv, DependencyPick PROVE Kept'
<1>1. stack # <<>> /\ Top.pc = "depsPick" /\ cache' = cache /\ imported' = imported
  BY DEF DependencyPick, At, files
<1>2. ASSUME NEW p, Goto([Top EXCEPT !.pc = "depsNext", !.at = p, !.j = 0, !.todo = @ \ {p}])
      PROVE  Kept'
  <2> DEFINE t == [Top EXCEPT !.pc = "depsNext", !.at = p, !.j = 0, !.todo = @ \ {p}]
  <2>1. t.pc = "depsNext" /\ t.file = Top.file /\ t.enf = Top.enf /\ Goto(t)
    BY <1>1, <1>2, TopTyped DEF SafeInv, Frames
  <2> HIDE DEF t
  <2> QED BY <1>1, <2>1, LoopGoto DEF RulePCs, Enforcers
<1>3. CASE \E v : Return(v)
  BY <1>1, <1>3, RuleReturn DEF RulePCs
<1> QED BY <1>2, <1>3 DEF DependencyPick

LEMMA DependencyNextKeeps == ASSUME SafeInv, DependencyNext PROVE Kept'
<1>1. stack # <<>> /\ Top.pc = "depsNext" /\ cache' = cache /\ imported' = imported
  BY DEF DependencyNext, At, files
<1>2. CASE Goto([Top EXCEPT !.pc = "depsPick"])
  <2> DEFINE t == [Top EXCEPT !.pc = "depsPick"]
  <2>1. t.pc = "depsPick" /\ t.file = Top.file /\ t.enf = Top.enf /\ Goto(t)
    BY <1>1, <1>2, TopTyped DEF SafeInv, Frames
  <2> HIDE DEF t
  <2> QED BY <1>1, <2>1, LoopGoto DEF RulePCs, Enforcers
<1>3. ASSUME NEW n \in Names, NEW f,
             Call([Top EXCEPT !.pc = "depHashed", !.j = n], Rule("check", f, "FULL"))
      PROVE  Kept'
  <2> DEFINE t == [Top EXCEPT !.pc = "depHashed", !.j = n]
             c == Rule("check", f, "FULL")
  <2>1. t.pc = "depHashed" /\ t.file = Top.file /\ t.enf = Top.enf /\ Call(t, c)
    BY <1>1, <1>3, TopTyped DEF SafeInv, Frames
  <2>2. c.pc = "check" /\ c.enf = "FULL" /\ c.into = NoFile
    BY DEF Rule, Activation
  <2> HIDE DEF t, c
  <2> QED BY <1>1, <2>1, <2>2, LoopCall DEF RulePCs, Enforcers
<1> QED BY <1>2, <1>3 DEF DependencyNext

LEMMA DependencyHashedKeeps == ASSUME SafeInv, DependencyHashed PROVE Kept'
<1> DEFINE t == [Top EXCEPT !.pc = "depsNext", !.j = @ + 1, !.flag = @ \/ ret = "unfrozen"]
<1>1. stack # <<>> /\ Top.pc = "depHashed" /\ cache' = cache /\ imported' = imported
  BY DEF DependencyHashed, Resumed, files
<1>2. t.pc = "depsNext" /\ t.file = Top.file /\ t.enf = Top.enf
  BY <1>1, TopTyped DEF SafeInv, Frames
<1>3. Goto(t) \/ Return("error")
  BY DEF DependencyHashed
<1> HIDE DEF t
<1> QED BY <1>1, <1>2, <1>3, LoopGoto, RuleReturn DEF RulePCs, Enforcers

-----------------------------------------------------------------------------
(* Steps of the parser.                                                    *)

LEMMA BelowTop ==
    ASSUME TypeInv, StackInv, stack # <<>>, NEW i \in 1..(Len(stack) - 1)
    PROVE  /\ stack[i] \in Frames /\ stack[i].file \in Files /\ FrameOK(stack[i])
           /\ Framed(stack[i], cache, imported) /\ Nested(stack[i], Top)
<1>1. i \in 1..Len(stack) /\ stack[i] \in Frames /\ FrameOK(stack[i])
  BY DEF TypeInv, StackOK
<1>2. Framed(stack[i], cache, imported) /\ Nested(stack[i], Top)
  BY TopFits DEF Fits
<1> QED BY <1>1, <1>2 DEF Frames

LEMMA CurrentTyped ==
    ASSUME NEW a \in Frames, FrameOK(a), a.pc \in {"current", "last"}
    PROVE  Current(a) \in Files
<1>1. a.file \in Files /\ a.k \in Names
  BY DEF Frames, FrameOK
<1> QED BY <1>1, FileParts, FileTyped DEF Current

\* an activation is parsed on: only what it does next changes
LEMMA ParseFits ==
    ASSUME TypeInv, StackInv, stack # <<>>, Top.pc \in ParsePCs,
           NEW t, t.pc \in ParsePCs, t.pc \in OwnPCs => Top.pc \in OwnPCs,
           t.file = Top.file, t.enf = Top.enf, t.into = Top.into,
           NEW c, NEW m, Framed(t, c, m),
           \A i \in 1..(Len(stack) - 1) : Framed(stack[i], c, m)
    PROVE  Fits(t, c, m)
<1>1. Fits(Top, cache, imported)
  BY TopFits
<1>2. ASSUME NEW a, Nested(a, Top) PROVE Nested(a, t)
  BY <1>2 DEF Nested
<1>3. ASSUME NEW a, Linked(a, Top) PROVE Linked(a, t)
  BY <1>3 DEF Linked, Enforcers, ParsePCs
<1>4. Outermost(Top) => Outermost(t)
  BY DEF Outermost
<1> QED BY <1>1, <1>2, <1>3, <1>4 DEF Fits

LEMMA BuildGoto ==
    ASSUME SafeInv, stack # <<>>, cache' = cache, imported' = imported,
           Top.pc \in BuildPCs, NEW t, t.pc \in BuildPCs,
           t.file = Top.file, t.enf = Top.enf, t.into = Top.into, Goto(t)
    PROVE  Kept'
<1>1. Framed(t, cache, imported)
  BY TopFits DEF SafeInv, Fits, Framed, BuildPCs, RulePCs
<1>2. \A i \in 1..(Len(stack) - 1) : Framed(stack[i], cache, imported)
  BY TopFits DEF SafeInv, Fits
<1>3. Fits(t, cache, imported)
  BY <1>1, <1>2, ParseFits DEF SafeInv, BuildPCs, OwnPCs, ParsePCs
<1>4. StackInv'
  BY <1>3, GotoFits DEF SafeInv
<1> QED BY <1>4 DEF Kept, SafeInv, AnswerInv, AbsentInv, Answered, Goto

LEMMA BuildCall ==
    ASSUME SafeInv, stack # <<>>, cache' = cache, imported' = imported,
           Top.pc \in BuildPCs, NEW t, t.pc \in {"importing", "importTypes"},
           t.file = Top.file, t.enf = Top.enf, t.into = Top.into,
           NEW f, Call(t, ParseInto(f, Top.file))
    PROVE  Kept'
<1> DEFINE c == ParseInto(f, Top.file)
<1>1. c.pc = "find" /\ c.enf = "NONE" /\ c.into = Top.file /\ Call(t, c)
  BY DEF ParseInto, Activation
<1> HIDE DEF c
<1>2. Framed(t, cache, imported)
  BY TopFits DEF SafeInv, Fits, Framed, BuildPCs, RulePCs
<1>3. \A i \in 1..(Len(stack) - 1) : Framed(stack[i], cache, imported)
  BY TopFits DEF SafeInv, Fits
<1>4. Fits(t, cache, imported)
  BY <1>2, <1>3, ParseFits DEF SafeInv, BuildPCs, OwnPCs, ParsePCs
<1>5. Framed(c, cache, imported) /\ Linked(t, c)
  BY <1>1 DEF Framed, Linked, BuildPCs, RulePCs
<1>6. \A a : Nested(a, c)
  BY <1>1 DEF Nested, OwnPCs, BuildPCs
<1>7. StackInv'
  BY <1>1, <1>4, <1>5, <1>6, CallFits DEF SafeInv
<1> QED BY <1>1, <1>7 DEF Kept, SafeInv, AnswerInv, AbsentInv, Answered, Call

LEMMA BadOrGoodKeeps ==
    ASSUME SafeInv, stack # <<>>, cache' = cache, imported' = imported,
           Top.pc \in BuildPCs, BadImport \/ GoodImport
    PROVE  Kept'
<1> DEFINE t == [Top EXCEPT !.pc = "import", !.k = @ + 1, !.j = 0]
           u == [Top EXCEPT !.pc = "import", !.k = @ + 1, !.j = 0, !.flag = TRUE]
<1>1. t.pc = "import" /\ t.file = Top.file /\ t.enf = Top.enf /\ t.into = Top.into
  BY TopTyped DEF SafeInv, Frames
<1>2. u.pc = "import" /\ u.file = Top.file /\ u.enf = Top.enf /\ u.into = Top.into
  BY TopTyped DEF SafeInv, Frames
<1>3. Goto(t) \/ Goto(u)
  BY DEF BadImport, GoodImport
<1> HIDE DEF t, u
<1> QED BY <1>1, <1>2, <1>3, BuildGoto DEF BuildPCs

LEMMA ImportNameKeeps == ASSUME SafeInv, ImportName PROVE Kept'
<1> DEFINE t == [Top EXCEPT !.pc = "importing"]
           s == Statement(Top.file, Top.k)
<1>1. stack # <<>> /\ Top.pc = "import" /\ cache' = cache /\ imported' = imported
  BY DEF ImportName, At, files
<1>2. t.pc = "importing" /\ t.file = Top.file /\ t.enf = Top.enf /\ t.into = Top.into
  BY <1>1, TopTyped DEF SafeInv, Frames
<1>3. Call(t, ParseInto(File(s.pkg, s.top), Top.file))
  BY DEF ImportName
<1> HIDE DEF t
<1> QED BY <1>1, <1>2, <1>3, BuildCall DEF BuildPCs

LEMMA ImportPackageKeeps == ASSUME SafeInv, ImportPackage PROVE Kept'
<1> DEFINE s == Statement(Top.file, Top.k)
<1>1. stack # <<>> /\ Top.pc = "import" /\ cache' = cache /\ imported' = imported
  BY DEF ImportPackage, At, files
<1>2. CASE BadImport \/ GoodImport
  BY <1>1, <1>2, BadOrGoodKeeps DEF BuildPCs
<1>3. ASSUME NEW n \in Names,
             Call([Top EXCEPT !.pc = "importing", !.j = n], ParseInto(File(s.pkg, n), Top.file))
      PROVE  Kept'
  <2> DEFINE t == [Top EXCEPT !.pc = "importing", !.j = n]
  <2>1. /\ t.pc = "importing" /\ t.file = Top.file /\ t.enf = Top.enf /\ t.into = Top.into
        /\ Call(t, ParseInto(File(s.pkg, n), Top.file))
    BY <1>1, <1>3, TopTyped DEF SafeInv, Frames
  <2> HIDE DEF t
  <2> QED BY <1>1, <2>1, BuildCall DEF BuildPCs
<1> QED BY <1>2, <1>3 DEF ImportPackage

LEMMA ImportedKeeps == ASSUME SafeInv, Imported PROVE Kept'
<1> DEFINE s == Statement(Top.file, Top.k)
<1>1. stack # <<>> /\ Top.pc = "importing" /\ cache' = cache /\ imported' = imported
  BY DEF Imported, Resumed, files
<1>2. CASE BadImport \/ GoodImport
  BY <1>1, <1>2, BadOrGoodKeeps DEF BuildPCs
<1>3. CASE Goto([Top EXCEPT !.pc = "import", !.j = @ + 1])
  <2> DEFINE t == [Top EXCEPT !.pc = "import", !.j = @ + 1]
  <2>1. t.pc = "import" /\ t.file = Top.file /\ t.enf = Top.enf /\ t.into = Top.into /\ Goto(t)
    BY <1>1, <1>3, TopTyped DEF SafeInv, Frames
  <2> HIDE DEF t
  <2> QED BY <1>1, <2>1, BuildGoto DEF BuildPCs
<1>4. CASE Call([Top EXCEPT !.pc = "importTypes"], ParseInto(TypesOf(s.pkg), Top.file))
  <2> DEFINE t == [Top EXCEPT !.pc = "importTypes"]
  <2>1. /\ t.pc = "importTypes" /\ t.file = Top.file /\ t.enf = Top.enf /\ t.into = Top.into
        /\ Call(t, ParseInto(TypesOf(s.pkg), Top.file))
    BY <1>1, <1>4, TopTyped DEF SafeInv, Frames
  <2> HIDE DEF t
  <2> QED BY <1>1, <2>1, BuildCall DEF BuildPCs
<1> QED BY <1>2, <1>3, <1>4 DEF Imported

LEMMA ImportedTypesKeeps == ASSUME SafeInv, ImportedTypes PROVE Kept'
BY BadOrGoodKeeps DEF ImportedTypes, Resumed, files, BuildPCs

\* What an activation knows survives a change of the entry of another file.
LEMMA EntryFramed ==
    ASSUME TypeInv, NEW a \in Frames, FrameOK(a), Framed(a, cache, imported),
           NEW f \in Files, NEW v, NEW m,
           a.pc \in OwnPCs => a.file # f,
           a.pc = "last" => Current(a) # f,
           a.pc \in BuildPCs => \A g \in m[a.file] :
               g \in Files /\ IF g = f THEN v = "ast" ELSE cache[g] = "ast"
    PROVE  Framed(a, [cache EXCEPT ![f] = v], m)
<1> DEFINE c == [cache EXCEPT ![f] = v]
<1>1. \A g \in Files : c[g] = IF g = f THEN v ELSE cache[g]
  BY DEF TypeInv, TypeOK
<1>2. a.file \in Files /\ (a.pc = "last" => Current(a) \in Files)
  BY CurrentTyped DEF Frames
<1> HIDE DEF c
<1>3. a.pc \in BuildPCs => c[a.file] = "null" /\ \A g \in m[a.file] : c[g] = "ast"
  BY <1>1, <1>2 DEF Framed, OwnPCs
<1>4. a.pc = "enforcing" => c[a.file] = "ast"
  BY <1>1, <1>2 DEF Framed, OwnPCs
<1>5. a.pc = "last" => c[Current(a)] = "ast"
  BY <1>1, <1>2 DEF Framed
<1>6. a.pc \in RulePCs \ {"enforce"} => a.enf # "NONE"
  BY DEF Framed
<1> QED BY <1>3, <1>4, <1>5, <1>6 DEF Framed, c

\* The result goes to the activation below, which is building.
LEMMA IntoBuilding ==
    ASSUME TypeInv, StackInv, stack # <<>>, Top.pc \in ParsePCs, Top.into # NoFile
    PROVE  Top.into \in Files /\ cache[Top.into] = "null"
<1>1. Len(stack) > 1
  <2>1. Len(stack) \in Nat \ {0}
    BY DEF TypeInv, StackOK
  <2>2. Len(stack) # 1
    BY TopFits DEF Fits, Outermost
  <2> QED BY <2>1, <2>2, OneOrMore
<1> DEFINE a == stack[Len(stack) - 1]
<1>2. Len(stack) - 1 \in 1..(Len(stack) - 1)
  BY <1>1 DEF TypeInv, StackOK
<1>3. a \in Frames /\ Framed(a, cache, imported)
  BY <1>2, BelowTop
<1>4. Linked(a, Top)
  BY <1>1, TopFits DEF Fits
<1> QED BY <1>3, <1>4 DEF Framed, Linked, BuildPCs, Frames

\* mImportedASTs after a live file was inserted
LEMMA InsertedInv ==
    ASSUME TypeInv, NEW f \in Files, NEW g \in Files \cup {NoFile}
    PROVE  \A h \in Files : Inserted(f, g)[h] = IF h = g THEN imported[h] \cup {f} ELSE imported[h]
BY NoValuesAssumption DEF Inserted, TypeInv, TypeOK

LEMMA InsertedFramed ==
    ASSUME TypeInv, StackInv, stack # <<>>, NEW f \in Files, cache[f] = "ast",
           NEW g \in Files \cup {NoFile}, NEW a \in Frames, Framed(a, cache, imported)
    PROVE  Framed(a, cache, Inserted(f, g))
<1>1. a.file \in Files
  BY DEF Frames
<1>2. Inserted(f, g)[a.file] = IF a.file = g THEN imported[a.file] \cup {f} ELSE imported[a.file]
  <2>1. \A h \in Files : Inserted(f, g)[h] = IF h = g THEN imported[h] \cup {f} ELSE imported[h]
    BY InsertedInv
  <2> QED BY <1>1, <2>1
<1> QED BY <1>2 DEF Framed

LEMMA ParseReturn ==
    ASSUME TypeInv, StackInv, stack # <<>>, Top.pc \in ParsePCs, NEW v, Return(v),
           v = "ok" => cache'[Top.file] = "ast",
           \A i \in 1..(Len(stack) - 1) : Framed(stack[i], cache', imported')
    PROVE  StackInv' /\ AnswerInv'
<1>1. StackInv'
  BY ReturnFits
<1>2. AnswerInv'
  <2> SUFFICES ASSUME stack' # <<>>
               PROVE  /\ Top'.pc \in {"types", "current"} /\ ret' = "ok" => cache'[Asked(Top')] = "ast"
                      /\ Top'.pc = "enforcing" /\ Top'.enf = "NONE" => ret' = "ok"
    BY DEF AnswerInv
  <2>1. Linked(Top', Top)
    BY Answering
  <2>2. ret' = v
    BY DEF Return
  <2> QED BY <2>1, <2>2 DEF Linked, ParsePCs, Enforcers
<1> QED BY <1>1, <1>2

LEMMA FindCachedKeeps == ASSUME SafeInv, FindCached PROVE Kept'
<1>1. stack # <<>> /\ Top.pc = "find" /\ cache' = cache
  BY DEF FindCached, At
<1>2. CASE cache[Top.file] = "ast" /\ Return("ok") /\ imported' = Inserted(Top.file, Top.into)
  <2>1. Top.file \in Files /\ Top.into \in Files \cup {NoFile}
    BY <1>1, TopTyped DEF SafeInv, Frames
  <2>2. \A i \in 1..(Len(stack) - 1) : Framed(stack[i], cache', imported')
    BY <1>1, <1>2, <2>1, BelowTop, InsertedFramed DEF SafeInv
  <2>3. AbsentInv'
    <3>1. \A h \in Files : cache[h] = "absent" => h # Top.into
      BY <1>1, <2>1, IntoBuilding, NoValuesAssumption DEF SafeInv, ParsePCs
    <3>2. \A h \in Files : imported'[h] = IF h = Top.into THEN imported[h] \cup {Top.file}
                                                          ELSE imported[h]
      <4>1. \A h \in Files : Inserted(Top.file, Top.into)[h]
                  = IF h = Top.into THEN imported[h] \cup {Top.file} ELSE imported[h]
        BY <2>1, InsertedInv DEF SafeInv
      <4> QED BY <1>2, <4>1
    <3> QED BY <1>1, <3>1, <3>2 DEF SafeInv, AbsentInv
  <2> QED BY <1>1, <1>2, <2>2, <2>3, ParseReturn DEF SafeInv, Kept, ParsePCs
<1>3. CASE Return("error") /\ imported' = imported
  <2>1. \A i \in 1..(Len(stack) - 1) : Framed(stack[i], cache', imported')
    BY <1>1, <1>3, BelowTop DEF SafeInv
  <2> QED BY <1>1, <1>3, <2>1, ParseReturn DEF SafeInv, Kept, AbsentInv, ParsePCs
<1> QED BY <1>2, <1>3 DEF FindCached

LEMMA FindAbsentKeeps == ASSUME SafeInv, FindAbsent PROVE Kept'
<1> DEFINE f == Top.file
           t == [Top EXCEPT !.pc = "types"]
           u == [Top EXCEPT !.pc = "open"]
           c == Parse(TypesOf(f.pkg), "NONE")
<1>1. /\ stack # <<>> /\ Top.pc = "find" /\ cache[f] = "absent"
      /\ cache' = [cache EXCEPT ![f] = "null"] /\ imported' = imported
  BY DEF FindAbsent, At
<1>2. f \in Files
  BY <1>1, TopTyped DEF SafeInv
<1>3. t.pc = "types" /\ t.file = f /\ t.enf = Top.enf /\ t.into = Top.into
  BY <1>1, TopTyped DEF SafeInv, Frames
<1>4. u.pc = "open" /\ u.file = f /\ u.enf = Top.enf /\ u.into = Top.into
  BY <1>1, TopTyped DEF SafeInv, Frames
<1>5. c.pc = "find" /\ c.enf = "NONE" /\ c.into = NoFile /\ c.file = TypesOf(f.pkg)
  BY DEF Parse, Activation
<1>6. Goto(u) \/ Call(t, c)
  BY DEF FindAbsent
<1> HIDE DEF t, u, c
<1>7. ASSUME NEW i \in 1..(Len(stack) - 1) PROVE Framed(stack[i], cache', imported')
  <2>1. /\ stack[i] \in Frames /\ FrameOK(stack[i]) /\ stack[i].file \in Files
        /\ Framed(stack[i], cache, imported)
    BY <1>1, BelowTop DEF SafeInv
  <2>2. \A g \in imported[stack[i].file] : g \in Files
    BY <2>1 DEF SafeInv, TypeInv, TypeOK
  <2> QED BY <1>1, <1>2, <2>1, <2>2, EntryFramed DEF SafeInv, Framed, OwnPCs
<1>8. \A g \in Files : cache'[g] = IF g = f THEN "null" ELSE cache[g]
  BY <1>1 DEF SafeInv, TypeInv, TypeOK
<1>9. imported[f] = {}
  BY <1>1, <1>2 DEF SafeInv, AbsentInv
<1>10. Framed(t, cache', imported') /\ Framed(u, cache', imported')
  BY <1>1, <1>2, <1>3, <1>4, <1>8, <1>9 DEF Framed, BuildPCs, RulePCs
<1>11. ASSUME NEW i \in 1..(Len(stack) - 1) PROVE Nested(stack[i], t) /\ Nested(stack[i], u)
  BY <1>1, <1>3, <1>4, BelowTop DEF SafeInv, Nested, Framed, OwnPCs
<1>12. ASSUME NEW a, Linked(a, Top) PROVE Linked(a, t) /\ Linked(a, u)
  BY <1>1, <1>3, <1>4, <1>12 DEF Linked, Enforcers, ParsePCs
<1>13. Outermost(Top) => Outermost(t) /\ Outermost(u)
  BY <1>1, <1>3, <1>4 DEF Outermost, ParsePCs
<1>14. Fits(t, cache', imported') /\ Fits(u, cache', imported')
  BY <1>1, <1>7, <1>10, <1>11, <1>12, <1>13, TopFits DEF SafeInv, Fits
<1>15. ASSUME Goto(u) PROVE StackInv'
  BY <1>1, <1>14, <1>15, GotoFits DEF SafeInv
<1>16. ASSUME Call(t, c) PROVE StackInv'
  <2>1. Framed(c, cache', imported') /\ Linked(t, c)
    BY <1>3, <1>5 DEF Framed, Linked, Asked, BuildPCs, RulePCs, ParsePCs
  <2>2. \A a : Nested(a, c)
    BY <1>5 DEF Nested, OwnPCs, BuildPCs
  <2> QED BY <1>1, <1>14, <1>16, <2>1, <2>2, CallFits DEF SafeInv
<1>17. ret' = "none"
  BY <1>6 DEF Goto, Call
<1>18. AbsentInv'
  BY <1>1, <1>8 DEF SafeInv, AbsentInv
<1> QED BY <1>6, <1>15, <1>16, <1>17, <1>18 DEF Kept, AnswerInv, Answered


\* An activation changes the entry of its own file, and the files it imported:
\* what the activations below it know is still so.
LEMMA OwnEntry ==
    ASSUME TypeInv, StackInv, stack # <<>>, Top.pc \in OwnPCs, NEW v, NEW m,
           \A h \in Files \ {Top.file} :
               \A g \in m[h] : g \in imported[h] \/ (g = Top.file /\ v = "ast"),
           \/ v = "ast"
           \/ cache[Top.file] # "ast"
           \/ Top.enf # "NONE"
    PROVE  \A i \in 1..(Len(stack) - 1) : Framed(stack[i], [cache EXCEPT ![Top.file] = v], m)
<1> SUFFICES ASSUME NEW i \in 1..(Len(stack) - 1)
             PROVE  Framed(stack[i], [cache EXCEPT ![Top.file] = v], m)
  OBVIOUS
<1> DEFINE a == stack[i]
<1>1. /\ a \in Frames /\ a.file \in Files /\ FrameOK(a)
      /\ Framed(a, cache, imported) /\ Nested(a, Top)
  BY BelowTop
<1>2. Top.file \in Files
  BY TopTyped
<1> HIDE DEF a
<1>3. /\ a.pc \in OwnPCs => a.file # Top.file
      /\ a.pc = "last" => Current(a) # Top.file
  BY <1>1 DEF Nested
<1>4. ASSUME a.pc \in BuildPCs, NEW g \in m[a.file]
      PROVE  g \in Files /\ IF g = Top.file THEN v = "ast" ELSE cache[g] = "ast"
  <2>1. a.file \in Files \ {Top.file} /\ Top.enf = "NONE"
    BY <1>1, <1>3, <1>4 DEF Nested, OwnPCs
  <2>2. CASE g \in imported[a.file]
    <3>1. g \in Files /\ cache[g] = "ast"
      BY <1>1, <1>4, <2>2 DEF Framed, TypeInv, TypeOK
    <3> QED BY <2>1, <3>1
  <2>3. CASE g = Top.file /\ v = "ast"
    BY <1>2, <2>3
  <2> QED BY <1>4, <2>1, <2>2, <2>3
<1> QED BY <1>1, <1>2, <1>3, <1>4, EntryFramed DEF a

LEMMA TypesParsedKeeps == ASSUME SafeInv, TypesParsed PROVE Kept'
<1> DEFINE f == TypesOf(Top.file.pkg)
           u == [Top EXCEPT !.pc = "open"]
<1>1. stack # <<>> /\ Top.pc = "types" /\ Answered /\ cache' = cache
  BY DEF TypesParsed, Resumed
<1>2. CASE Return("garbage") /\ imported' = imported
  <2>1. \A i \in 1..(Len(stack) - 1) : Framed(stack[i], cache', imported')
    BY <1>1, <1>2, BelowTop DEF SafeInv
  <2> QED BY <1>1, <1>2, <2>1, ParseReturn DEF SafeInv, Kept, AbsentInv, ParsePCs
<1>3. u.pc = "open" /\ u.file = Top.file /\ u.enf = Top.enf /\ u.into = Top.into
  BY <1>1, TopTyped DEF SafeInv, Frames
<1>4. CASE Goto(u) /\ imported' = imported
  <2> HIDE DEF u
  <2> QED BY <1>1, <1>3, <1>4, BuildGoto DEF BuildPCs
<1>5. CASE Goto(u) /\ ret = "ok" /\ imported' = Inserted(f, Top.file)
  <2> HIDE DEF u
  <2>1. f \in Files /\ Top.file \in Files /\ Top \in Frames
    BY <1>1, TopTyped, TypesTyped DEF SafeInv
  <2>2. cache[f] = "ast"
    BY <1>1, <1>5 DEF SafeInv, AnswerInv, Asked
  <2>3. \A i \in 1..(Len(stack) - 1) : Framed(stack[i], cache', imported')
    BY <1>1, <1>5, <2>1, <2>2, BelowTop, InsertedFramed DEF SafeInv
  <2>4. Framed(Top, cache', imported')
    BY <1>1, <1>5, <2>1, <2>2, TopFits, InsertedFramed DEF SafeInv, Fits
  <2>5. Framed(u, cache', imported')
    BY <1>1, <1>3, <2>4 DEF Framed, BuildPCs, RulePCs
  <2>6. Fits(u, cache', imported')
    BY <1>1, <1>3, <2>3, <2>5, ParseFits DEF SafeInv, ParsePCs, OwnPCs, BuildPCs
  <2>7. StackInv'
    BY <1>1, <1>5, <2>6, GotoFits DEF SafeInv
  <2>8. \A h \in Files : imported'[h] = IF h = Top.file THEN imported[h] \cup {f} ELSE imported[h]
    <3>1. \A h \in Files : Inserted(f, Top.file)[h]
              = IF h = Top.file THEN imported[h] \cup {f} ELSE imported[h]
      BY <2>1, InsertedInv DEF SafeInv
    <3> QED BY <1>5, <3>1
  <2>9. cache[Top.file] = "null"
    BY <1>1, TopFits DEF SafeInv, Fits, Framed, BuildPCs
  <2>10. AbsentInv'
    BY <1>1, <2>8, <2>9 DEF SafeInv, AbsentInv
  <2> QED BY <1>5, <2>7, <2>10 DEF Kept, AnswerInv, Answered, Goto
<1> QED BY <1>2, <1>4, <1>5 DEF TypesParsed

LEMMA OpenKeeps == ASSUME SafeInv, Open PROVE Kept'
<1> DEFINE f == Top.file
           u == [Top EXCEPT !.pc = "import"]
<1>1. stack # <<>> /\ Top.pc = "open" /\ f \in Files
  BY TopTyped DEF Open, At, SafeInv
<1>2. CASE Return("garbage") /\ cache' = cache /\ imported' = imported
  <2>1. \A i \in 1..(Len(stack) - 1) : Framed(stack[i], cache', imported')
    BY <1>1, <1>2, BelowTop DEF SafeInv
  <2> QED BY <1>1, <1>2, <2>1, ParseReturn DEF SafeInv, Kept, AbsentInv, ParsePCs
<1>3. CASE /\ Return("missing")
           /\ cache' = [cache EXCEPT ![f] = "absent"]
           /\ imported' = [imported EXCEPT ![f] = {}]
  <2>1. cache[f] = "null"
    BY <1>1, TopFits DEF SafeInv, Fits, Framed, BuildPCs
  <2>2. /\ \A h \in Files : imported'[h] = IF h = f THEN {} ELSE imported[h]
        /\ \A h \in Files : cache'[h] = IF h = f THEN "absent" ELSE cache[h]
    BY <1>1, <1>3 DEF SafeInv, TypeInv, TypeOK
  <2>3. \A i \in 1..(Len(stack) - 1) : Framed(stack[i], cache', imported')
    BY <1>1, <1>3, <2>1, <2>2, OwnEntry DEF SafeInv, OwnPCs, BuildPCs
  <2>4. AbsentInv'
    BY <2>2 DEF SafeInv, AbsentInv
  <2> QED BY <1>1, <1>3, <2>3, <2>4, ParseReturn DEF SafeInv, Kept, ParsePCs
<1>4. CASE Goto(u) /\ cache' = cache /\ imported' = imported
  <2>1. u.pc = "import" /\ u.file = Top.file /\ u.enf = Top.enf /\ u.into = Top.into
    BY <1>1, TopTyped DEF SafeInv, Frames
  <2> HIDE DEF u
  <2> QED BY <1>1, <1>4, <2>1, BuildGoto DEF BuildPCs
<1> QED BY <1>2, <1>3, <1>4 DEF Open

LEMMA RejectKeeps == ASSUME SafeInv, Reject PROVE Kept'
<1> DEFINE f == Top.file
<1>1. /\ stack # <<>> /\ Top.pc = "import" /\ f \in Files /\ Return("error")
      /\ cache' = cache /\ imported' = [imported EXCEPT ![f] = {}]
  BY TopTyped DEF Reject, At, SafeInv
<1>2. cache[f] = "null"
  BY <1>1, TopFits DEF SafeInv, Fits, Framed, BuildPCs
<1>3. \A h \in Files : imported'[h] = IF h = f THEN {} ELSE imported[h]
  BY <1>1 DEF SafeInv, TypeInv, TypeOK
<1>4. cache' = [cache EXCEPT ![f] = "null"]
  BY <1>1, <1>2 DEF SafeInv, TypeInv, TypeOK
<1>5. \A i \in 1..(Len(stack) - 1) : Framed(stack[i], cache', imported')
  <2>1. \A i \in 1..(Len(stack) - 1) : Framed(stack[i], [cache EXCEPT ![f] = "null"], imported')
    <3>1. \A h \in Files \ {f} : \A g \in imported'[h] : g \in imported[h]
      BY <1>3
    <3> QED BY <1>1, <1>2, <3>1, OwnEntry DEF SafeInv, OwnPCs, BuildPCs
  <2> QED BY <1>4, <2>1
<1>6. AbsentInv'
  BY <1>1, <1>3 DEF SafeInv, AbsentInv
<1> QED BY <1>1, <1>5, <1>6, ParseReturn DEF SafeInv, Kept, ParsePCs

LEMMA AcceptKeeps == ASSUME SafeInv, Accept PROVE Kept'
<1> DEFINE f == Top.file
           t == [Top EXCEPT !.pc = "enforcing"]
           c == Rule("enforce", Top.file, Top.enf)
<1>1. /\ stack # <<>> /\ Top.pc = "import" /\ f \in Files /\ Call(t, c)
      /\ cache' = [cache EXCEPT ![f] = "ast"] /\ imported' = Inserted(f, Top.into)
  BY TopTyped DEF Accept, At, SafeInv
<1>2. Top.into \in Files \cup {NoFile}
  BY <1>1, TopTyped DEF SafeInv, Frames
<1>3. t.pc = "enforcing" /\ t.file = f /\ t.enf = Top.enf /\ t.into = Top.into
  BY <1>1, TopTyped DEF SafeInv, Frames
<1>4. c.pc = "enforce" /\ c.enf = Top.enf /\ c.into = NoFile
  BY DEF Rule, Activation
<1> HIDE DEF t, c
<1>5. /\ \A h \in Files : Inserted(f, Top.into)[h]
             = IF h = Top.into THEN imported[h] \cup {f} ELSE imported[h]
      /\ \A h \in Files : cache'[h] = IF h = f THEN "ast" ELSE cache[h]
  BY <1>1, <1>2, InsertedInv DEF SafeInv, TypeInv, TypeOK
<1>6. \A i \in 1..(Len(stack) - 1) : Framed(stack[i], cache', imported')
  <2>1. \A h \in Files : \A g \in imported'[h] : g \in imported[h] \/ g = f
    BY <1>1, <1>5
  <2> QED BY <1>1, <2>1, OwnEntry DEF SafeInv, OwnPCs, BuildPCs
<1>7. Framed(t, cache', imported')
  BY <1>1, <1>3, <1>5 DEF Framed, BuildPCs, RulePCs
<1>8. Fits(t, cache', imported')
  <2>1. Top.pc \in ParsePCs /\ t.pc \in ParsePCs /\ Top.pc \in OwnPCs
    BY <1>1, <1>3 DEF ParsePCs, OwnPCs, BuildPCs
  <2> QED BY <1>1, <1>3, <1>6, <1>7, <2>1, ParseFits DEF SafeInv
<1>9. Framed(c, cache', imported') /\ Linked(t, c) /\ Nested(t, c)
  BY <1>3, <1>4 DEF Framed, Linked, Nested, Enforcers, OwnPCs, BuildPCs, RulePCs, ParsePCs
<1>10. ASSUME NEW i \in 1..(Len(stack) - 1) PROVE Nested(stack[i], c)
  BY <1>1, <1>4, BelowTop DEF SafeInv, Nested, OwnPCs, BuildPCs
<1>11. StackInv'
  BY <1>1, <1>8, <1>9, <1>10, CallFits DEF SafeInv
<1>12. AbsentInv'
  <2>1. Top.into \in Files => cache[Top.into] = "null"
    BY <1>1, IntoBuilding, NoValuesAssumption DEF SafeInv, ParsePCs
  <2> SUFFICES ASSUME NEW h \in Files, cache'[h] = "absent" PROVE imported'[h] = {}
    BY DEF AbsentInv
  <2>2. cache[h] = "absent" /\ imported[h] = {}
    BY <1>5 DEF SafeInv, AbsentInv
  <2> QED BY <1>1, <1>5, <2>1, <2>2
<1> QED BY <1>1, <1>11, <1>12 DEF Kept, AnswerInv, Answered, Call

LEMMA EnforcedKeeps == ASSUME SafeInv, Enforced PROVE Kept'
<1> DEFINE f == Top.file
<1>1. stack # <<>> /\ Top.pc = "enforcing" /\ f \in Files /\ Answered
  BY TopTyped DEF Enforced, Resumed, SafeInv
<1>2. cache[f] = "ast"
  BY <1>1, TopFits DEF SafeInv, Fits, Framed
<1>3. CASE Return("ok") /\ cache' = cache /\ imported' = imported
  <2>1. \A i \in 1..(Len(stack) - 1) : Framed(stack[i], cache', imported')
    BY <1>1, <1>3, BelowTop DEF SafeInv
  <2> QED BY <1>1, <1>2, <1>3, <2>1, ParseReturn DEF SafeInv, Kept, AbsentInv, ParsePCs
<1>4. CASE /\ ret # "ok" /\ Return("error")
           /\ cache' = [cache EXCEPT ![f] = "null"]
           /\ imported' = [imported EXCEPT ![f] = {}]
  <2>1. Top.enf # "NONE"
    BY <1>1, <1>4 DEF SafeInv, AnswerInv
  <2>2. /\ \A h \in Files : imported'[h] = IF h = f THEN {} ELSE imported[h]
        /\ \A h \in Files : cache'[h] = IF h = f THEN "null" ELSE cache[h]
    BY <1>1, <1>4 DEF SafeInv, TypeInv, TypeOK
  <2>3. \A i \in 1..(Len(stack) - 1) : Framed(stack[i], cache', imported')
    BY <1>1, <1>4, <2>1, <2>2, OwnEntry DEF SafeInv, OwnPCs
  <2>4. AbsentInv'
    BY <2>2 DEF SafeInv, AbsentInv
  <2> QED BY <1>1, <1>4, <2>3, <2>4, ParseReturn DEF SafeInv, Kept, ParsePCs
<1> QED BY <1>3, <1>4 DEF Enforced


-----------------------------------------------------------------------------
(* Steps of main, and all of them together.                                *)

\* Steps that touch neither the stack nor the caches.
LEMMA SameStack ==
    ASSUME SafeInv, UNCHANGED <<stack, cache, imported>>, ret' = ret \/ ret' = "none"
    PROVE  Kept'
BY DEF SafeInv, Kept, StackInv, AnswerInv, AbsentInv, Answered, Depth, Top

LEMMA RequestKeeps == ASSUME SafeInv, Request PROVE Kept'
<1>1. stack = <<>> /\ ret = "none" /\ ret' = ret /\ cache' = cache /\ imported' = imported
  BY DEF Request, Idle, Answered, files
<1>2. stack' = stack \/ \E f, e : stack' = <<Parse(f, e)>>
  BY DEF Request
<1>3. CASE stack' = stack
  BY <1>1, <1>3, SameStack
<1>4. ASSUME NEW f, NEW e, stack' = <<Parse(f, e)>> PROVE Kept'
  <2> DEFINE c == Parse(f, e)
  <2>1. c.pc = "find" /\ c.into = NoFile
    BY DEF Parse, Activation
  <2> HIDE DEF c
  <2>2. stack' = <<c>>
    BY <1>4 DEF c
  <2>3. Len(stack') = 1 /\ stack'[1] = c /\ 1..Len(stack') = {1} /\ 1..(Len(stack') - 1) = {}
    BY <2>2
  <2>4. Framed(c, cache', imported') /\ Outermost(c)
    BY <2>1 DEF Framed, Outermost, BuildPCs, RulePCs, ParsePCs
  <2>5. StackInv'
    BY <2>3, <2>4 DEF StackInv, Depth
  <2> QED BY <1>1, <2>5 DEF Kept, SafeInv, AnswerInv, AbsentInv, Answered
<1> QED BY <1>2, <1>3, <1>4

LEMMA DriverKeeps == ASSUME SafeInv, Driver PROVE Kept'
<1>1. CASE Request
  BY <1>1, RequestKeeps
<1>2. CASE Generated
  BY <1>2, SameStack DEF Generated, files
<1>3. CASE Fail \/ Finish \/ Abort
  BY <1>3, SameStack DEF Fail, Finish, Abort, files
<1> QED BY <1>1, <1>2, <1>3 DEF Driver

LEMMA ParseStepKeeps == ASSUME SafeInv, ParseStep PROVE Kept'
BY FindCachedKeeps, FindAbsentKeeps, TypesParsedKeeps, OpenKeeps, ImportNameKeeps,
   ImportPackageKeeps, ImportedKeeps, ImportedTypesKeeps, RejectKeeps, AcceptKeeps,
   EnforcedKeeps DEF ParseStep

LEMMA RuleStepsKeep == ASSUME SafeInv, RuleStep PROVE Kept'
BY EnforceKeeps, UprevsEnforcedKeeps, HashesEnforcedKeeps, UprevKeeps, UprevNextKeeps,
   CurrentParsedKeeps, LastParsedKeeps, HashNextKeeps, HashCheckedKeeps,
   DependenciesCheckedKeeps, CheckKeeps, CheckedKeeps, DependenciesKeeps,
   DependenciesParsedKeeps, DependencyPickKeeps, DependencyNextKeeps,
   DependencyHashedKeeps DEF RuleStep

LEMMA InitSafe == ASSUME Init PROVE SafeInv
<1>1. TypeInv
  BY InitTyped
<1>2. stack = <<>> /\ cache = [f \in Files |-> "absent"] /\ imported = [f \in Files |-> {}]
  BY DEF Init
<1>3. Depth = {} /\ 1..(Len(stack) - 1) = {}
  BY <1>2 DEF Depth
<1> QED BY <1>1, <1>2, <1>3 DEF SafeInv, StackInv, AnswerInv, AbsentInv

LEMMA NextSafe == ASSUME SafeInv, [Next]_vars PROVE SafeInv'
<1>1. TypeInv'
  BY NextTyped DEF SafeInv
<1>2. ASSUME Terminated \/ UNCHANGED vars PROVE Kept'
  BY <1>2, SameStack DEF Terminated, vars
<1>3. Kept'
  BY <1>2, DriverKeeps, ParseStepKeeps, RuleStepsKeep DEF Next
<1> QED BY <1>1, <1>3 DEF SafeInv, Kept

\* The invariant the theorems below rest on: what every activation knows of the
\* caches, and what the activations on the stack have to do with each other.
\* (Coordinator::parseOptional, enforceRestrictionsOnPackage.)
THEOREM SafeInvHolds == Spec => []SafeInv
<1>1. Init => SafeInv
  BY InitSafe
<1>2. SafeInv /\ [Next]_vars => SafeInv'
  BY NextSafe
<1> QED BY <1>1, <1>2, PTL DEF Spec

-----------------------------------------------------------------------------
(* What follows for the properties of module CoordinatorProperties.        *)

\* No file is parsed while it is being parsed, for every source tree: the null
\* entry parseOptional makes first is a lock on the file.
THEOREM NoReentryHolds == Spec => []NoReentry
<1>1. ASSUME SafeInv PROVE NoReentry
  <2> SUFFICES ASSUME NEW i \in Depth, NEW j \in Depth, i # j,
                      stack[i].pc \in OwnPCs, stack[j].pc \in OwnPCs
               PROVE  stack[i].file # stack[j].file
    BY DEF NoReentry
  <2>1. i < j \/ j < i
    BY <1>1 DEF Depth, SafeInv, TypeInv, StackOK
  <2>2. CASE i < j
    BY <1>1, <2>2 DEF SafeInv, StackInv, Nested
  <2>3. CASE j < i
    BY <1>1, <2>3 DEF SafeInv, StackInv, Nested
  <2> QED BY <2>1, <2>2, <2>3
<1> QED BY <1>1, SafeInvHolds, PTL

\* A parse that enforces never meets the null entry of a file that is still
\* being built, for every source tree: imports are parsed with NONE, and no rule
\* is ever enforced below a file being built.
THEOREM NoFalseCycleHolds == Spec => []NoFalseCycle
<1>1. ASSUME SafeInv PROVE NoFalseCycle
  <2> SUFFICES ASSUME stack # <<>>, Top.pc = "find", Top.enf # "NONE",
                      NEW d \in Depth, stack[d].pc \in BuildPCs, Top.file = stack[d].file
               PROVE  FALSE
    BY DEF NoFalseCycle, Building
  <2>1. d # Len(stack)
    BY DEF Top, BuildPCs
  <2>2. d \in 1..(Len(stack) - 1)
    BY <1>1, <2>1 DEF Depth, SafeInv, TypeInv, StackOK
  <2> QED BY <1>1, <2>2, BelowTop DEF SafeInv, Nested
<1> QED BY <1>1, SafeInvHolds, PTL

\* While a file is being built every AST in its mImportedASTs is alive, for every
\* source tree: enforcement, which frees ASTs, runs only when nothing is built.
THEOREM NoDanglingHolds == Spec => []NoDanglingWhileBuilding
<1>1. ASSUME SafeInv PROVE NoDanglingWhileBuilding
  <2> SUFFICES ASSUME NEW d \in Depth, stack[d].pc \in BuildPCs,
                      NEW g \in imported[stack[d].file]
               PROVE  g \in Live
    BY DEF NoDanglingWhileBuilding, Building
  <2>1. Framed(stack[d], cache, imported)
    BY <1>1 DEF SafeInv, StackInv
  <2>2. stack[d].file \in Files
    <3>1. stack[d] \in Frames
      BY <1>1 DEF SafeInv, TypeInv, StackOK, Depth
    <3> QED BY <3>1 DEF Frames
  <2>3. g \in Files
    BY <1>1, <2>2 DEF SafeInv, TypeInv, TypeOK
  <2> QED BY <2>1, <2>3 DEF Framed, Live
<1> QED BY <1>1, SafeInvHolds, PTL

\* The Interface enforceMinorVersionUprevs holds across the parse of the last
\* version's file is not freed by that parse, for every source tree.
THEOREM CurrentAliveHolds == Spec => []CurrentStaysAlive
<1>1. ASSUME SafeInv PROVE CurrentStaysAlive
  <2> SUFFICES ASSUME NEW i \in Depth, stack[i].pc = "last"
               PROVE  Current(stack[i]) \in Live
    BY DEF CurrentStaysAlive, Current
  <2>1. stack[i] \in Frames /\ FrameOK(stack[i])
    BY <1>1 DEF SafeInv, TypeInv, StackOK, Depth
  <2>2. cache[Current(stack[i])] = "ast"
    BY <1>1 DEF SafeInv, StackInv, Framed
  <2> QED BY <2>1, <2>2, CurrentTyped DEF Live
<1> QED BY <1>1, SafeInvHolds, PTL

\* For every source tree the null entry of mCache stops a cycle of imports, and is
\* never met by an enforcement of rules (Coordinator::parseOptional).
THEOREM RecursionIsGuardedHolds == Spec => []RecursionIsGuarded
<1>1. NoReentry /\ NoFalseCycle => RecursionIsGuarded
  BY DEF RecursionIsGuarded
<1> QED BY <1>1, NoReentryHolds, NoFalseCycleHolds, PTL

\* For every source tree, neither a file being built nor the comparison of an
\* interface with an earlier version is left with an AST that an enforcement freed.
THEOREM AstsStayAliveHolds == Spec => []AstsStayAlive
<1>1. NoDanglingWhileBuilding /\ CurrentStaysAlive => AstsStayAlive
  BY DEF AstsStayAlive
<1> QED BY <1>1, NoDanglingHolds, CurrentAliveHolds, PTL

\* Only the activation a file belongs to writes its entry, once there is one.
LEMMA CacheStep ==
    ASSUME TypeInv, [Next]_vars
    PROVE  \/ cache' = cache
           \/ /\ stack # <<>> /\ \E v : cache' = [cache EXCEPT ![Top.file] = v]
              /\ Top.pc \in OwnPCs \/ cache[Top.file] = "absent"
<1>1. CASE Driver \/ Terminated \/ UNCHANGED vars
  BY <1>1 DEF Driver, Request, Generated, Fail, Finish, Abort, Terminated, vars, files
<1>2. CASE FindCached \/ TypesParsed \/ Reject
  BY <1>2 DEF FindCached, TypesParsed, Reject
<1>3. CASE ImportName \/ ImportPackage \/ Imported \/ ImportedTypes
  BY <1>3 DEF ImportName, ImportPackage, Imported, ImportedTypes, files
<1>4. CASE FindAbsent
  BY <1>4 DEF FindAbsent, At
<1>5. CASE Open
  BY <1>5 DEF Open, At, OwnPCs, BuildPCs
<1>6. CASE Accept
  BY <1>6 DEF Accept, At, OwnPCs, BuildPCs
<1>7. CASE Enforced
  BY <1>7 DEF Enforced, Resumed, OwnPCs
<1>8. CASE RuleStep
  BY <1>8 DEF RuleStep, Enforce, UprevsEnforced, HashesEnforced, Uprev, UprevNext,
     CurrentParsed, LastParsed, HashNext, HashChecked, DependenciesChecked, Check, Checked,
     Dependencies, DependenciesParsed, DependencyPick, DependencyNext, DependencyHashed, files
<1> QED BY <1>1, <1>2, <1>3, <1>4, <1>5, <1>6, <1>7, <1>8 DEF Next, ParseStep

\* A file once found to be in error never gets an AST, for every source tree: the
\* verdict in mCache is final, so the order of the targets cannot undo it.
THEOREM StickyVerdictHolds == Spec => StickyVerdict
<1>1. ASSUME SafeInv, [Next]_vars
      PROVE  [\A f \in Null \ Owned : cache'[f] = "null"]_vars
  <2> SUFFICES ASSUME NEW f \in Null \ Owned PROVE cache'[f] = "null"
    OBVIOUS
  <2>1. f \in Files /\ cache[f] = "null"
    BY DEF Null
  <2>2. CASE cache' = cache
    BY <2>1, <2>2
  <2>3. ASSUME stack # <<>>, NEW v, cache' = [cache EXCEPT ![Top.file] = v],
               Top.pc \in OwnPCs \/ cache[Top.file] = "absent"
        PROVE  cache'[f] = "null"
    <3>1. Len(stack) \in Depth
      BY <1>1, <2>3 DEF SafeInv, TypeInv, StackOK, Depth
    <3>2. Top.pc \in OwnPCs => Top.file \in Owned
      BY <3>1 DEF Owned, Top
    <3>3. f # Top.file
      BY <2>1, <2>3, <3>2
    <3> QED BY <1>1, <2>1, <2>3, <3>3 DEF SafeInv, TypeInv, TypeOK
  <2> QED BY <1>1, <2>2, <2>3, CacheStep DEF SafeInv
<1> QED BY <1>1, SafeInvHolds, PTL DEF Spec, StickyVerdict

-----------------------------------------------------------------------------

ImportPCs == {"import", "importing", "importTypes"}
UprevPCs == {"uprev", "uprevNext", "current", "last"}
HashPCs == {"hashNext", "hashed", "depended"}
CheckPCs == {"check", "checked"}
DepPCs == {"deps", "depsParsed", "depsPick", "depsNext", "depHashed"}
PCs == ParsePCs \cup RulePCs

\* the import statement a is at, and the file it asks for first
NextImport(a) == Statement(a.file, a.k)
Wanted(a) == File(NextImport(a).pkg, IF NextImport(a).top = WholePackage THEN a.j ELSE NextImport(a).top)

\* a waits for an activation that is at pc, for file f
Waits(a, pc, f) ==
    \/ pc \in ParsePCs /\ a.pc = "types" /\ f = TypesOf(a.file.pkg)
    \/ pc \in ParsePCs /\ a.pc = "importing" /\ f = Wanted(a)
    \/ pc \in ParsePCs /\ a.pc = "importTypes" /\ f = TypesOf(NextImport(a).pkg)
    \/ pc \in ParsePCs /\ a.pc = "current" /\ f = Current(a)
    \/ pc \in ParsePCs /\ a.pc = "last" /\ f = LastOf(a.file.pkg, a.j, a.k)
    \/ pc \in ParsePCs /\ a.pc \in {"checked", "depsParsed"} /\ f = a.file
    \/ pc \in Enforcers /\ a.pc = "enforcing" /\ f = a.file
    \/ pc \in UprevPCs /\ a.pc = "uprevs" /\ f = a.file
    \/ pc \in HashPCs /\ a.pc = "hashes" /\ f = a.file
    \/ pc \in CheckPCs /\ a.pc = "hashed" /\ f = Current(a)
    \/ pc \in CheckPCs /\ a.pc = "depHashed" /\ f = File(a.at, a.j)
    \/ pc \in DepPCs /\ a.pc = "depended" /\ f = Current(a)

-----------------------------------------------------------------------------
(* What an activation has found out.  S are files that were accepted, D    *)
(* are files that will never be: missing ones, and those in error.         *)

Dead == {f \in Files : ~Exists(f) \/ (cache[f] = "null" /\ f \notin Building)}

TypesGood(f, S) == f.name # Types /\ Exists(TypesOf(f.pkg)) => TypesOf(f.pkg) \in S

\* the part of the package it imports that a has got
Gotten(a, S) ==
    NextImport(a).top = WholePackage =>
        \A n \in Listing(NextImport(a).pkg) : n < a.j => File(NextImport(a).pkg, n) \in S

\* of a file that is parsed
Parsed(a, S) ==
    /\ a.pc \in {"find", "types", "open"} => a.k = 1 /\ a.j = 0 /\ ~a.flag
    /\ a.pc = "types" => a.file.name # Types
    /\ a.pc \in {"open"} \cup ImportPCs => TypesGood(a.file, S)
    /\ a.pc \in ImportPCs =>
          /\ Exists(a.file) /\ Rooted(a.file.pkg) /\ a.k >= 1
          /\ ~a.flag => \A k \in Statements(a.file) :
                           k < a.k => ImportHolds(S, Statement(a.file, k))
          /\ Gotten(a, S)
    /\ a.pc \in {"importing", "importTypes"} => a.k \in Statements(a.file)
    /\ a.pc = "importing" /\ NextImport(a).top = WholePackage =>
          HasSources(NextImport(a).pkg) /\ NextName(NextImport(a).pkg, a.j, a.j)
    /\ a.pc = "importTypes" =>
          /\ NextImport(a).top # WholePackage /\ Rooted(NextImport(a).pkg)
          /\ ~Exists(File(NextImport(a).pkg, NextImport(a).top))
    /\ a.pc = "enforcing" => a.file \in S

\* p::n extends the one of x.m, and those between cannot be parsed
Follows(p, n, m, S, D) ==
    /\ SuperOf(File(p, n)) = LastOf(p, m, n) /\ LastOf(p, m, n) \in S
    /\ \A l \in (m + 1)..(p.minor - 1) : LastOf(p, l, n) \in D

NameFine(p, n, S, D) ==
    \/ File(p, n) \in D
    \/ SuperOf(File(p, n)) = NoFile
    \/ \A m \in 0..(p.minor - 1) : LastOf(p, m, n) \in D
    \/ File(p, n) \in S /\ \E m \in 0..(p.minor - 1) : Follows(p, n, m, S, D)

SomeFollows(p, S) ==
    \E n \in Names : /\ SuperOf(File(p, n)) = LastOf(p, p.minor - 1, n)
                     /\ {File(p, n), LastOf(p, p.minor - 1, n)} \subseteq S

UprevFine(p, S, D) ==
    Earlier(p) # {} =>
        /\ PrevPackage(p) \in Earlier(p)
        /\ ~IsTypesOnly(PrevPackage(p)) =>
              /\ SomeFollows(p, S)
              /\ \A n \in Listing(p) \ {Types} : NameFine(p, n, S, D)

PackageFrozen(q) == \A n \in Listing(q) : LookedUp(File(q, n)) = "match"
DependsOnFrozen(f) == \A q \in ImportedPackages(f) : PackageFrozen(q)
HashFine(f, S) ==
    /\ f \in S /\ LookedUp(f) # "mismatch"
    /\ LookedUp(f) = "match" => DependsOnFrozen(f)

\* of the rules of a package
Uprevved(a, S, D) ==
    /\ a.pc \in {"uprevNext", "current", "last"} =>
          /\ a.k >= 1 /\ PrevPackage(a.file.pkg) \in Earlier(a.file.pkg)
          /\ a.flag => SomeFollows(a.file.pkg, S)
          /\ \A n \in Listing(a.file.pkg) \ {Types} : n < a.k => NameFine(a.file.pkg, n, S, D)
    /\ a.pc = "uprev" => a.k = 1 /\ ~a.flag
    /\ a.pc = "last" =>
          /\ Current(a) \in S
          /\ \A l \in (a.j + 1)..(a.file.pkg.minor - 1) : LastOf(a.file.pkg, l, a.k) \in D
    /\ a.pc = "hashes" => UprevFine(a.file.pkg, S, D)

Hashed(a, S) ==
    /\ a.enf = "NO_HASH" => ~WithHashes
    /\ a.pc \in {"current", "last", "hashed", "depended"} => NextName(a.file.pkg, a.k, a.k)
    /\ a.pc \in HashPCs =>
          \A n \in Listing(a.file.pkg) : n < a.k => HashFine(File(a.file.pkg, n), S)
    /\ a.pc = "depended" => Current(a) \in S /\ LookedUp(Current(a)) = "match"

DependenciesSeen(a) ==
    /\ a.pc \in {"deps", "depsParsed"} => ~a.flag
    /\ a.pc = "depsPick" /\ ~a.flag =>
          \A q \in ImportedPackages(a.file) \ a.todo : PackageFrozen(q)
    /\ a.pc \in {"depsNext", "depHashed"} /\ ~a.flag =>
          /\ \A q \in ImportedPackages(a.file) \ (a.todo \cup {a.at}) : PackageFrozen(q)
          /\ \A n \in Listing(a.at) : n < a.j => LookedUp(File(a.at, n)) = "match"
    /\ a.pc = "depHashed" => NextName(a.at, a.j, a.j)

Knows(a, S, D) ==
    Parsed(a, S) /\ Uprevved(a, S, D) /\ Hashed(a, S) /\ DependenciesSeen(a)

KnownInv ==
    /\ \A i \in Depth : Knows(stack[i], Accepted, Dead)
    /\ \A i \in 1..(Len(stack) - 1) : Waits(stack[i], stack[i + 1].pc, stack[i + 1].file)

\* what the answer v of an activation at pc, for file f, says
Delivers(pc, f, v, S, N, D) ==
    /\ pc \in ParsePCs =>
          /\ v \in {"ok", "missing", "error", "garbage"}
          /\ v = "ok" => f \in S
          /\ v = "missing" => ~Exists(f) /\ Rooted(f.pkg)
          /\ v \in {"error", "garbage"} => f \in N
    /\ pc \in UprevPCs /\ v = "ok" => UprevFine(f.pkg, S, D)
    /\ pc \in HashPCs /\ v = "ok" => \A n \in Listing(f.pkg) : HashFine(File(f.pkg, n), S)
    /\ pc \in CheckPCs =>
          /\ v \in {"frozen", "unfrozen", "changed", "error"}
          /\ v \in {"frozen", "unfrozen"} =>
                f \in S /\ LookedUp(f) = IF v = "frozen" THEN "match" ELSE "absent"
    /\ pc \in DepPCs /\ v = "ok" => DependsOnFrozen(f)

PromiseInv ==
    stack # <<>> /\ Answered =>
        \E pc \in PCs, f \in Files :
            Waits(Top, pc, f) /\ Delivers(pc, f, ret, Accepted, Null, Dead)

-----------------------------------------------------------------------------
(* The source tree stays, and what is known of it with it.                 *)

LEMMA SameRepo == ASSUME tree' = tree PROVE repo' = repo
BY DEF repo

LEMMA SameTree ==
    ASSUME tree' = tree
    PROVE  /\ \A f : Exists(f)' = Exists(f) /\ SuperOf(f)' = SuperOf(f)
           /\ \A f : Statements(f)' = Statements(f)
           /\ \A f, k : Statement(f, k)' = Statement(f, k)
           /\ \A p : Rooted(p)' = Rooted(p) /\ HasSources(p)' = HasSources(p)
           /\ \A p : Listing(p)' = Listing(p) /\ Earlier(p)' = Earlier(p)
           /\ \A p : IsTypesOnly(p)' = IsTypesOnly(p)
           /\ \A p, k, n : NextName(p, k, n)' = NextName(p, k, n)
           /\ \A f : ImportedPackages(f)' = ImportedPackages(f)
           /\ \A f : LookedUp(f)' = LookedUp(f)
<1> QED BY SameRepo DEF Exists, SuperOf, Statements, Statement, Rooted, Root, HasSources,
      Listing, Earlier, IsTypesOnly, NextName, ImportedPackages, LookedUp, ImportsIBase

LEMMA ImportHoldsSame ==
    ASSUME tree' = tree, NEW S, NEW s, ImportHolds(S, s)
    PROVE  ImportHolds(S, s)'
BY SameTree, SameRepo DEF ImportHolds, TypesOf, File

LEMMA ParsedSame ==
    ASSUME tree' = tree, NEW a, NEW S, Parsed(a, S)
    PROVE  Parsed(a, S)'
<1>1. /\ \A f : Exists(f)' = Exists(f) /\ Statements(f)' = Statements(f)
      /\ \A f, k : Statement(f, k)' = Statement(f, k)
      /\ \A p : Rooted(p)' = Rooted(p) /\ HasSources(p)' = HasSources(p)
      /\ \A p : Listing(p)' = Listing(p)
      /\ \A p, k, n : NextName(p, k, n)' = NextName(p, k, n)
  BY SameTree
<1>2. NextImport(a)' = NextImport(a)
  BY <1>1 DEF NextImport
<1>3. TypesGood(a.file, S)' = TypesGood(a.file, S)
  BY <1>1 DEF TypesGood, TypesOf, File
<1>4. Gotten(a, S) => Gotten(a, S)'
  BY <1>1, <1>2 DEF Gotten, File
<1> QED BY <1>1, <1>2, <1>3, <1>4, ImportHoldsSame DEF Parsed, File

LEMMA UprevFineSame ==
    ASSUME tree' = tree, NEW p, NEW S, NEW D
    PROVE  /\ SomeFollows(p, S)' = SomeFollows(p, S)
           /\ \A n : NameFine(p, n, S, D)' = NameFine(p, n, S, D)
           /\ UprevFine(p, S, D)' = UprevFine(p, S, D)
<1>1. SomeFollows(p, S)' = SomeFollows(p, S)
  BY SameTree DEF SomeFollows, File, LastOf, DownRev
<1>2. \A n, m : Follows(p, n, m, S, D)' = Follows(p, n, m, S, D)
  BY SameTree DEF Follows, File, LastOf, DownRev
<1>3. \A n : NameFine(p, n, S, D)' = NameFine(p, n, S, D)
  BY <1>2, SameTree DEF NameFine, File, LastOf, DownRev
<1> QED BY <1>1, <1>3, SameTree DEF UprevFine, PrevPackage, DownRev

LEMMA HashFineSame ==
    ASSUME tree' = tree
    PROVE  /\ \A q : PackageFrozen(q)' = PackageFrozen(q)
           /\ \A f : DependsOnFrozen(f)' = DependsOnFrozen(f)
           /\ \A f, S : HashFine(f, S)' = HashFine(f, S)
<1>1. \A q : PackageFrozen(q)' = PackageFrozen(q)
  BY SameTree DEF PackageFrozen, File
<1>2. \A f : DependsOnFrozen(f)' = DependsOnFrozen(f)
  BY <1>1, SameTree DEF DependsOnFrozen
<1> QED BY <1>1, <1>2, SameTree DEF HashFine

LEMMA KnowsSame ==
    ASSUME tree' = tree, queue' = queue, NEW a, NEW S, NEW D, Knows(a, S, D)
    PROVE  Knows(a, S, D)'
<1>1. Uprevved(a, S, D)'
  BY UprevFineSame, SameTree DEF Knows, Uprevved, PrevPackage, DownRev, Current, File, LastOf
<1>2. Hashed(a, S)'
  BY HashFineSame, SameTree DEF Knows, Hashed, Current, File, WithHashes
<1>3. DependenciesSeen(a)'
  BY HashFineSame, SameTree DEF Knows, DependenciesSeen, File
<1> QED BY <1>1, <1>2, <1>3, ParsedSame DEF Knows

LEMMA WaitsSame ==
    ASSUME tree' = tree, NEW a, NEW pc, NEW f, Waits(a, pc, f)
    PROVE  Waits(a, pc, f)'
<1>1. NextImport(a)' = NextImport(a)
  BY SameTree DEF NextImport
<1> QED BY <1>1 DEF Waits, Wanted, Current, LastOf, DownRev, TypesOf, File

LEMMA DeliversSame ==
    ASSUME tree' = tree, NEW pc, NEW f, NEW v, NEW S, NEW N, NEW D, Delivers(pc, f, v, S, N, D)
    PROVE  Delivers(pc, f, v, S, N, D)'
BY SameTree, UprevFineSame, HashFineSame DEF Delivers, File

-----------------------------------------------------------------------------
(* More accepted files and more dead ones: what was known still is.        *)

LEMMA ImportHoldsMore ==
    ASSUME NEW S, NEW T, S \subseteq T, NEW s, ImportHolds(S, s)
    PROVE  ImportHolds(T, s)
BY DEF ImportHolds

LEMMA JustifiedMore ==
    ASSUME NEW S, NEW T, S \subseteq T, NEW f, Justified(S, f)
    PROVE  Justified(T, f)
BY ImportHoldsMore DEF Justified

LEMMA ParsedMore ==
    ASSUME NEW S, NEW T, S \subseteq T, NEW a, Parsed(a, S)
    PROVE  Parsed(a, T)
<1>1. TypesGood(a.file, S) => TypesGood(a.file, T)
  BY DEF TypesGood
<1>2. Gotten(a, S) => Gotten(a, T)
  BY DEF Gotten
<1> QED BY <1>1, <1>2, ImportHoldsMore DEF Parsed

LEMMA UprevFineMore ==
    ASSUME NEW S, NEW T, S \subseteq T, NEW D, NEW E, D \subseteq E, NEW p
    PROVE  /\ SomeFollows(p, S) => SomeFollows(p, T)
           /\ \A n : NameFine(p, n, S, D) => NameFine(p, n, T, E)
           /\ UprevFine(p, S, D) => UprevFine(p, T, E)
<1>1. SomeFollows(p, S) => SomeFollows(p, T)
  BY DEF SomeFollows
<1>2. \A n, m : Follows(p, n, m, S, D) => Follows(p, n, m, T, E)
  BY DEF Follows
<1>3. \A n : NameFine(p, n, S, D) => NameFine(p, n, T, E)
  BY <1>2 DEF NameFine
<1> QED BY <1>1, <1>3 DEF UprevFine

LEMMA HashFineMore ==
    ASSUME NEW S, NEW T, S \subseteq T
    PROVE  \A f : HashFine(f, S) => HashFine(f, T)
BY DEF HashFine

LEMMA KnowsMore ==
    ASSUME NEW S, NEW T, S \subseteq T, NEW D, NEW E, D \subseteq E, NEW a, Knows(a, S, D)
    PROVE  Knows(a, T, E)
<1>1. Uprevved(a, T, E)
  <2>1. Uprevved(a, S, D)
    BY DEF Knows
  <2>2. SomeFollows(a.file.pkg, S) => SomeFollows(a.file.pkg, T)
    BY UprevFineMore
  <2>3. \A n : NameFine(a.file.pkg, n, S, D) => NameFine(a.file.pkg, n, T, E)
    BY UprevFineMore
  <2>4. a.pc \in {"uprevNext", "current", "last"} =>
          /\ a.k >= 1 /\ PrevPackage(a.file.pkg) \in Earlier(a.file.pkg)
          /\ a.flag => SomeFollows(a.file.pkg, T)
          /\ \A n \in Listing(a.file.pkg) \ {Types} : n < a.k => NameFine(a.file.pkg, n, T, E)
    BY <2>1, <2>2, <2>3 DEF Uprevved
  <2>5. a.pc = "uprev" => a.k = 1 /\ ~a.flag
    BY <2>1 DEF Uprevved
  <2>6. a.pc = "last" =>
          /\ Current(a) \in T
          /\ \A l \in (a.j + 1)..(a.file.pkg.minor - 1) : LastOf(a.file.pkg, l, a.k) \in E
    BY <2>1 DEF Uprevved
  <2>7. a.pc = "hashes" => UprevFine(a.file.pkg, T, E)
    <3>1. UprevFine(a.file.pkg, S, D) => UprevFine(a.file.pkg, T, E)
      BY UprevFineMore
    <3> QED BY <2>1, <3>1 DEF Uprevved
  <2> QED BY <2>4, <2>5, <2>6, <2>7 DEF Uprevved
<1>2. Hashed(a, T)
  BY HashFineMore DEF Knows, Hashed
<1> QED BY <1>1, <1>2, ParsedMore DEF Knows

-----------------------------------------------------------------------------
(* What is known, across the three steps of the stack.                     *)

Grows ==
    /\ tree' = tree /\ queue' = queue
    /\ Accepted \subseteq Accepted' /\ Dead \subseteq Dead'

\* the frames below the top know what they knew
LEMMA BelowKnows ==
    ASSUME Grows, KnownInv, NEW i \in Depth
    PROVE  Knows(stack[i], Accepted', Dead')
BY KnowsMore DEF Grows, KnownInv

\* KnownInv, of a stack that is given in this state
LEMMA NewStackKnows ==
    ASSUME Grows,
           \A i \in 1..Len(stack') : Knows(stack'[i], Accepted', Dead'),
           \A i \in 1..(Len(stack') - 1) :
               Waits(stack'[i], stack'[i + 1].pc, stack'[i + 1].file)
    PROVE  KnownInv'
<1>1. \A i \in 1..Len(stack') : Knows(stack[i], Accepted, Dead)'
  BY KnowsSame DEF Grows
<1>2. \A i \in 1..(Len(stack') - 1) : Waits(stack[i], stack[i + 1].pc, stack[i + 1].file)'
  BY WaitsSame DEF Grows
<1> QED BY <1>1, <1>2 DEF KnownInv, Depth

\* t goes on with what the top was doing
Continues(t) ==
    /\ t.file = Top.file
    /\ \A P \in {ParsePCs, Enforcers, UprevPCs, HashPCs, CheckPCs, DepPCs} :
          Top.pc \in P => t.pc \in P

LEMMA StillWaits ==
    ASSUME NEW a, NEW t, Continues(t), Waits(a, Top.pc, Top.file)
    PROVE  Waits(a, t.pc, t.file)
BY DEF Waits, Continues

LEMMA GotoKnows ==
    ASSUME TypeInv, KnownInv, Grows, stack # <<>>, NEW t, Goto(t), Continues(t),
           Knows(t, Accepted', Dead')
    PROVE  KnownInv' /\ PromiseInv'
<1>1. /\ Len(stack') = Len(stack) /\ Len(stack) \in Nat \ {0}
      /\ stack'[Len(stack)] = t
      /\ \A i \in 1..(Len(stack) - 1) : stack'[i] = stack[i]
  BY ReplaceLast DEF Goto, TypeInv, StackOK
<1>2. ASSUME NEW i \in 1..Len(stack') PROVE Knows(stack'[i], Accepted', Dead')
  BY <1>1, BelowKnows DEF Depth
<1>3. ASSUME NEW i \in 1..(Len(stack') - 1)
      PROVE  Waits(stack'[i], stack'[i + 1].pc, stack'[i + 1].file)
  <2>1. i \in 1..(Len(stack) - 1) /\ stack'[i] = stack[i]
        /\ Waits(stack[i], stack[i + 1].pc, stack[i + 1].file)
    BY <1>1 DEF KnownInv
  <2>2. CASE i + 1 = Len(stack)
    BY <1>1, <2>1, <2>2, StillWaits DEF Top
  <2>3. CASE i + 1 # Len(stack)
    <3>1. i + 1 \in 1..(Len(stack) - 1)
      BY <1>1, <2>1, <2>3
    <3> QED BY <1>1, <2>1, <3>1
  <2> QED BY <2>2, <2>3
<1>4. ret' = "none"
  BY DEF Goto
<1> QED BY <1>2, <1>3, <1>4, NewStackKnows DEF PromiseInv, Answered

LEMMA CallKnows ==
    ASSUME TypeInv, KnownInv, Grows, stack # <<>>, NEW t, NEW c, Call(t, c), Continues(t),
           Knows(t, Accepted', Dead'), Knows(c, Accepted', Dead'), Waits(t, c.pc, c.file)
    PROVE  KnownInv' /\ PromiseInv'
<1>1. /\ Len(stack') = Len(stack) + 1 /\ Len(stack) \in Nat \ {0}
      /\ stack'[Len(stack)] = t /\ stack'[Len(stack) + 1] = c
      /\ \A i \in 1..(Len(stack) - 1) : stack'[i] = stack[i]
  BY Push DEF Call, TypeInv, StackOK
<1>2. ASSUME NEW i \in 1..Len(stack') PROVE Knows(stack'[i], Accepted', Dead')
  <2>1. i \in 1..(Len(stack) - 1) \/ i = Len(stack) \/ i = Len(stack) + 1
    BY <1>1
  <2> QED BY <1>1, <2>1, BelowKnows DEF Depth
<1>3. ASSUME NEW i \in 1..(Len(stack') - 1)
      PROVE  Waits(stack'[i], stack'[i + 1].pc, stack'[i + 1].file)
  <2>1. CASE i = Len(stack)
    BY <1>1, <2>1
  <2>2. CASE i # Len(stack)
    <3>1. i \in 1..(Len(stack) - 1) /\ stack'[i] = stack[i]
          /\ Waits(stack[i], stack[i + 1].pc, stack[i + 1].file)
      BY <1>1, <2>2 DEF KnownInv
    <3>2. CASE i + 1 = Len(stack)
      BY <1>1, <3>1, <3>2, StillWaits DEF Top
    <3>3. CASE i + 1 # Len(stack)
      <4>1. i + 1 \in 1..(Len(stack) - 1)
        BY <1>1, <3>1, <3>3
      <4> QED BY <1>1, <3>1, <4>1
    <3> QED BY <3>2, <3>3
  <2> QED BY <2>1, <2>2
<1>4. ret' = "none"
  BY DEF Call
<1> QED BY <1>2, <1>3, <1>4, NewStackKnows DEF PromiseInv, Answered

LEMMA ReturnKnows ==
    ASSUME TypeInv, KnownInv, Grows, stack # <<>>, NEW v, Return(v),
           Delivers(Top.pc, Top.file, v, Accepted', Null', Dead')
    PROVE  KnownInv' /\ PromiseInv'
<1>1. /\ stack' \in Seq(Frames) /\ Len(stack') = Len(stack) - 1 /\ Len(stack) \in Nat \ {0}
      /\ \A i \in 1..(Len(stack) - 1) : stack'[i] = stack[i]
  BY Pop DEF Return, Below, TypeInv, StackOK
<1>2. ASSUME NEW i \in 1..Len(stack') PROVE Knows(stack'[i], Accepted', Dead')
  BY <1>1, BelowKnows DEF Depth
<1>3. ASSUME NEW i \in 1..(Len(stack') - 1)
      PROVE  Waits(stack'[i], stack'[i + 1].pc, stack'[i + 1].file)
  <2>1. i \in 1..(Len(stack) - 1) /\ i + 1 \in 1..(Len(stack) - 1)
    BY <1>1
  <2> QED BY <1>1, <2>1 DEF KnownInv
<1>4. KnownInv'
  BY <1>2, <1>3, NewStackKnows
<1>5. ASSUME stack' # <<>>
      PROVE  \E pc \in PCs, f \in Files :
                 Waits(Top, pc, f)' /\ Delivers(pc, f, ret, Accepted, Null, Dead)'
  <2>1. Len(stack) - 1 \in 1..(Len(stack) - 1) /\ Top' = stack[Len(stack) - 1]
        /\ Len(stack) - 1 + 1 = Len(stack)
    BY <1>1, <1>5 DEF Top
  <2>2. Waits(Top', Top.pc, Top.file)
    BY <2>1 DEF KnownInv, Top
  <2>3. PICK pc, f : pc = Top.pc /\ f = Top.file
    OBVIOUS
  <2>4. Waits(Top, pc, f)'
    BY <2>2, <2>3, WaitsSame DEF Grows
  <2>5. Delivers(pc, f, ret, Accepted, Null, Dead)'
    BY <2>3, DeliversSame DEF Grows, Return
  <2>6. pc \in PCs /\ f \in Files
    BY <2>3, TopTyped DEF Frames, PCs
  <2> QED BY <2>4, <2>5, <2>6
<1> QED BY <1>4, <1>5 DEF PromiseInv

-----------------------------------------------------------------------------
(* Activations as they start, and the answers they get.                    *)

LEMMA NamesNat == Names \subseteq Nat
BY NamesAssumption DEF Names

LEMMA ListingNat == ASSUME NEW p PROVE Listing(p) \subseteq Nat /\ Listing(p) \subseteq Names
BY NamesNat DEF Listing

\* a loop that goes on with n has passed all names before it
LEMMA NextSkips ==
    ASSUME NEW p, NEW k \in Nat, NEW n, NextName(p, k, n)
    PROVE  /\ n \in Listing(p) /\ n >= k /\ NextName(p, n, n)
           /\ \A m \in Listing(p) : m < n => m < k
<1>1. n \in Listing(p) /\ n \in Nat /\ n >= k
  BY ListingNat DEF NextName
<1>2. ASSUME NEW m \in Listing(p) PROVE m \in Nat /\ (m < n => m < k) /\ (m >= n => n <= m)
  <2>1. m \in Nat
    BY ListingNat
  <2>2. m >= k => n <= m
    BY DEF NextName
  <2> QED BY <1>1, <2>1, <2>2
<1>3. NextName(p, n, n)
  BY <1>1, <1>2 DEF NextName
<1> QED BY <1>1, <1>2, <1>3

LEMMA RuleStarts ==
    ASSUME NEW pc \in {"enforce", "uprev", "check", "deps"}, NEW f, NEW e,
           e = "NO_HASH" => ~WithHashes, NEW S, NEW D
    PROVE  /\ Knows(Rule(pc, f, e), S, D)
           /\ Rule(pc, f, e).pc = pc /\ Rule(pc, f, e).file = f
BY DEF Knows, Parsed, Uprevved, Hashed, DependenciesSeen, Rule, Activation, ImportPCs, HashPCs

LEMMA HashesStart ==
    ASSUME NEW f, NEW e, e = "NO_HASH" => ~WithHashes, NEW S, NEW D,
           NEW c, c = [Rule("hashNext", f, e) EXCEPT !.k = 0]
    PROVE  Knows(c, S, D) /\ c.pc = "hashNext" /\ c.file = f
<1>1. c.pc = "hashNext" /\ c.file = f /\ c.enf = e /\ c.k = 0
  BY DEF Rule, Activation
<1>2. \A n \in Listing(f.pkg) : ~(n < 0)
  BY ListingNat
<1> QED BY <1>1, <1>2 DEF Knows, Parsed, Uprevved, Hashed, DependenciesSeen, ImportPCs, HashPCs

LEMMA ParseStarts ==
    ASSUME NEW f, NEW e, NEW g, e = "NO_HASH" => ~WithHashes, NEW S, NEW D
    PROVE  /\ Knows(Activation("find", f, e, g), S, D)
           /\ Activation("find", f, e, g).pc = "find" /\ Activation("find", f, e, g).file = f
BY DEF Knows, Parsed, Uprevved, Hashed, DependenciesSeen, Activation, ImportPCs, HashPCs

\* nothing is being built below a rule
LEMMA NothingBuilt ==
    ASSUME SafeInv, stack # <<>>, Top.pc \in RulePCs \ {"enforce"}
    PROVE  Building = {} /\ Null \subseteq Dead /\ Top.enf # "NONE"
<1>1. Top.enf # "NONE"
  BY TopFits DEF SafeInv, Fits, Framed
<1>2. ASSUME NEW d \in Depth, stack[d].pc \in BuildPCs PROVE FALSE
  <2>1. d # Len(stack)
    BY <1>2 DEF Top, BuildPCs, RulePCs
  <2>2. d \in 1..(Len(stack) - 1)
    BY <2>1 DEF Depth, SafeInv, TypeInv, StackOK
  <2> QED BY <1>1, <1>2, <2>2, BelowTop DEF SafeInv, Nested
<1>3. Building = {}
  BY <1>2 DEF Building
<1> QED BY <1>1, <1>3 DEF Null, Dead

\* what the answer of a parse means to the rule that asked for f
Settled(f) == IF ret = "ok" THEN f \in Accepted ELSE f \in Dead

LEMMA ParseAnswer ==
    ASSUME SafeInv, PromiseInv, stack # <<>>, Answered,
           Top.pc \in {"current", "last", "checked", "depsParsed"}
    PROVE  /\ Top.pc = "current" => Settled(Current(Top))
           /\ Top.pc = "last" => Settled(LastOf(Top.file.pkg, Top.j, Top.k))
           /\ Top.pc \in {"checked", "depsParsed"} => Settled(Top.file)
<1>1. PICK pc \in PCs, f \in Files :
          Waits(Top, pc, f) /\ Delivers(pc, f, ret, Accepted, Null, Dead)
  BY DEF PromiseInv
<1>2. pc \in ParsePCs
  BY <1>1 DEF Waits
<1>3. Null \subseteq Dead
  BY NothingBuilt DEF RulePCs
<1>4. Settled(f)
  BY <1>1, <1>2, <1>3 DEF Delivers, Settled, Dead
<1> QED BY <1>1, <1>4 DEF Waits

LEMMA RuleAnswer ==
    ASSUME PromiseInv, stack # <<>>, Answered
    PROVE  /\ Top.pc = "uprevs" /\ ret = "ok" => UprevFine(Top.file.pkg, Accepted, Dead)
           /\ Top.pc = "hashes" /\ ret = "ok" =>
                 \A n \in Listing(Top.file.pkg) : HashFine(File(Top.file.pkg, n), Accepted)
           /\ Top.pc = "depended" /\ ret = "ok" => DependsOnFrozen(Current(Top))
<1>1. PICK pc \in PCs, f \in Files :
          Waits(Top, pc, f) /\ Delivers(pc, f, ret, Accepted, Null, Dead)
  BY DEF PromiseInv
<1>2. CASE Top.pc = "uprevs"
  BY <1>1, <1>2 DEF Waits, Delivers
<1>3. CASE Top.pc = "hashes"
  BY <1>1, <1>3 DEF Waits, Delivers
<1>4. CASE Top.pc = "depended"
  BY <1>1, <1>4 DEF Waits, Delivers
<1> QED BY <1>2, <1>3, <1>4

Checking(f) ==
    /\ ret \in {"frozen", "unfrozen", "changed", "error"}
    /\ ret \in {"frozen", "unfrozen"} =>
          f \in Accepted /\ LookedUp(f) = IF ret = "frozen" THEN "match" ELSE "absent"

LEMMA CheckAnswer ==
    ASSUME PromiseInv, stack # <<>>, Answered
    PROVE  /\ Top.pc = "hashed" => Checking(Current(Top))
           /\ Top.pc = "depHashed" => Checking(File(Top.at, Top.j))
<1>1. PICK pc \in PCs, f \in Files :
          Waits(Top, pc, f) /\ Delivers(pc, f, ret, Accepted, Null, Dead)
  BY DEF PromiseInv
<1>2. CASE Top.pc = "hashed"
  BY <1>1, <1>2 DEF Waits, Delivers, Checking
<1>3. CASE Top.pc = "depHashed"
  BY <1>1, <1>3 DEF Waits, Delivers, Checking
<1> QED BY <1>2, <1>3

-----------------------------------------------------------------------------
(* Steps of the rules: what they do to the stack, and what is known after. *)

OnRules ==
    \/ \E t : Goto(t) /\ t.pc \in RulePCs /\ t.file = Top.file
    \/ \E t, c : /\ Call(t, c) /\ t.pc \in RulePCs /\ t.file = Top.file
                 /\ c.pc \in RulePCs \cup {"find"} /\ Top.enf # "NONE"
    \/ \E v : Return(v) /\ (Top.pc = "enforce" /\ Top.enf = "NONE" => v = "ok")

Learns == Grows => KnownInv' /\ PromiseInv'
Moves == OnRules /\ Learns

LEMMA TopKnows ==
    ASSUME TypeInv, KnownInv, stack # <<>>
    PROVE  Knows(Top, Accepted, Dead) /\ (Top.enf = "NO_HASH" => ~WithHashes)
<1>1. Len(stack) \in Depth
  BY DEF TypeInv, StackOK, Depth
<1>2. Knows(Top, Accepted, Dead)
  BY <1>1 DEF KnownInv, Top
<1> QED BY <1>2 DEF Knows, Hashed

LEMMA GotoMoves ==
    ASSUME SafeInv, KnownInv, stack # <<>>,
           NEW t, Goto(t), t.pc \in RulePCs, Continues(t), Knows(t, Accepted, Dead)
    PROVE  Moves
<1>1. OnRules
  BY DEF OnRules, Continues
<1>2. Grows => Knows(t, Accepted', Dead')
  BY KnowsMore DEF Grows
<1> QED BY <1>1, <1>2, GotoKnows DEF SafeInv, Moves, Learns

LEMMA CallMoves ==
    ASSUME SafeInv, KnownInv, stack # <<>>, Top.enf # "NONE",
           NEW t, NEW c, Call(t, c), t.pc \in RulePCs, Continues(t), Knows(t, Accepted, Dead),
           c.pc \in RulePCs \cup {"find"}, Knows(c, Accepted, Dead), Waits(t, c.pc, c.file)
    PROVE  Moves
<1>1. OnRules
  BY DEF OnRules, Continues
<1>2. Grows => Knows(t, Accepted', Dead') /\ Knows(c, Accepted', Dead')
  BY KnowsMore DEF Grows
<1> QED BY <1>1, <1>2, CallKnows DEF SafeInv, Moves, Learns

LEMMA DeliversMore ==
    ASSUME NEW pc, NEW f, NEW v, NEW S, NEW T, S \subseteq T, NEW N, NEW D, NEW E, D \subseteq E,
           Delivers(pc, f, v, S, N, D)
    PROVE  Delivers(pc, f, v, T, N, E)
BY UprevFineMore, HashFineMore DEF Delivers

LEMMA ReturnMoves ==
    ASSUME SafeInv, KnownInv, stack # <<>>, cache' = cache,
           NEW v, Return(v), Top.pc = "enforce" /\ Top.enf = "NONE" => v = "ok",
           Delivers(Top.pc, Top.file, v, Accepted, Null, Dead)
    PROVE  Moves
<1>1. OnRules
  BY DEF OnRules
<1>2. Null' = Null
  BY DEF Null
<1>3. Grows => Delivers(Top.pc, Top.file, v, Accepted', Null', Dead')
  BY <1>2, DeliversMore DEF Grows
<1> QED BY <1>1, <1>3, ReturnKnows DEF SafeInv, Moves, Learns

\* what the parse of a file is not
LEMMA RuleDelivers ==
    ASSUME NEW pc \in Enforcers, NEW f, NEW v, NEW S, NEW N, NEW D
    PROVE  Delivers(pc, f, v, S, N, D)
BY DEF Delivers, Enforcers, ParsePCs, UprevPCs, HashPCs, CheckPCs, DepPCs

LEMMA EnforceMoves == ASSUME SafeInv, KnownInv, Enforce PROVE Moves
<1> DEFINE t == [Top EXCEPT !.pc = "uprevs"]
           c == Rule("uprev", Top.file, Top.enf)
<1>1. stack # <<>> /\ Top.pc = "enforce" /\ cache' = cache
  BY DEF Enforce, At, files
<1>2. CASE Return("ok")
  BY <1>1, <1>2, RuleDelivers, ReturnMoves DEF Enforcers
<1>3. CASE Top.enf # "NONE" /\ Call(t, c)
  <2>1. t.pc = "uprevs" /\ t.file = Top.file /\ t.enf = Top.enf
    BY <1>1, TopTyped DEF SafeInv, Frames
  <2>2. Knows(c, Accepted, Dead) /\ c.pc = "uprev" /\ c.file = Top.file
    BY <1>1, TopKnows, RuleStarts DEF SafeInv
  <2> HIDE DEF t, c
  <2>3. Knows(t, Accepted, Dead)
    BY <1>1, <2>1, TopKnows
       DEF SafeInv, Knows, Parsed, Uprevved, Hashed, DependenciesSeen, ImportPCs, HashPCs
  <2>4. Continues(t) /\ Waits(t, c.pc, c.file)
    BY <1>1, <2>1, <2>2 DEF Continues, Waits, ParsePCs, Enforcers, UprevPCs, HashPCs, CheckPCs, DepPCs
  <2> QED BY <1>1, <1>3, <2>1, <2>2, <2>3, <2>4, CallMoves DEF RulePCs
<1> QED BY <1>2, <1>3 DEF Enforce

LEMMA UprevsEnforcedMoves == ASSUME SafeInv, KnownInv, PromiseInv, UprevsEnforced PROVE Moves
<1> DEFINE t == [Top EXCEPT !.pc = "hashes"]
           c == [Rule("hashNext", Top.file, Top.enf) EXCEPT !.k = 0]
<1>1. stack # <<>> /\ Top.pc = "uprevs" /\ cache' = cache /\ Answered
  BY DEF UprevsEnforced, Resumed, files
<1>2. CASE \E v : Return(v)
  BY <1>1, <1>2, RuleDelivers, ReturnMoves DEF Enforcers
<1>3. CASE ret = "ok" /\ Call(t, c)
  <2>1. t.pc = "hashes" /\ t.file = Top.file /\ t.enf = Top.enf
    BY <1>1, TopTyped DEF SafeInv, Frames
  <2>6. Top.enf = "NO_HASH" => ~WithHashes
    BY <1>1, TopKnows DEF SafeInv
  <2>2. Knows(c, Accepted, Dead) /\ c.pc = "hashNext" /\ c.file = Top.file
    BY <2>6, HashesStart
  <2>3. Top.enf # "NONE"
    BY <1>1, NothingBuilt DEF RulePCs
  <2> HIDE DEF t, c
  <2>4. Knows(t, Accepted, Dead)
    <3>1. UprevFine(t.file.pkg, Accepted, Dead)
      BY <1>1, <1>3, <2>1, RuleAnswer
    <3> QED BY <1>1, <2>1, <3>1, TopKnows
       DEF SafeInv, Knows, Parsed, Uprevved, Hashed, DependenciesSeen, ImportPCs, HashPCs
  <2>5. Continues(t) /\ Waits(t, c.pc, c.file)
    BY <1>1, <2>1, <2>2 DEF Continues, Waits, ParsePCs, Enforcers, UprevPCs, HashPCs, CheckPCs, DepPCs
  <2> QED BY <1>1, <1>3, <2>1, <2>2, <2>3, <2>4, <2>5, CallMoves DEF RulePCs
<1> QED BY <1>2, <1>3 DEF UprevsEnforced

LEMMA HashesEnforcedMoves == ASSUME SafeInv, KnownInv, HashesEnforced PROVE Moves
<1>1. stack # <<>> /\ Top.pc = "hashes" /\ cache' = cache
  BY DEF HashesEnforced, Resumed, files
<1>2. \E v : Return(v)
  BY DEF HashesEnforced
<1> QED BY <1>1, <1>2, RuleDelivers, ReturnMoves DEF Enforcers

LEMMA UprevMoves == ASSUME SafeInv, KnownInv, Uprev PROVE Moves
<1> DEFINE t == [Top EXCEPT !.pc = "uprevNext"]
           p == Top.file.pkg
<1>1. stack # <<>> /\ Top.pc = "uprev" /\ cache' = cache
  BY DEF Uprev, At, files
<1>2. CASE Return("error")
  <2>1. Delivers(Top.pc, Top.file, "error", Accepted, Null, Dead)
    BY <1>1 DEF Delivers, ParsePCs, UprevPCs, HashPCs, CheckPCs, DepPCs
  <2> QED BY <1>1, <1>2, <2>1, ReturnMoves
<1>3. CASE Return("ok") /\ (Earlier(p) = {} \/ (PrevPackage(p) \in Earlier(p) /\ IsTypesOnly(PrevPackage(p))))
  <2>1. Delivers(Top.pc, Top.file, "ok", Accepted, Null, Dead)
    BY <1>1, <1>3 DEF Delivers, ParsePCs, UprevPCs, HashPCs, CheckPCs, DepPCs, UprevFine
  <2> QED BY <1>1, <1>3, <2>1, ReturnMoves
<1>4. CASE PrevPackage(p) \in Earlier(p) /\ Goto(t)
  <2>1. t.pc = "uprevNext" /\ t.file = Top.file /\ t.enf = Top.enf /\ t.k = Top.k /\ t.flag = Top.flag
    BY <1>1, TopTyped DEF SafeInv, Frames
  <2> HIDE DEF t
  <2>2. Top.k = 1 /\ ~Top.flag
    BY <1>1, TopKnows DEF SafeInv, Knows, Uprevved
  <2>3. \A n \in Listing(p) \ {Types} : ~(n < 1)
    BY ListingNat DEF Types
  <2>4. Knows(t, Accepted, Dead)
    BY <1>1, <1>4, <2>1, <2>2, <2>3, TopKnows
       DEF SafeInv, Knows, Parsed, Uprevved, Hashed, DependenciesSeen, ImportPCs, HashPCs
  <2>5. Continues(t)
    BY <1>1, <2>1 DEF Continues, ParsePCs, Enforcers, UprevPCs, HashPCs, CheckPCs, DepPCs
  <2> QED BY <1>1, <1>4, <2>1, <2>4, <2>5, GotoMoves DEF RulePCs
<1> QED BY <1>2, <1>3, <1>4 DEF Uprev

\* the loop over the interfaces of a package goes on
LEMMA NextInterfaceMoves ==
    ASSUME SafeInv, KnownInv, stack # <<>>, Top.pc \in {"current", "last"},
           NEW extended \in BOOLEAN, NextInterface(extended),
           extended => SomeFollows(Top.file.pkg, Accepted),
           NameFine(Top.file.pkg, Top.k, Accepted, Dead)
    PROVE  Moves
<1> DEFINE t == [Top EXCEPT !.pc = "uprevNext", !.k = @ + 1, !.flag = @ \/ extended]
           p == Top.file.pkg
<1>1. /\ t.pc = "uprevNext" /\ t.file = Top.file /\ t.enf = Top.enf
      /\ t.k = Top.k + 1 /\ t.flag = (Top.flag \/ extended) /\ Top.k \in Nat
  BY TopTyped DEF SafeInv, Frames
<1>2. Goto(t)
  BY DEF NextInterface
<1> HIDE DEF t
<1>3. Knows(Top, Accepted, Dead)
  BY TopKnows DEF SafeInv
<1>4. \A n \in Listing(p) \ {Types} : n < t.k => NameFine(p, n, Accepted, Dead)
  <2>1. \A n \in Listing(p) : n \in Nat
    BY ListingNat
  <2>2. \A n \in Nat : n < Top.k + 1 => n < Top.k \/ n = Top.k
    BY <1>1
  <2>3. \A n \in Listing(p) \ {Types} : n < Top.k => NameFine(p, n, Accepted, Dead)
    BY <1>3 DEF Knows, Uprevved
  <2> QED BY <1>1, <2>1, <2>2, <2>3
<1>5. Top.k >= 1 /\ t.k >= 1 /\ PrevPackage(p) \in Earlier(p)
  BY <1>1, <1>3 DEF Knows, Uprevved
<1>6. t.flag => SomeFollows(p, Accepted)
  BY <1>1, <1>3 DEF Knows, Uprevved
<1>7. Uprevved(t, Accepted, Dead)
  BY <1>1, <1>4, <1>5, <1>6 DEF Uprevved
<1>8. Knows(t, Accepted, Dead)
  BY <1>1, <1>3, <1>7 DEF Knows, Parsed, Hashed, DependenciesSeen, ImportPCs, HashPCs
<1>9. Continues(t)
  BY <1>1 DEF Continues, ParsePCs, Enforcers, UprevPCs, HashPCs, CheckPCs, DepPCs
<1> QED BY <1>1, <1>2, <1>8, <1>9, GotoMoves DEF RulePCs

LEMMA UprevNextMoves == ASSUME SafeInv, KnownInv, UprevNext PROVE Moves
<1> DEFINE p == Top.file.pkg
<1>1. stack # <<>> /\ Top.pc = "uprevNext" /\ cache' = cache
  BY DEF UprevNext, At, files
<1>2. Knows(Top, Accepted, Dead) /\ (Top.enf = "NO_HASH" => ~WithHashes)
  BY <1>1, TopKnows DEF SafeInv
<1>3. CASE Exhausted(p, Top.k) /\ Return(IF Top.flag THEN "ok" ELSE "error")
  <2>1. Top.flag => UprevFine(p, Accepted, Dead)
    BY <1>1, <1>2, <1>3 DEF Knows, Uprevved, Exhausted, UprevFine
  <2>2. Delivers(Top.pc, Top.file, IF Top.flag THEN "ok" ELSE "error", Accepted, Null, Dead)
    BY <1>1, <2>1 DEF Delivers, ParsePCs, UprevPCs, HashPCs, CheckPCs, DepPCs
  <2> QED BY <1>1, <1>3, <2>2, ReturnMoves
<1>4. ASSUME NEW n \in Names, NextName(p, Top.k, n),
             Call([Top EXCEPT !.pc = "current", !.k = n], Parse(File(p, n), Top.enf))
      PROVE  Moves
  <2> DEFINE t == [Top EXCEPT !.pc = "current", !.k = n]
             c == Parse(File(p, n), Top.enf)
  <2>1. /\ t.pc = "current" /\ t.file = Top.file /\ t.enf = Top.enf /\ t.k = n
        /\ t.flag = Top.flag /\ Top.k \in Nat /\ n \in Nat
    BY <1>1, TopTyped, NamesNat DEF SafeInv, Frames
  <2>2. Knows(c, Accepted, Dead) /\ c.pc = "find" /\ c.file = File(p, n)
    BY <1>2, ParseStarts DEF Parse
  <2>3. Call(t, c)
    BY <1>4
  <2> HIDE DEF t, c
  <2>4. n >= Top.k /\ NextName(p, n, n) /\ \A m \in Listing(p) : m < n => m < Top.k
    BY <1>4, <2>1, NextSkips
  <2>5. Top.k >= 1 /\ n >= 1
    BY <1>1, <1>2, <2>1, <2>4 DEF Knows, Uprevved
  <2>6. Uprevved(t, Accepted, Dead)
    BY <1>1, <1>2, <2>1, <2>4, <2>5 DEF Knows, Uprevved
  <2>7. Knows(t, Accepted, Dead)
    BY <1>1, <1>2, <2>1, <2>4, <2>6 DEF Knows, Parsed, Hashed, DependenciesSeen, ImportPCs, HashPCs
  <2>8. Continues(t) /\ Waits(t, c.pc, c.file)
    BY <1>1, <2>1, <2>2 DEF Continues, Waits, Current, ParsePCs, Enforcers, UprevPCs, HashPCs, CheckPCs, DepPCs
  <2>9. Top.enf # "NONE"
    BY <1>1, NothingBuilt DEF RulePCs
  <2> QED BY <1>1, <2>1, <2>2, <2>3, <2>7, <2>8, <2>9, CallMoves DEF RulePCs
<1> QED BY <1>3, <1>4 DEF UprevNext

\* the interface of the same name in the version x.m is parsed
LEMMA LastCallMoves ==
    ASSUME SafeInv, KnownInv, stack # <<>>, Top.pc \in {"current", "last"},
           Current(Top) \in Accepted, NEW m,
           \A l \in (m + 1)..(Top.file.pkg.minor - 1) :
               LastOf(Top.file.pkg, l, Top.k) \in Dead,
           NEW t, t.pc = "last" /\ t.file = Top.file /\ t.enf = Top.enf,
           t.k = Top.k /\ t.flag = Top.flag /\ t.j = m,
           Call(t, Parse(LastOf(Top.file.pkg, m, Top.k), "FULL"))
    PROVE  Moves
<1> DEFINE c == Parse(LastOf(Top.file.pkg, m, Top.k), "FULL")
<1>1. Knows(Top, Accepted, Dead)
  BY TopKnows DEF SafeInv
<1>2. Knows(c, Accepted, Dead) /\ c.pc = "find" /\ c.file = LastOf(Top.file.pkg, m, Top.k)
  BY ParseStarts DEF Parse
<1>3. Call(t, c)
  OBVIOUS
<1> HIDE DEF c
<1>4. Current(t) = Current(Top)
  BY DEF Current
<1>5. Uprevved(t, Accepted, Dead)
  BY <1>1, <1>4 DEF Knows, Uprevved
<1>6. Knows(t, Accepted, Dead)
  BY <1>1, <1>5 DEF Knows, Parsed, Hashed, DependenciesSeen, ImportPCs, HashPCs
<1>7. Continues(t) /\ Waits(t, c.pc, c.file)
  BY <1>2 DEF Continues, Waits, ParsePCs, Enforcers, UprevPCs, HashPCs, CheckPCs, DepPCs
<1>8. Top.enf # "NONE"
  BY NothingBuilt DEF RulePCs
<1> QED BY <1>2, <1>3, <1>6, <1>7, <1>8, CallMoves DEF RulePCs

LEMMA CurrentParsedMoves == ASSUME SafeInv, KnownInv, PromiseInv, CurrentParsed PROVE Moves
<1> DEFINE p == Top.file.pkg
           t == [Top EXCEPT !.pc = "last", !.j = p.minor - 1]
<1>1. stack # <<>> /\ Top.pc = "current" /\ Answered
  BY DEF CurrentParsed, Resumed
<1>2. Settled(Current(Top)) /\ Current(Top) = File(p, Top.k)
  BY <1>1, ParseAnswer DEF Current
<1>3. CASE (ret # "ok" \/ SuperOf(File(p, Top.k)) = NoFile) /\ NextInterface(FALSE)
  <2>1. NameFine(p, Top.k, Accepted, Dead)
    BY <1>2, <1>3 DEF Settled, NameFine
  <2> QED BY <1>1, <1>3, <2>1, NextInterfaceMoves
<1>4. CASE ret = "ok" /\ Call(t, Parse(LastOf(p, p.minor - 1, Top.k), "FULL"))
  <2>1. /\ t.pc = "last" /\ t.file = Top.file /\ t.enf = Top.enf
        /\ t.k = Top.k /\ t.flag = Top.flag /\ t.j = p.minor - 1
    BY <1>1, TopTyped DEF SafeInv, Frames
  <2>2. p.minor \in Nat
    BY <1>1, TopTyped, PackagesAssumption DEF SafeInv
  <2> HIDE DEF t
  <2>3. (p.minor - 1 + 1)..(p.minor - 1) = {}
    BY <2>2
  <2> QED BY <1>1, <1>2, <1>4, <2>1, <2>3, LastCallMoves DEF Settled
<1> QED BY <1>3, <1>4 DEF CurrentParsed

LEMMA LastParsedMoves == ASSUME SafeInv, KnownInv, PromiseInv, LastParsed PROVE Moves
<1> DEFINE p == Top.file.pkg
           last == LastOf(p, Top.j, Top.k)
           t == [Top EXCEPT !.j = @ - 1]
<1>1. stack # <<>> /\ Top.pc = "last" /\ Answered /\ cache' = cache
  BY DEF LastParsed, Resumed, files
<1>2. Settled(last)
  BY <1>1, ParseAnswer
<1>3. /\ Current(Top) \in Accepted /\ Current(Top) = File(p, Top.k)
      /\ \A l \in (Top.j + 1)..(p.minor - 1) : LastOf(p, l, Top.k) \in Dead
  BY <1>1, TopKnows DEF SafeInv, Knows, Uprevved, Current
<1>4. Top.j \in 0..(p.minor - 1) /\ p.minor \in Nat /\ Top.k \in Names
  BY <1>1, TopTyped, PackagesAssumption DEF SafeInv, FrameOK
<1>5. CASE ret # "ok" /\ Top.j > 0 /\ Call(t, Parse(LastOf(p, Top.j - 1, Top.k), "FULL"))
  <2>1. /\ t.pc = "last" /\ t.file = Top.file /\ t.enf = Top.enf
        /\ t.k = Top.k /\ t.flag = Top.flag /\ t.j = Top.j - 1
    BY <1>1, TopTyped DEF SafeInv, Frames
  <2> HIDE DEF t
  <2>2. \A l \in (Top.j - 1 + 1)..(p.minor - 1) : l = Top.j \/ l \in (Top.j + 1)..(p.minor - 1)
    BY <1>4
  <2>3. \A l \in (Top.j - 1 + 1)..(p.minor - 1) : LastOf(p, l, Top.k) \in Dead
    BY <1>2, <1>3, <1>5, <2>2 DEF Settled
  <2> QED BY <1>1, <1>3, <1>5, <2>1, <2>3, LastCallMoves
<1>6. CASE ret # "ok" /\ Top.j = 0 /\ NextInterface(FALSE)
  <2>1. \A l \in 0..(p.minor - 1) : l = Top.j \/ l \in (Top.j + 1)..(p.minor - 1)
    BY <1>4, <1>6
  <2>2. NameFine(p, Top.k, Accepted, Dead)
    BY <1>2, <1>3, <1>6, <2>1 DEF Settled, NameFine
  <2> QED BY <1>1, <1>6, <2>2, NextInterfaceMoves
<1>7. CASE Return("error")
  <2>1. Delivers(Top.pc, Top.file, "error", Accepted, Null, Dead)
    BY <1>1 DEF Delivers, ParsePCs, UprevPCs, HashPCs, CheckPCs, DepPCs
  <2> QED BY <1>1, <1>7, <2>1, ReturnMoves
<1>8. CASE ret = "ok" /\ SuperOf(File(p, Top.k)) = last /\ NextInterface(Top.j = p.minor - 1)
  <2>1. Follows(p, Top.k, Top.j, Accepted, Dead)
    BY <1>2, <1>3, <1>8 DEF Settled, Follows
  <2>2. NameFine(p, Top.k, Accepted, Dead)
    BY <1>3, <1>4, <2>1 DEF NameFine
  <2>3. Top.j = p.minor - 1 => SomeFollows(p, Accepted)
    BY <1>3, <1>4, <2>1 DEF Follows, SomeFollows
  <2> QED BY <1>1, <1>8, <2>2, <2>3, NextInterfaceMoves
<1> QED BY <1>5, <1>6, <1>7, <1>8 DEF LastParsed

\* the loop over the files of a package goes on
LEMMA NextFileMoves ==
    ASSUME SafeInv, KnownInv, stack # <<>>, Top.pc \in {"hashed", "depended"},
           Goto([Top EXCEPT !.pc = "hashNext", !.k = @ + 1]),
           HashFine(Current(Top), Accepted)
    PROVE  Moves
<1> DEFINE t == [Top EXCEPT !.pc = "hashNext", !.k = @ + 1]
           p == Top.file.pkg
<1>1. /\ t.pc = "hashNext" /\ t.file = Top.file /\ t.enf = Top.enf
      /\ t.k = Top.k + 1 /\ t.flag = Top.flag /\ Top.k \in Nat
  BY TopTyped DEF SafeInv, Frames
<1>2. Goto(t)
  OBVIOUS
<1> HIDE DEF t
<1>3. Knows(Top, Accepted, Dead)
  BY TopKnows DEF SafeInv
<1>4. \A n \in Listing(p) : n < t.k => HashFine(File(p, n), Accepted)
  <2>1. \A n \in Listing(p) : n \in Nat
    BY ListingNat
  <2>2. \A n \in Nat : n < Top.k + 1 => n < Top.k \/ n = Top.k
    BY <1>1
  <2>3. \A n \in Listing(p) : n < Top.k => HashFine(File(p, n), Accepted)
    BY <1>3 DEF Knows, Hashed, HashPCs
  <2> QED BY <1>1, <2>1, <2>2, <2>3 DEF Current
<1>5. Hashed(t, Accepted)
  BY <1>1, <1>3, <1>4 DEF Knows, Hashed, HashPCs
<1>6. Knows(t, Accepted, Dead)
  BY <1>1, <1>3, <1>5 DEF Knows, Parsed, Uprevved, DependenciesSeen, ImportPCs
<1>7. Continues(t)
  BY <1>1 DEF Continues, ParsePCs, Enforcers, UprevPCs, HashPCs, CheckPCs, DepPCs
<1> QED BY <1>1, <1>2, <1>6, <1>7, GotoMoves DEF RulePCs

LEMMA HashNextMoves == ASSUME SafeInv, KnownInv, HashNext PROVE Moves
<1> DEFINE p == Top.file.pkg
<1>1. stack # <<>> /\ Top.pc = "hashNext" /\ cache' = cache
  BY DEF HashNext, At, files
<1>2. Knows(Top, Accepted, Dead) /\ (Top.enf = "NO_HASH" => ~WithHashes)
  BY <1>1, TopKnows DEF SafeInv
<1>3. CASE Exhausted(p, Top.k) /\ Return("ok")
  <2>1. \A n \in Listing(p) : HashFine(File(p, n), Accepted)
    BY <1>1, <1>2, <1>3 DEF Knows, Hashed, HashPCs, Exhausted
  <2>2. Delivers(Top.pc, Top.file, "ok", Accepted, Null, Dead)
    BY <1>1, <2>1 DEF Delivers, ParsePCs, UprevPCs, HashPCs, CheckPCs, DepPCs
  <2> QED BY <1>1, <1>3, <2>2, ReturnMoves
<1>4. ASSUME NEW n \in Names, NextName(p, Top.k, n),
             Call([Top EXCEPT !.pc = "hashed", !.k = n], Rule("check", File(p, n), "FULL"))
      PROVE  Moves
  <2> DEFINE t == [Top EXCEPT !.pc = "hashed", !.k = n]
             c == Rule("check", File(p, n), "FULL")
  <2>1. /\ t.pc = "hashed" /\ t.file = Top.file /\ t.enf = Top.enf /\ t.k = n
        /\ t.flag = Top.flag /\ Top.k \in Nat /\ n \in Nat
    BY <1>1, TopTyped, NamesNat DEF SafeInv, Frames
  <2>2. Knows(c, Accepted, Dead) /\ c.pc = "check" /\ c.file = File(p, n)
    BY RuleStarts
  <2>3. Call(t, c)
    BY <1>4
  <2> HIDE DEF t, c
  <2>4. NextName(p, n, n) /\ \A m \in Listing(p) : m < n => m < Top.k
    BY <1>4, <2>1, NextSkips
  <2>5. Hashed(t, Accepted)
    BY <1>1, <1>2, <2>1, <2>4 DEF Knows, Hashed, HashPCs
  <2>6. Knows(t, Accepted, Dead)
    BY <1>1, <1>2, <2>1, <2>5 DEF Knows, Parsed, Uprevved, DependenciesSeen, ImportPCs
  <2>7. Continues(t) /\ Waits(t, c.pc, c.file)
    BY <1>1, <2>1, <2>2 DEF Continues, Waits, Current, ParsePCs, Enforcers, UprevPCs, HashPCs, CheckPCs, DepPCs
  <2>8. Top.enf # "NONE"
    BY <1>1, NothingBuilt DEF RulePCs
  <2> QED BY <1>1, <2>1, <2>2, <2>3, <2>6, <2>7, <2>8, CallMoves DEF RulePCs
<1> QED BY <1>3, <1>4 DEF HashNext

LEMMA HashCheckedMoves == ASSUME SafeInv, KnownInv, PromiseInv, HashChecked PROVE Moves
<1> DEFINE t == [Top EXCEPT !.pc = "depended"]
           c == Rule("deps", File(Top.file.pkg, Top.k), "FULL")
<1>1. stack # <<>> /\ Top.pc = "hashed" /\ cache' = cache /\ Answered
  BY DEF HashChecked, Resumed, files
<1>2. Checking(Current(Top))
  BY <1>1, CheckAnswer
<1>3. CASE Return("error")
  <2>1. Delivers(Top.pc, Top.file, "error", Accepted, Null, Dead)
    BY <1>1 DEF Delivers, ParsePCs, UprevPCs, HashPCs, CheckPCs, DepPCs
  <2> QED BY <1>1, <1>3, <2>1, ReturnMoves
<1>4. CASE ret = "unfrozen" /\ Goto([Top EXCEPT !.pc = "hashNext", !.k = @ + 1])
  <2>1. HashFine(Current(Top), Accepted)
    BY <1>2, <1>4 DEF Checking, HashFine
  <2> QED BY <1>1, <1>4, <2>1, NextFileMoves
<1>5. CASE ret = "frozen" /\ Call(t, c)
  <2>1. /\ t.pc = "depended" /\ t.file = Top.file /\ t.enf = Top.enf /\ t.k = Top.k
        /\ t.flag = Top.flag
    BY <1>1, TopTyped DEF SafeInv, Frames
  <2>2. Knows(c, Accepted, Dead) /\ c.pc = "deps" /\ c.file = Current(Top)
    BY RuleStarts DEF Current
  <2> HIDE DEF t, c
  <2>3. Knows(Top, Accepted, Dead)
    BY <1>1, TopKnows DEF SafeInv
  <2>4. Current(Top) \in Accepted /\ LookedUp(Current(Top)) = "match"
    BY <1>2, <1>5 DEF Checking
  <2>5. Hashed(t, Accepted)
    BY <1>1, <2>1, <2>3, <2>4 DEF Knows, Hashed, HashPCs, Current
  <2>6. Knows(t, Accepted, Dead)
    BY <1>1, <2>1, <2>3, <2>5 DEF Knows, Parsed, Uprevved, DependenciesSeen, ImportPCs
  <2>7. Continues(t) /\ Waits(t, c.pc, c.file)
    BY <1>1, <2>1, <2>2 DEF Continues, Waits, Current, ParsePCs, Enforcers, UprevPCs, HashPCs, CheckPCs, DepPCs
  <2>8. Top.enf # "NONE"
    BY <1>1, NothingBuilt DEF RulePCs
  <2> QED BY <1>1, <1>5, <2>1, <2>2, <2>6, <2>7, <2>8, CallMoves DEF RulePCs
<1> QED BY <1>3, <1>4, <1>5 DEF HashChecked

LEMMA DependenciesCheckedMoves ==
    ASSUME SafeInv, KnownInv, PromiseInv, DependenciesChecked
    PROVE  Moves
<1>1. stack # <<>> /\ Top.pc = "depended" /\ cache' = cache /\ Answered
  BY DEF DependenciesChecked, Resumed, files
<1>2. CASE Return("error")
  <2>1. Delivers(Top.pc, Top.file, "error", Accepted, Null, Dead)
    BY <1>1 DEF Delivers, ParsePCs, UprevPCs, HashPCs, CheckPCs, DepPCs
  <2> QED BY <1>1, <1>2, <2>1, ReturnMoves
<1>3. CASE ret = "ok" /\ Goto([Top EXCEPT !.pc = "hashNext", !.k = @ + 1])
  <2>1. DependsOnFrozen(Current(Top))
    BY <1>1, <1>3, RuleAnswer
  <2>2. Current(Top) \in Accepted /\ LookedUp(Current(Top)) = "match"
    BY <1>1, TopKnows DEF SafeInv, Knows, Hashed
  <2>3. HashFine(Current(Top), Accepted)
    BY <2>1, <2>2 DEF HashFine
  <2> QED BY <1>1, <1>3, <2>3, NextFileMoves
<1> QED BY <1>2, <1>3 DEF DependenciesChecked


LEMMA CheckMoves == ASSUME SafeInv, KnownInv, Check PROVE Moves
<1> DEFINE t == [Top EXCEPT !.pc = "checked"]
           c == Parse(Top.file, "FULL")
<1>1. stack # <<>> /\ Top.pc = "check" /\ Call(t, c)
  BY DEF Check, At
<1>2. t.pc = "checked" /\ t.file = Top.file /\ t.enf = Top.enf /\ t.flag = Top.flag
  BY <1>1, TopTyped DEF SafeInv, Frames
<1>3. Knows(c, Accepted, Dead) /\ c.pc = "find" /\ c.file = Top.file
  BY ParseStarts DEF Parse
<1> HIDE DEF t, c
<1>4. Knows(t, Accepted, Dead)
  BY <1>1, <1>2, TopKnows
     DEF SafeInv, Knows, Parsed, Uprevved, Hashed, DependenciesSeen, ImportPCs, HashPCs
<1>5. Continues(t) /\ Waits(t, c.pc, c.file)
  BY <1>1, <1>2, <1>3 DEF Continues, Waits, ParsePCs, Enforcers, UprevPCs, HashPCs, CheckPCs, DepPCs
<1>6. Top.enf # "NONE"
  BY <1>1, NothingBuilt DEF RulePCs
<1> QED BY <1>1, <1>2, <1>3, <1>4, <1>5, <1>6, CallMoves DEF RulePCs

LEMMA CheckedMoves == ASSUME SafeInv, KnownInv, PromiseInv, Checked PROVE Moves
<1> DEFINE f == Top.file
<1>1. stack # <<>> /\ Top.pc = "checked" /\ Answered /\ cache' = cache
  BY DEF Checked, Resumed
<1>2. Settled(f)
  BY <1>1, ParseAnswer
<1>3. LookedUp(f) \in {"absent", "match", "mismatch"}
  BY <1>1, RepoTyped, TopTyped DEF SafeInv, TypeInv, TypeOK, IsRepo, LookedUp
<1>4. ASSUME NEW v, Return(v), v \in {"changed", "error"} PROVE Moves
  <2>1. Delivers(Top.pc, f, v, Accepted, Null, Dead)
    BY <1>1, <1>4 DEF Delivers, ParsePCs, UprevPCs, HashPCs, CheckPCs, DepPCs
  <2> QED BY <1>1, <1>4, <2>1, ReturnMoves
<1>5. ASSUME NEW v, Return(v), ret = "ok", v \in {"frozen", "unfrozen"},
             LookedUp(f) = IF v = "frozen" THEN "match" ELSE "absent"
      PROVE  Moves
  <2>1. f \in Accepted
    BY <1>2, <1>5 DEF Settled
  <2>2. Delivers(Top.pc, f, v, Accepted, Null, Dead)
    BY <1>1, <1>5, <2>1 DEF Delivers, ParsePCs, UprevPCs, HashPCs, CheckPCs, DepPCs
  <2> QED BY <1>1, <1>5, <2>2, ReturnMoves
<1>6. \/ \E v \in {"changed", "error"} : Return(v)
      \/ ret = "ok" /\ Return("unfrozen") /\ LookedUp(f) = "absent"
      \/ ret = "ok" /\ Return("frozen") /\ LookedUp(f) \notin {"absent", "mismatch"}
  BY DEF Checked
<1> QED BY <1>3, <1>4, <1>5, <1>6

LEMMA DependenciesMoves == ASSUME SafeInv, KnownInv, Dependencies PROVE Moves
<1> DEFINE t == [Top EXCEPT !.pc = "depsParsed"]
           c == Parse(Top.file, "FULL")
<1>1. stack # <<>> /\ Top.pc = "deps" /\ Call(t, c)
  BY DEF Dependencies, At
<1>2. t.pc = "depsParsed" /\ t.file = Top.file /\ t.enf = Top.enf /\ t.flag = Top.flag
  BY <1>1, TopTyped DEF SafeInv, Frames
<1>3. Knows(c, Accepted, Dead) /\ c.pc = "find" /\ c.file = Top.file
  BY ParseStarts DEF Parse
<1> HIDE DEF t, c
<1>4. Knows(t, Accepted, Dead)
  BY <1>1, <1>2, TopKnows
     DEF SafeInv, Knows, Parsed, Uprevved, Hashed, DependenciesSeen, ImportPCs, HashPCs
<1>5. Continues(t) /\ Waits(t, c.pc, c.file)
  BY <1>1, <1>2, <1>3 DEF Continues, Waits, ParsePCs, Enforcers, UprevPCs, HashPCs, CheckPCs, DepPCs
<1>6. Top.enf # "NONE"
  BY <1>1, NothingBuilt DEF RulePCs
<1> QED BY <1>1, <1>2, <1>3, <1>4, <1>5, <1>6, CallMoves DEF RulePCs

\* the answer of the search for unfrozen dependencies
LEMMA DependencyReturns ==
    ASSUME SafeInv, KnownInv, stack # <<>>, cache' = cache, Top.pc \in DepPCs,
           NEW v, Return(v), v = "ok" => DependsOnFrozen(Top.file)
    PROVE  Moves
<1>1. Delivers(Top.pc, Top.file, v, Accepted, Null, Dead)
  BY DEF Delivers, ParsePCs, UprevPCs, HashPCs, CheckPCs, DepPCs
<1> QED BY <1>1, ReturnMoves DEF DepPCs

\* the search goes on
LEMMA DependencyGoes ==
    ASSUME SafeInv, KnownInv, stack # <<>>, Top.pc \in DepPCs,
           NEW t, Goto(t), t.pc \in {"depsPick", "depsNext"}, t.file = Top.file,
           t.enf = Top.enf, DependenciesSeen(t)
    PROVE  Moves
<1>1. Knows(t, Accepted, Dead)
  BY TopKnows DEF SafeInv, Knows, Parsed, Uprevved, Hashed, ImportPCs, HashPCs
<1>2. Continues(t)
  BY DEF Continues, ParsePCs, Enforcers, UprevPCs, HashPCs, CheckPCs, DepPCs
<1> QED BY <1>1, <1>2, GotoMoves DEF RulePCs

LEMMA DependenciesParsedMoves == ASSUME SafeInv, KnownInv, DependenciesParsed PROVE Moves
<1> DEFINE t == [Top EXCEPT !.pc = "depsPick", !.todo = ImportedPackages(Top.file)]
<1>1. stack # <<>> /\ Top.pc = "depsParsed" /\ cache' = cache
  BY DEF DependenciesParsed, Resumed, files
<1>2. CASE Return("error")
  BY <1>1, <1>2, DependencyReturns DEF DepPCs
<1>3. CASE Goto(t)
  <2>1. /\ t.pc = "depsPick" /\ t.file = Top.file /\ t.enf = Top.enf
        /\ t.todo = ImportedPackages(Top.file)
    BY <1>1, TopTyped DEF SafeInv, Frames
  <2> HIDE DEF t
  <2> QED BY <1>1, <1>3, <2>1, DependencyGoes DEF DependenciesSeen, DepPCs
<1> QED BY <1>2, <1>3 DEF DependenciesParsed

LEMMA DependencyPickMoves == ASSUME SafeInv, KnownInv, DependencyPick PROVE Moves
<1>1. stack # <<>> /\ Top.pc = "depsPick" /\ cache' = cache
  BY DEF DependencyPick, At, files
<1>2. ~Top.flag => \A q \in ImportedPackages(Top.file) \ Top.todo : PackageFrozen(q)
  BY <1>1, TopKnows DEF SafeInv, Knows, DependenciesSeen
<1>3. CASE Top.todo = {} /\ Return(IF Top.flag THEN "unfrozen" ELSE "ok")
  <2>1. ~Top.flag => DependsOnFrozen(Top.file)
    BY <1>2, <1>3 DEF DependsOnFrozen
  <2> QED BY <1>1, <1>3, <2>1, DependencyReturns DEF DepPCs
<1>4. CASE Return("error")
  BY <1>1, <1>4, DependencyReturns DEF DepPCs
<1>5. ASSUME NEW p \in Top.todo,
             Goto([Top EXCEPT !.pc = "depsNext", !.at = p, !.j = 0, !.todo = @ \ {p}])
      PROVE  Moves
  <2> DEFINE t == [Top EXCEPT !.pc = "depsNext", !.at = p, !.j = 0, !.todo = @ \ {p}]
  <2>1. /\ t.pc = "depsNext" /\ t.file = Top.file /\ t.enf = Top.enf /\ t.flag = Top.flag
        /\ t.at = p /\ t.j = 0 /\ t.todo = Top.todo \ {p}
    BY <1>1, TopTyped DEF SafeInv, Frames
  <2>2. Goto(t)
    BY <1>5
  <2> HIDE DEF t
  <2>3. \A n \in Listing(p) : ~(n < 0)
    BY ListingNat
  <2>4. DependenciesSeen(t)
    BY <1>2, <2>1, <2>3 DEF DependenciesSeen
  <2> QED BY <1>1, <2>1, <2>2, <2>4, DependencyGoes DEF DepPCs
<1> QED BY <1>3, <1>4, <1>5 DEF DependencyPick

LEMMA DependencyNextMoves == ASSUME SafeInv, KnownInv, DependencyNext PROVE Moves
<1> DEFINE q == Top.at
<1>1. stack # <<>> /\ Top.pc = "depsNext" /\ cache' = cache
  BY DEF DependencyNext, At, files
<1>2. Knows(Top, Accepted, Dead) /\ (Top.enf = "NO_HASH" => ~WithHashes)
  BY <1>1, TopKnows DEF SafeInv
<1>3. ~Top.flag =>
          /\ \A p \in ImportedPackages(Top.file) \ (Top.todo \cup {q}) : PackageFrozen(p)
          /\ \A n \in Listing(q) : n < Top.j => LookedUp(File(q, n)) = "match"
  BY <1>1, <1>2 DEF Knows, DependenciesSeen
<1>4. CASE Exhausted(q, Top.j) /\ Goto([Top EXCEPT !.pc = "depsPick"])
  <2> DEFINE t == [Top EXCEPT !.pc = "depsPick"]
  <2>1. /\ t.pc = "depsPick" /\ t.file = Top.file /\ t.enf = Top.enf /\ t.flag = Top.flag
        /\ t.todo = Top.todo
    BY <1>1, TopTyped DEF SafeInv, Frames
  <2>2. Goto(t)
    BY <1>4
  <2> HIDE DEF t
  <2>3. ~Top.flag => PackageFrozen(q)
    BY <1>3, <1>4 DEF Exhausted, PackageFrozen
  <2>4. DependenciesSeen(t)
    BY <1>3, <2>1, <2>3 DEF DependenciesSeen
  <2> QED BY <1>1, <2>1, <2>2, <2>4, DependencyGoes DEF DepPCs
<1>5. ASSUME NEW n \in Names, NextName(q, Top.j, n),
             Call([Top EXCEPT !.pc = "depHashed", !.j = n], Rule("check", File(q, n), "FULL"))
      PROVE  Moves
  <2> DEFINE t == [Top EXCEPT !.pc = "depHashed", !.j = n]
             c == Rule("check", File(q, n), "FULL")
  <2>1. /\ t.pc = "depHashed" /\ t.file = Top.file /\ t.enf = Top.enf /\ t.j = n
        /\ t.flag = Top.flag /\ t.todo = Top.todo /\ t.at = q /\ Top.j \in Nat
    BY <1>1, TopTyped DEF SafeInv, Frames
  <2>2. Knows(c, Accepted, Dead) /\ c.pc = "check" /\ c.file = File(q, n)
    BY RuleStarts
  <2>3. Call(t, c)
    BY <1>5
  <2> HIDE DEF t, c
  <2>4. NextName(q, n, n) /\ \A m \in Listing(q) : m < n => m < Top.j
    BY <1>5, <2>1, NextSkips
  <2>5. DependenciesSeen(t)
    BY <1>3, <2>1, <2>4 DEF DependenciesSeen
  <2>6. Knows(t, Accepted, Dead)
    BY <1>1, <1>2, <2>1, <2>5 DEF Knows, Parsed, Uprevved, Hashed, ImportPCs, HashPCs
  <2>7. Continues(t) /\ Waits(t, c.pc, c.file)
    BY <1>1, <2>1, <2>2 DEF Continues, Waits, ParsePCs, Enforcers, UprevPCs, HashPCs, CheckPCs, DepPCs
  <2>8. Top.enf # "NONE"
    BY <1>1, NothingBuilt DEF RulePCs
  <2> QED BY <1>1, <2>1, <2>2, <2>3, <2>6, <2>7, <2>8, CallMoves DEF RulePCs
<1> QED BY <1>4, <1>5 DEF DependencyNext

LEMMA DependencyHashedMoves ==
    ASSUME SafeInv, KnownInv, PromiseInv, DependencyHashed
    PROVE  Moves
<1> DEFINE q == Top.at
           t == [Top EXCEPT !.pc = "depsNext", !.j = @ + 1, !.flag = @ \/ ret = "unfrozen"]
<1>1. stack # <<>> /\ Top.pc = "depHashed" /\ cache' = cache /\ Answered
  BY DEF DependencyHashed, Resumed, files
<1>2. CASE Return("error")
  BY <1>1, <1>2, DependencyReturns DEF DepPCs
<1>3. CASE ret \notin {"changed", "error"} /\ Goto(t)
  <2>1. /\ t.pc = "depsNext" /\ t.file = Top.file /\ t.enf = Top.enf /\ t.j = Top.j + 1
        /\ t.flag = (Top.flag \/ ret = "unfrozen") /\ t.todo = Top.todo /\ t.at = q
        /\ Top.j \in Nat
    BY <1>1, TopTyped DEF SafeInv, Frames
  <2> HIDE DEF t
  <2>2. ret # "unfrozen" => LookedUp(File(q, Top.j)) = "match"
    BY <1>1, <1>3, CheckAnswer DEF Checking
  <2>3. ~Top.flag =>
            /\ \A p \in ImportedPackages(Top.file) \ (Top.todo \cup {q}) : PackageFrozen(p)
            /\ \A n \in Listing(q) : n < Top.j => LookedUp(File(q, n)) = "match"
    BY <1>1, TopKnows DEF SafeInv, Knows, DependenciesSeen
  <2>4. \A n \in Listing(q) : n < Top.j + 1 => n < Top.j \/ n = Top.j
    <3>1. \A n \in Listing(q) : n \in Nat
      BY ListingNat
    <3> QED BY <2>1, <3>1
  <2>5. DependenciesSeen(t)
    BY <2>1, <2>2, <2>3, <2>4 DEF DependenciesSeen
  <2> QED BY <1>1, <1>3, <2>1, <2>5, DependencyGoes DEF DepPCs
<1> QED BY <1>2, <1>3 DEF DependencyHashed

\* Every step of the rules moves on, and leaves what parsing keeps alone.
LEMMA RuleStepMoves ==
    ASSUME SafeInv, KnownInv, PromiseInv, RuleStep
    PROVE  /\ Moves /\ stack # <<>> /\ Top.pc \in RulePCs
           /\ UNCHANGED <<world, cache, imported, rejected>>
<1>1. CASE Enforce \/ UprevsEnforced \/ HashesEnforced
  BY <1>1, EnforceMoves, UprevsEnforcedMoves, HashesEnforcedMoves
     DEF Enforce, UprevsEnforced, HashesEnforced, At, Resumed, RulePCs, files
<1>2. CASE Uprev \/ UprevNext \/ CurrentParsed \/ LastParsed
  BY <1>2, UprevMoves, UprevNextMoves, CurrentParsedMoves, LastParsedMoves
     DEF Uprev, UprevNext, CurrentParsed, LastParsed, At, Resumed, RulePCs, files
<1>3. CASE HashNext \/ HashChecked \/ DependenciesChecked
  BY <1>3, HashNextMoves, HashCheckedMoves, DependenciesCheckedMoves
     DEF HashNext, HashChecked, DependenciesChecked, At, Resumed, RulePCs, files
<1>4. CASE Check \/ Checked
  BY <1>4, CheckMoves, CheckedMoves DEF Check, Checked, At, Resumed, RulePCs, files
<1>5. CASE Dependencies \/ DependenciesParsed \/ DependencyPick
  BY <1>5, DependenciesMoves, DependenciesParsedMoves, DependencyPickMoves
     DEF Dependencies, DependenciesParsed, DependencyPick, At, Resumed, RulePCs, files
<1>6. CASE DependencyNext \/ DependencyHashed
  BY <1>6, DependencyNextMoves, DependencyHashedMoves
     DEF DependencyNext, DependencyHashed, At, Resumed, RulePCs, files
<1> QED BY <1>1, <1>2, <1>3, <1>4, <1>5, <1>6 DEF RuleStep

-----------------------------------------------------------------------------
(* Accepted files stay accepted and dead ones dead.                        *)

\* a step of the top: it builds what it built, or a file without an entry
OnStack ==
    LET Builds(t) == t.file = Top.file
                     /\ (t.pc \in BuildPCs => Top.pc \in BuildPCs \/ cache[Top.file] = "absent")
                     /\ (t.pc \in ParsePCs <=> Top.pc \in ParsePCs)
    IN  \/ \E t : Goto(t) /\ Builds(t)
        \/ \E t, c : Call(t, c) /\ Builds(t) /\ c.pc \notin OwnPCs
        \/ \E v : Return(v)

LEMMA RulesOnStack == ASSUME OnRules, Top.pc \in RulePCs PROVE OnStack
BY DEF OnRules, OnStack, OwnPCs, BuildPCs, RulePCs, ParsePCs

LEMMA BuildingStep ==
    ASSUME TypeInv, stack # <<>>, OnStack
    PROVE  \A f \in Building' : f \in Building \/ cache[f] = "absent"
<1> SUFFICES ASSUME NEW i \in 1..Len(stack'), stack'[i].pc \in BuildPCs
             PROVE  stack'[i].file \in Building \/ cache[stack'[i].file] = "absent"
  BY DEF Building, Depth
<1>1. ASSUME NEW d \in Depth, stack[d].pc \in BuildPCs PROVE stack[d].file \in Building
  BY <1>1 DEF Building
<1>2. Len(stack) \in Nat \ {0} /\ Len(stack) \in Depth
  BY DEF TypeInv, StackOK, Depth
<1>3. ASSUME i \in 1..(Len(stack) - 1), stack'[i] = stack[i] PROVE stack[i].file \in Building
  <2>1. i \in Depth
    BY <1>2, <1>3 DEF Depth
  <2> QED BY <1>1, <1>3, <2>1
<1>4. ASSUME NEW t, stack'[i] = t, t.file = Top.file,
             t.pc \in BuildPCs => Top.pc \in BuildPCs \/ cache[Top.file] = "absent"
      PROVE  stack'[i].file \in Building \/ cache[stack'[i].file] = "absent"
  BY <1>1, <1>2, <1>4 DEF Top
<1>5. ASSUME NEW t, Goto(t), t.file = Top.file,
             t.pc \in BuildPCs => Top.pc \in BuildPCs \/ cache[Top.file] = "absent"
      PROVE  stack'[i].file \in Building \/ cache[stack'[i].file] = "absent"
  <2>1. /\ Len(stack') = Len(stack) /\ stack'[Len(stack)] = t
        /\ \A d \in 1..(Len(stack) - 1) : stack'[d] = stack[d]
    BY <1>5, ReplaceLast DEF Goto, TypeInv, StackOK
  <2>2. i = Len(stack) \/ i \in 1..(Len(stack) - 1)
    BY <1>2, <2>1
  <2> QED BY <1>3, <1>4, <1>5, <2>1, <2>2
<1>6. ASSUME NEW t, NEW c, Call(t, c), t.file = Top.file, c.pc \notin BuildPCs,
             t.pc \in BuildPCs => Top.pc \in BuildPCs \/ cache[Top.file] = "absent"
      PROVE  stack'[i].file \in Building \/ cache[stack'[i].file] = "absent"
  <2>1. /\ Len(stack') = Len(stack) + 1
        /\ stack'[Len(stack)] = t /\ stack'[Len(stack) + 1] = c
        /\ \A d \in 1..(Len(stack) - 1) : stack'[d] = stack[d]
    BY <1>6, Push DEF Call, TypeInv, StackOK
  <2>2. i = Len(stack) + 1 \/ i = Len(stack) \/ i \in 1..(Len(stack) - 1)
    BY <1>2, <2>1
  <2> QED BY <1>3, <1>4, <1>6, <2>1, <2>2
<1>7. ASSUME NEW v, Return(v)
      PROVE  stack'[i].file \in Building \/ cache[stack'[i].file] = "absent"
  <2>1. Len(stack') = Len(stack) - 1 /\ \A d \in 1..(Len(stack) - 1) : stack'[d] = stack[d]
    BY <1>7, Pop DEF Return, Below, TypeInv, StackOK
  <2> QED BY <1>3, <2>1
<1> QED BY <1>5, <1>6, <1>7 DEF OnStack, OwnPCs

LEMMA ParseStepOnStack == ASSUME SafeInv, ParseStep PROVE stack # <<>> /\ OnStack
<1>1. stack # <<>>
  BY DEF ParseStep, FindCached, FindAbsent, TypesParsed, Open, ImportName, ImportPackage,
         Imported, ImportedTypes, Reject, Accept, Enforced, At, Resumed
<1> SUFFICES OnStack
  BY <1>1
<1>2. Top \in Frames /\ Top.pc \in ParsePCs
  <2>1. Top.pc \in ParsePCs
    BY DEF ParseStep, FindCached, FindAbsent, TypesParsed, Open, ImportName, ImportPackage,
           Imported, ImportedTypes, Reject, Accept, Enforced, At, Resumed, ParsePCs
  <2> QED BY <1>1, <2>1, TopTyped DEF SafeInv
<1>3. ASSUME NEW p PROVE [Top EXCEPT !.pc = p].file = Top.file /\ [Top EXCEPT !.pc = p].pc = p
  BY <1>2 DEF Frames
<1>4. ASSUME NEW t, Goto(t), t.file = Top.file, Top.pc \in BuildPCs, t.pc \in ParsePCs
      PROVE  OnStack
  BY <1>2, <1>4 DEF OnStack
<1>5. ASSUME NEW t, NEW c, Call(t, c), t.file = Top.file, t.pc \in ParsePCs, c.pc \notin OwnPCs,
             t.pc \in BuildPCs => Top.pc \in BuildPCs \/ cache[Top.file] = "absent"
      PROVE  OnStack
  BY <1>2, <1>5 DEF OnStack
<1>6. ASSUME NEW v, Return(v) PROVE OnStack
  BY <1>6 DEF OnStack
<1>7. CASE FindCached \/ Reject \/ Enforced
  BY <1>6, <1>7 DEF FindCached, Reject, Enforced
<1>8. CASE FindAbsent
  <2>1. Parse(TypesOf(Top.file.pkg), "NONE").pc \notin OwnPCs
    BY DEF Parse, Activation, OwnPCs, BuildPCs
  <2>2. cache[Top.file] = "absent"
    BY <1>8 DEF FindAbsent
  <2>3. ASSUME NEW t, t.file = Top.file, t.pc \in ParsePCs, Goto(t) PROVE OnStack
    BY <1>2, <2>2, <2>3 DEF OnStack
  <2>4. ASSUME Call([Top EXCEPT !.pc = "types"], Parse(TypesOf(Top.file.pkg), "NONE"))
        PROVE  OnStack
    BY <1>3, <1>5, <2>1, <2>2, <2>4 DEF ParsePCs
  <2>5. ASSUME Goto([Top EXCEPT !.pc = "open"]) PROVE OnStack
    BY <1>3, <2>3, <2>5 DEF ParsePCs
  <2> QED BY <1>8, <2>4, <2>5 DEF FindAbsent
<1>9. CASE TypesParsed \/ Open
  <2>1. Top.pc \in BuildPCs
    BY <1>9 DEF TypesParsed, Open, At, Resumed, BuildPCs
  <2>2. (\E v : Return(v)) \/ \E p \in ParsePCs : Goto([Top EXCEPT !.pc = p])
    BY <1>9 DEF TypesParsed, Open, ParsePCs
  <2> QED BY <1>3, <1>4, <1>6, <2>1, <2>2
<1>10. ASSUME Top.pc \in BuildPCs, BadImport \/ GoodImport PROVE OnStack
  <2> DEFINE t == [Top EXCEPT !.pc = "import", !.k = @ + 1, !.j = 0]
             u == [Top EXCEPT !.pc = "import", !.k = @ + 1, !.j = 0, !.flag = TRUE]
  <2>1. t.file = Top.file /\ t.pc = "import" /\ u.file = Top.file /\ u.pc = "import"
    BY <1>2 DEF Frames
  <2>2. Goto(t) \/ Goto(u)
    BY <1>10 DEF BadImport, GoodImport
  <2> HIDE DEF t, u
  <2> QED BY <1>4, <1>10, <2>1, <2>2 DEF ParsePCs
<1>11. \A f, g : ParseInto(f, g).pc \notin OwnPCs
  BY DEF ParseInto, Activation, OwnPCs, BuildPCs
<1>12. CASE ImportName
  <2>1. Top.pc \in BuildPCs /\ "importing" \in ParsePCs
    BY <1>12 DEF ImportName, At, BuildPCs, ParsePCs
  <2>2. \E f, g : Call([Top EXCEPT !.pc = "importing"], ParseInto(f, g))
    BY <1>12 DEF ImportName
  <2> QED BY <1>3, <1>5, <1>11, <2>1, <2>2
<1>13. CASE ImportPackage
  <2>1. Top.pc \in BuildPCs
    BY <1>13 DEF ImportPackage, At, BuildPCs
  <2>2. ASSUME NEW n
        PROVE  /\ [Top EXCEPT !.pc = "importing", !.j = n].file = Top.file
               /\ [Top EXCEPT !.pc = "importing", !.j = n].pc \in ParsePCs
    BY <1>2 DEF Frames, ParsePCs
  <2>3. \/ BadImport \/ GoodImport
        \/ \E n, f, g : Call([Top EXCEPT !.pc = "importing", !.j = n], ParseInto(f, g))
    BY <1>13 DEF ImportPackage
  <2> QED BY <1>5, <1>10, <1>11, <2>1, <2>2, <2>3
<1>14. CASE Imported
  <2>1. Top.pc \in BuildPCs
    BY <1>14 DEF Imported, Resumed, BuildPCs
  <2>2. /\ [Top EXCEPT !.pc = "import", !.j = @ + 1].file = Top.file
        /\ [Top EXCEPT !.pc = "import", !.j = @ + 1].pc \in ParsePCs
    BY <1>2 DEF Frames, ParsePCs
  <2>3. \/ BadImport \/ GoodImport
        \/ Goto([Top EXCEPT !.pc = "import", !.j = @ + 1])
        \/ \E f, g : Call([Top EXCEPT !.pc = "importTypes"], ParseInto(f, g))
    BY <1>14 DEF Imported
  <2>4. "importTypes" \in ParsePCs
    BY DEF ParsePCs
  <2> QED BY <1>3, <1>4, <1>5, <1>10, <1>11, <2>1, <2>2, <2>3, <2>4
<1>15. CASE ImportedTypes
  BY <1>10, <1>15 DEF ImportedTypes, Resumed, BuildPCs
<1>16. CASE Accept
  <2>1. Rule("enforce", Top.file, Top.enf).pc \notin OwnPCs
    BY DEF Rule, Activation, OwnPCs, BuildPCs
  <2>2. Top.pc \in BuildPCs /\ "enforcing" \in ParsePCs
    BY <1>16 DEF Accept, At, BuildPCs, ParsePCs
  <2>3. Call([Top EXCEPT !.pc = "enforcing"], Rule("enforce", Top.file, Top.enf))
    BY <1>16 DEF Accept
  <2> QED BY <1>3, <1>5, <2>1, <2>2, <2>3
<1> QED BY <1>1, <1>7, <1>8, <1>9, <1>12, <1>13, <1>14, <1>15, <1>16 DEF ParseStep

\* the stack of a step that is main's, or none
LEMMA DriverStack ==
    ASSUME TypeInv, Driver \/ Terminated \/ UNCHANGED vars
    PROVE  /\ UNCHANGED <<tree, queue, files, rules>>
           /\ \/ stack' = stack /\ (ret' = ret \/ stack = <<>>)
              \/ stack = <<>> /\ turn < Len(queue) /\ ret = "none" /\ ret' = "none"
                 /\ stack' = <<Parse(queue[turn + 1].file, queue[turn + 1].enf)>>
<1>1. CASE Request
  BY <1>1, RequestsAssumption DEF Request, Idle, Answered, files, rules
<1>2. CASE Generated
  BY <1>2 DEF Generated, Idle, files, rules, world
<1>3. CASE Fail \/ Finish \/ Abort \/ Terminated \/ UNCHANGED vars
  BY <1>3 DEF Fail, Finish, Abort, Terminated, vars, files, rules
<1> QED BY <1>1, <1>2, <1>3 DEF Driver

LEMMA BuildingAfter ==
    ASSUME SafeInv, KnownInv, PromiseInv, [Next]_vars
    PROVE  \A f \in Building' : f \in Building \/ cache[f] = "absent"
<1>1. CASE ParseStep
  BY <1>1, ParseStepOnStack, BuildingStep DEF SafeInv
<1>2. CASE RuleStep
  BY <1>2, RuleStepMoves, RulesOnStack, BuildingStep DEF SafeInv, Moves
<1>3. CASE Driver \/ Terminated \/ UNCHANGED vars
  <2>1. CASE stack' = stack
    BY <2>1 DEF Building, Depth
  <2>2. ASSUME NEW f, NEW e, stack' = <<Parse(f, e)>> PROVE Building' = {}
    BY <2>2 DEF Building, Depth, Parse, Activation, BuildPCs
  <2> QED BY <1>3, <2>1, <2>2, DriverStack DEF SafeInv
<1> QED BY <1>1, <1>2, <1>3 DEF Next

\* a null entry that is not a leftover of the recursion is final
LEMMA NullStays ==
    ASSUME SafeInv, KnownInv, PromiseInv, [Next]_vars, NEW f \in Null \ Building
    PROVE  f \in Null' \ Building'
<1>1. f \in Files /\ cache[f] = "null"
  BY DEF Null
<1>2. cache'[f] = "null"
  <2>1. CASE cache' = cache
    BY <1>1, <2>1
  <2>2. ASSUME stack # <<>>, NEW v, cache' = [cache EXCEPT ![Top.file] = v],
               Top.pc \in OwnPCs \/ cache[Top.file] = "absent"
        PROVE  cache'[f] = "null"
    <3>1. Len(stack) \in Depth
      BY <2>2 DEF SafeInv, TypeInv, StackOK, Depth
    <3>2. Top.pc \in BuildPCs => Top.file \in Building
      BY <3>1 DEF Building, Top
    <3>3. Top.pc = "enforcing" => cache[Top.file] = "ast"
      BY <2>2, TopFits DEF SafeInv, Fits, Framed
    <3>4. f # Top.file
      BY <1>1, <2>2, <3>2, <3>3 DEF OwnPCs
    <3> QED BY <1>1, <2>2, <3>4 DEF SafeInv, TypeInv, TypeOK
  <2> QED BY <2>1, <2>2, CacheStep DEF SafeInv
<1>3. f \notin Building'
  BY <1>1, BuildingAfter
<1> QED BY <1>1, <1>2, <1>3 DEF Null

\* what only grows with every step
LEMMA StepGrows == ASSUME SafeInv, KnownInv, PromiseInv, [Next]_vars PROVE Grows
<1>1. UNCHANGED <<tree, queue>>
  <2>1. CASE ParseStep
    BY <2>1 DEF ParseStep, FindCached, FindAbsent, TypesParsed, Open, ImportName, ImportPackage,
           Imported, ImportedTypes, Reject, Accept, Enforced, world
  <2>2. CASE RuleStep
    BY <2>2, RuleStepMoves DEF world
  <2>3. CASE Driver \/ Terminated \/ UNCHANGED vars
    BY <2>3, DriverStack DEF SafeInv
  <2> QED BY <2>1, <2>2, <2>3 DEF Next
<1>2. Dead \subseteq Dead'
  BY <1>1, NullStays, SameTree DEF Dead, Null
<1>3. Accepted \subseteq Accepted'
  <2>1. CASE ParseStep /\ ~Enforced
    <3>1. rejected' = rejected
      BY <2>1 DEF ParseStep, FindCached, FindAbsent, TypesParsed, Open, ImportName, ImportPackage,
             Imported, ImportedTypes, Reject, Accept, files
    <3>2. ASSUME NEW f \in Live PROVE cache'[f] = "ast"
      <4>1. f \in Files /\ cache[f] = "ast"
        BY DEF Live
      <4>2. CASE FindAbsent \/ Open \/ Accept
        <5>1. stack # <<>> /\ (Top.pc \in BuildPCs => cache[Top.file] = "null")
          BY <4>2, TopFits DEF SafeInv, Fits, Framed, FindAbsent, Open, Accept, At
        <5>2. /\ cache[Top.file] # "ast"
              /\ cache' = cache \/ \E v : cache' = [cache EXCEPT ![Top.file] = v]
          BY <4>2, <5>1 DEF FindAbsent, Open, Accept, At, BuildPCs
        <5> QED BY <4>1, <5>2 DEF SafeInv, TypeInv, TypeOK
      <4>3. CASE ~(FindAbsent \/ Open \/ Accept)
        BY <2>1, <4>1, <4>3 DEF ParseStep, FindCached, TypesParsed, ImportName, ImportPackage,
           Imported, ImportedTypes, Reject, files
      <4> QED BY <4>2, <4>3
    <3> QED BY <3>1, <3>2 DEF Accepted, Live
  <2>2. CASE Enforced
    <3>1. ASSUME cache' = [cache EXCEPT ![Top.file] = "null"],
                 rejected' = rejected \cup {Top.file}
          PROVE  Accepted \subseteq Accepted'
      BY <3>1 DEF Accepted, Live, SafeInv, TypeInv, TypeOK
    <3> QED BY <2>2, <3>1 DEF Enforced, Accepted, Live
  <2>3. CASE RuleStep
    BY <2>3, RuleStepMoves DEF Accepted, Live
  <2>4. CASE Driver \/ Terminated \/ UNCHANGED vars
    BY <2>4, DriverStack DEF SafeInv, Accepted, Live, files
  <2> QED BY <2>1, <2>2, <2>3, <2>4 DEF Next
<1> QED BY <1>1, <1>2, <1>3 DEF Grows

-----------------------------------------------------------------------------
(* Steps of a parse: what is known after.                                  *)

FreedInv == \A f \in rejected : cache[f] = "null" /\ f \notin Building
GroundedInv == \A S \in (SUBSET Accepted) \ {{}} : \E f \in S : Justified(Accepted \ S, f)

LEMMA AcceptedExist ==
    ASSUME GroundedInv, NEW f \in Accepted
    PROVE  Exists(f) /\ Rooted(f.pkg)
<1>1. {f} \in (SUBSET Accepted) \ {{}}
  OBVIOUS
<1>2. Justified(Accepted \ {f}, f)
  BY <1>1 DEF GroundedInv
<1> QED BY <1>2 DEF Justified

\* what the answer of a parse means to the parse that asked for f
Given(f) ==
    /\ ret = "ok" => f \in Accepted
    /\ ret = "missing" => ~Exists(f) /\ Rooted(f.pkg)

LEMMA ImportAnswer ==
    ASSUME PromiseInv, stack # <<>>, Answered
    PROVE  /\ Top.pc = "types" => Given(TypesOf(Top.file.pkg))
           /\ Top.pc = "importing" => Given(Wanted(Top))
           /\ Top.pc = "importTypes" => Given(TypesOf(NextImport(Top).pkg))
<1>1. PICK pc \in PCs, f \in Files :
          Waits(Top, pc, f) /\ Delivers(pc, f, ret, Accepted, Null, Dead)
  BY DEF PromiseInv
<1>2. pc \in ParsePCs => Given(f)
  BY <1>1 DEF Delivers, Given
<1>3. CASE Top.pc = "types"
  BY <1>1, <1>2, <1>3 DEF Waits
<1>4. CASE Top.pc = "importing"
  BY <1>1, <1>2, <1>4 DEF Waits
<1>5. CASE Top.pc = "importTypes"
  BY <1>1, <1>2, <1>5 DEF Waits
<1> QED BY <1>3, <1>4, <1>5

LEMMA ParseKnows ==
    ASSUME NEW a, a.pc \in ParsePCs, a.enf = "NO_HASH" => ~WithHashes,
           NEW S, NEW D, Parsed(a, S)
    PROVE  Knows(a, S, D)
BY DEF Knows, Uprevved, Hashed, DependenciesSeen, ParsePCs, HashPCs

LEMMA ParseContinues ==
    ASSUME Top.pc \in ParsePCs, NEW t, t.pc \in ParsePCs, t.file = Top.file
    PROVE  Continues(t)
BY DEF Continues, ParsePCs, Enforcers, UprevPCs, HashPCs, CheckPCs, DepPCs

\* the parse goes on
LEMMA ParseGoes ==
    ASSUME SafeInv, KnownInv, stack # <<>>, Top.pc \in ParsePCs,
           NEW t, Goto(t), t.pc \in ParsePCs, t.file = Top.file, t.enf = Top.enf,
           Parsed(t, Accepted)
    PROVE  Learns
<1>1. Knows(t, Accepted, Dead) /\ Continues(t)
  BY TopKnows, ParseKnows, ParseContinues DEF SafeInv
<1>2. Grows => Knows(t, Accepted', Dead')
  BY <1>1, KnowsMore DEF Grows
<1> QED BY <1>1, <1>2, GotoKnows DEF SafeInv, Learns

\* it parses another file first
LEMMA ParseCalls ==
    ASSUME SafeInv, KnownInv, stack # <<>>, Top.pc \in ParsePCs,
           NEW t, NEW f, NEW g, Call(t, Activation("find", f, "NONE", g)),
           t.pc \in ParsePCs, t.file = Top.file, t.enf = Top.enf,
           Parsed(t, Accepted), Waits(t, "find", f)
    PROVE  Learns
<1> DEFINE c == Activation("find", f, "NONE", g)
<1>1. Knows(t, Accepted, Dead) /\ Continues(t)
  BY TopKnows, ParseKnows, ParseContinues DEF SafeInv
<1>2. Knows(c, Accepted, Dead) /\ c.pc = "find" /\ c.file = f
  BY ParseStarts
<1>3. Call(t, c)
  OBVIOUS
<1> HIDE DEF c
<1>4. Grows => Knows(t, Accepted', Dead') /\ Knows(c, Accepted', Dead')
  BY <1>1, <1>2, KnowsMore DEF Grows
<1> QED BY <1>1, <1>2, <1>3, <1>4, CallKnows DEF SafeInv, Learns

\* it ends
LEMMA ParseEnds ==
    ASSUME SafeInv, KnownInv, stack # <<>>, Top.pc \in ParsePCs, NEW v, Return(v),
           \/ v = "ok" /\ Top.file \in Accepted
           \/ v = "missing" /\ ~Exists(Top.file) /\ Rooted(Top.file.pkg)
           \/ v \in {"error", "garbage"} /\ Top.file \in Null'
    PROVE  Learns
<1>1. Grows => Delivers(Top.pc, Top.file, v, Accepted', Null', Dead')
  BY DEF Grows, Delivers, ParsePCs, UprevPCs, HashPCs, CheckPCs, DepPCs
<1> QED BY <1>1, ReturnKnows DEF SafeInv, Learns

LEMMA BuiltIsNull ==
    ASSUME SafeInv, stack # <<>>, Top.pc \in BuildPCs
    PROVE  Top.file \in Null
BY TopFits, TopTyped DEF SafeInv, Fits, Framed, Null

LEMMA FindCachedLearns == ASSUME SafeInv, KnownInv, FindCached PROVE Learns
<1>1. stack # <<>> /\ Top.pc = "find" /\ cache' = cache /\ cache[Top.file] # "absent"
      /\ Top.file \in Files
  BY TopTyped DEF FindCached, At, SafeInv
<1>2. CASE cache[Top.file] = "ast" /\ Return("ok")
  <2>1. Top.file \in Accepted
    BY <1>1, <1>2 DEF Accepted, Live
  <2> QED BY <1>1, <1>2, <2>1, ParseEnds DEF ParsePCs
<1>3. CASE cache[Top.file] # "ast" /\ Return("error")
  <2>1. cache[Top.file] = "null"
    BY <1>1, <1>3 DEF SafeInv, TypeInv, TypeOK
  <2>2. Top.file \in Null'
    BY <1>1, <2>1 DEF Null
  <2> QED BY <1>1, <1>3, <2>2, ParseEnds DEF ParsePCs
<1> QED BY <1>2, <1>3 DEF FindCached

LEMMA FindAbsentLearns == ASSUME SafeInv, KnownInv, FindAbsent PROVE Learns
<1>1. stack # <<>> /\ Top.pc = "find"
  BY DEF FindAbsent, At
<1>2. Parsed(Top, Accepted)
  BY <1>1, TopKnows DEF SafeInv, Knows
<1>3. ASSUME Top.file.name = Types, Goto([Top EXCEPT !.pc = "open"]) PROVE Learns
  <2> DEFINE t == [Top EXCEPT !.pc = "open"]
  <2>1. /\ t.pc = "open" /\ t.file = Top.file /\ t.enf = Top.enf
        /\ t.k = Top.k /\ t.j = Top.j /\ t.flag = Top.flag
    BY <1>1, TopTyped DEF SafeInv, Frames
  <2>2. Goto(t)
    BY <1>3
  <2> HIDE DEF t
  <2>3. Parsed(t, Accepted)
    BY <1>1, <1>2, <1>3, <2>1 DEF Parsed, ImportPCs, TypesGood
  <2> QED BY <1>1, <2>1, <2>2, <2>3, ParseGoes DEF ParsePCs
<1>4. ASSUME Top.file.name # Types,
             Call([Top EXCEPT !.pc = "types"], Parse(TypesOf(Top.file.pkg), "NONE"))
      PROVE  Learns
  <2> DEFINE t == [Top EXCEPT !.pc = "types"]
  <2>1. /\ t.pc = "types" /\ t.file = Top.file /\ t.enf = Top.enf
        /\ t.k = Top.k /\ t.j = Top.j /\ t.flag = Top.flag
    BY <1>1, TopTyped DEF SafeInv, Frames
  <2>2. Call(t, Activation("find", TypesOf(Top.file.pkg), "NONE", NoFile))
    BY <1>4 DEF Parse
  <2> HIDE DEF t
  <2>3. Parsed(t, Accepted)
    BY <1>1, <1>2, <1>4, <2>1 DEF Parsed, ImportPCs
  <2>4. Waits(t, "find", TypesOf(Top.file.pkg))
    BY <2>1 DEF Waits, ParsePCs
  <2> QED BY <1>1, <2>1, <2>2, <2>3, <2>4, ParseCalls DEF ParsePCs
<1> QED BY <1>3, <1>4 DEF FindAbsent

LEMMA TypesParsedLearns == ASSUME SafeInv, KnownInv, PromiseInv, TypesParsed PROVE Learns
<1>1. stack # <<>> /\ Top.pc = "types" /\ Answered /\ cache' = cache
  BY DEF TypesParsed, Resumed
<1>2. CASE ret \in {"ok", "missing"} /\ Goto([Top EXCEPT !.pc = "open"])
  <2> DEFINE t == [Top EXCEPT !.pc = "open"]
  <2>1. /\ t.pc = "open" /\ t.file = Top.file /\ t.enf = Top.enf
        /\ t.k = Top.k /\ t.j = Top.j /\ t.flag = Top.flag
    BY <1>1, TopTyped DEF SafeInv, Frames
  <2>2. Goto(t)
    BY <1>2
  <2> HIDE DEF t
  <2>3. TypesGood(Top.file, Accepted)
    BY <1>1, <1>2, ImportAnswer DEF Given, TypesGood
  <2>4. Parsed(t, Accepted)
    BY <1>1, <2>1, <2>3, TopKnows DEF SafeInv, Knows, Parsed, ImportPCs
  <2> QED BY <1>1, <2>1, <2>2, <2>4, ParseGoes DEF ParsePCs
<1>3. CASE Return("garbage")
  <2>1. Top.file \in Null'
    BY <1>1, BuiltIsNull DEF BuildPCs, Null
  <2> QED BY <1>1, <1>3, <2>1, ParseEnds DEF ParsePCs
<1> QED BY <1>2, <1>3 DEF TypesParsed

LEMMA OpenLearns == ASSUME SafeInv, KnownInv, Open PROVE Learns
<1>1. stack # <<>> /\ Top.pc = "open"
  BY DEF Open, At
<1>2. CASE Return("garbage") /\ cache' = cache
  <2>1. Top.file \in Null'
    BY <1>1, <1>2, BuiltIsNull DEF BuildPCs, Null
  <2> QED BY <1>1, <1>2, <2>1, ParseEnds DEF ParsePCs
<1>3. CASE Rooted(Top.file.pkg) /\ ~Exists(Top.file) /\ Return("missing")
  BY <1>1, <1>3, ParseEnds DEF ParsePCs
<1>4. CASE Rooted(Top.file.pkg) /\ Exists(Top.file) /\ Goto([Top EXCEPT !.pc = "import"])
  <2> DEFINE t == [Top EXCEPT !.pc = "import"]
  <2>1. /\ t.pc = "import" /\ t.file = Top.file /\ t.enf = Top.enf
        /\ t.k = Top.k /\ t.j = Top.j /\ t.flag = Top.flag
    BY <1>1, TopTyped DEF SafeInv, Frames
  <2>2. Goto(t)
    BY <1>4
  <2> HIDE DEF t
  <2>3. t.k = 1 /\ t.j = 0 /\ TypesGood(t.file, Accepted)
    BY <1>1, <2>1, TopKnows DEF SafeInv, Knows, Parsed
  <2>4. Gotten(t, Accepted)
    <3>1. \A n \in Listing(NextImport(t).pkg) : ~(n < 0)
      BY ListingNat
    <3> QED BY <2>3, <3>1 DEF Gotten
  <2>5. \A k \in Statements(t.file) : ~(k < 1)
    BY DEF Statements
  <2>6. Parsed(t, Accepted)
    BY <1>4, <2>1, <2>3, <2>4, <2>5 DEF Parsed, ImportPCs
  <2> QED BY <1>1, <2>1, <2>2, <2>6, ParseGoes DEF ParsePCs
<1> QED BY <1>2, <1>3, <1>4 DEF Open

\* the statement the parse is at is done with
LEMMA StatementLearns ==
    ASSUME SafeInv, KnownInv, stack # <<>>, Top.pc \in ImportPCs,
           BadImport \/ (GoodImport /\ ImportHolds(Accepted, NextImport(Top)))
    PROVE  Learns
<1>1. Parsed(Top, Accepted) /\ Top.k \in Nat
  BY TopKnows, TopTyped DEF SafeInv, Knows
<1>2. ASSUME NEW t, Goto(t), t.pc = "import", t.file = Top.file, t.enf = Top.enf,
             t.k = Top.k + 1, t.j = 0,
             t.flag \/ (t.flag = Top.flag /\ ImportHolds(Accepted, NextImport(Top)))
      PROVE  Learns
  <2>1. Gotten(t, Accepted)
    <3>1. \A n \in Listing(NextImport(t).pkg) : ~(n < 0)
      BY ListingNat
    <3> QED BY <1>2, <3>1 DEF Gotten
  <2>2. \A k \in Statements(Top.file) : k < Top.k + 1 => k < Top.k \/ k = Top.k
    BY <1>1 DEF Statements
  <2>3. ~t.flag => \A k \in Statements(t.file) :
                      k < t.k => ImportHolds(Accepted, Statement(t.file, k))
    BY <1>1, <1>2, <2>2 DEF Parsed, NextImport
  <2>4. t.k >= 1 /\ Exists(t.file) /\ Rooted(t.file.pkg) /\ TypesGood(t.file, Accepted)
    BY <1>1, <1>2 DEF Parsed
  <2>5. Parsed(t, Accepted)
    BY <1>2, <2>1, <2>3, <2>4 DEF Parsed
  <2> QED BY <1>2, <2>5, ParseGoes DEF ParsePCs, ImportPCs
<1>3. ASSUME GoodImport, ImportHolds(Accepted, NextImport(Top)) PROVE Learns
  <2> DEFINE t == [Top EXCEPT !.pc = "import", !.k = @ + 1, !.j = 0]
  <2>1. /\ t.pc = "import" /\ t.file = Top.file /\ t.enf = Top.enf
        /\ t.k = Top.k + 1 /\ t.j = 0 /\ t.flag = Top.flag
    BY TopTyped DEF SafeInv, Frames
  <2>2. Goto(t)
    BY <1>3 DEF GoodImport
  <2> HIDE DEF t
  <2> QED BY <1>2, <1>3, <2>1, <2>2
<1>4. ASSUME BadImport PROVE Learns
  <2> DEFINE t == [Top EXCEPT !.pc = "import", !.k = @ + 1, !.j = 0, !.flag = TRUE]
  <2>1. /\ t.pc = "import" /\ t.file = Top.file /\ t.enf = Top.enf
        /\ t.k = Top.k + 1 /\ t.j = 0 /\ t.flag
    BY TopTyped DEF SafeInv, Frames
  <2>2. Goto(t)
    BY <1>4 DEF BadImport
  <2> HIDE DEF t
  <2> QED BY <1>2, <2>1, <2>2
<1> QED BY <1>3, <1>4

LEMMA ImportNameLearns == ASSUME SafeInv, KnownInv, ImportName PROVE Learns
<1> DEFINE s == NextImport(Top)
           t == [Top EXCEPT !.pc = "importing"]
<1>1. stack # <<>> /\ Top.pc = "import" /\ Top.k \in Statements(Top.file)
      /\ s.top # WholePackage /\ Call(t, ParseInto(File(s.pkg, s.top), Top.file))
  BY DEF ImportName, At, NextImport
<1>2. /\ t.pc = "importing" /\ t.file = Top.file /\ t.enf = Top.enf
      /\ t.k = Top.k /\ t.j = Top.j /\ t.flag = Top.flag
  BY <1>1, TopTyped DEF SafeInv, Frames
<1>3. Call(t, Activation("find", File(s.pkg, s.top), "NONE", Top.file))
  BY <1>1 DEF ParseInto
<1> HIDE DEF t
<1>4. NextImport(t) = s
  BY <1>2 DEF NextImport
<1>5. Parsed(t, Accepted)
  BY <1>1, <1>2, <1>4, TopKnows DEF SafeInv, Knows, Parsed, ImportPCs, Gotten
<1>6. Waits(t, "find", File(s.pkg, s.top))
  BY <1>1, <1>2, <1>4 DEF Waits, Wanted, ParsePCs
<1> QED BY <1>1, <1>2, <1>3, <1>5, <1>6, ParseCalls DEF ParsePCs

LEMMA ImportPackageLearns == ASSUME SafeInv, KnownInv, ImportPackage PROVE Learns
<1> DEFINE s == NextImport(Top)
<1>1. stack # <<>> /\ Top.pc = "import" /\ Top.k \in Statements(Top.file) /\ s.top = WholePackage
  BY DEF ImportPackage, At, NextImport
<1>2. Parsed(Top, Accepted)
  BY <1>1, TopKnows DEF SafeInv, Knows
<1>3. \A n \in Listing(s.pkg) : n < Top.j => File(s.pkg, n) \in Accepted
  BY <1>1, <1>2 DEF Parsed, ImportPCs, Gotten
<1>4. CASE BadImport
  BY <1>1, <1>4, StatementLearns DEF ImportPCs
<1>5. CASE HasSources(s.pkg) /\ Exhausted(s.pkg, Top.j) /\ GoodImport
  <2>1. ImportHolds(Accepted, s)
    BY <1>1, <1>3, <1>5 DEF ImportHolds, Exhausted
  <2> QED BY <1>1, <1>5, <2>1, StatementLearns DEF ImportPCs
<1>6. ASSUME HasSources(s.pkg), NEW n \in Names, NextName(s.pkg, Top.j, n),
             Call([Top EXCEPT !.pc = "importing", !.j = n], ParseInto(File(s.pkg, n), Top.file))
      PROVE  Learns
  <2> DEFINE t == [Top EXCEPT !.pc = "importing", !.j = n]
  <2>1. /\ t.pc = "importing" /\ t.file = Top.file /\ t.enf = Top.enf
        /\ t.k = Top.k /\ t.j = n /\ t.flag = Top.flag /\ Top.j \in Nat
    BY <1>1, TopTyped DEF SafeInv, Frames
  <2>2. Call(t, Activation("find", File(s.pkg, n), "NONE", Top.file))
    BY <1>6 DEF ParseInto
  <2> HIDE DEF t
  <2>3. NextImport(t) = s
    BY <2>1 DEF NextImport
  <2>4. NextName(s.pkg, n, n) /\ \A m \in Listing(s.pkg) : m < n => m < Top.j
    BY <1>6, <2>1, NextSkips
  <2>5. Parsed(t, Accepted)
    BY <1>1, <1>2, <1>3, <1>6, <2>1, <2>3, <2>4 DEF Parsed, ImportPCs, Gotten
  <2>6. Waits(t, "find", File(s.pkg, n))
    BY <1>1, <2>1, <2>3 DEF Waits, Wanted, ParsePCs
  <2> QED BY <1>1, <2>1, <2>2, <2>5, <2>6, ParseCalls DEF ParsePCs
<1> QED BY <1>4, <1>5, <1>6 DEF ImportPackage, NextImport

LEMMA ImportedLearns ==
    ASSUME SafeInv, KnownInv, PromiseInv, GroundedInv, Imported
    PROVE  Learns
<1> DEFINE s == NextImport(Top)
           defines == s.inner = NoInner \/ <<s.top, s.inner>> \in repo.defs[File(s.pkg, s.top)]
<1>1. stack # <<>> /\ Top.pc = "importing" /\ Answered
  BY DEF Imported, Resumed
<1>2. Parsed(Top, Accepted) /\ Given(Wanted(Top)) /\ Top.k \in Statements(Top.file)
  BY <1>1, TopKnows, ImportAnswer DEF SafeInv, Knows, Parsed
<1>3. CASE BadImport
  BY <1>1, <1>3, StatementLearns DEF ImportPCs
<1>4. ASSUME s.top = WholePackage, ret = "ok", Goto([Top EXCEPT !.pc = "import", !.j = @ + 1])
      PROVE  Learns
  <2> DEFINE t == [Top EXCEPT !.pc = "import", !.j = @ + 1]
  <2>1. /\ t.pc = "import" /\ t.file = Top.file /\ t.enf = Top.enf
        /\ t.k = Top.k /\ t.j = Top.j + 1 /\ t.flag = Top.flag /\ Top.j \in Nat
    BY <1>1, TopTyped DEF SafeInv, Frames
  <2>2. Goto(t)
    BY <1>4
  <2> HIDE DEF t
  <2>3. NextImport(t) = s
    BY <2>1 DEF NextImport
  <2>4. File(s.pkg, Top.j) \in Accepted
    BY <1>2, <1>4 DEF Given, Wanted
  <2>5. \A n \in Listing(s.pkg) : n < Top.j + 1 => n < Top.j \/ n = Top.j
    <3>1. \A n \in Listing(s.pkg) : n \in Nat
      BY ListingNat
    <3> QED BY <2>1, <3>1
  <2>6. Gotten(t, Accepted)
    BY <1>1, <1>2, <1>4, <2>1, <2>3, <2>4, <2>5 DEF Parsed, ImportPCs, Gotten
  <2>7. Parsed(t, Accepted)
    BY <1>1, <1>2, <2>1, <2>6 DEF Parsed, ImportPCs
  <2> QED BY <1>1, <2>1, <2>2, <2>7, ParseGoes DEF ParsePCs
<1>5. CASE s.top # WholePackage /\ ret = "ok" /\ defines /\ GoodImport
  <2>1. File(s.pkg, s.top) \in Accepted
    BY <1>2, <1>5 DEF Given, Wanted
  <2>2. Rooted(s.pkg)
    BY <2>1, AcceptedExist DEF File
  <2>3. ImportHolds(Accepted, s)
    BY <1>5, <2>1, <2>2 DEF ImportHolds
  <2> QED BY <1>1, <1>5, <2>3, StatementLearns DEF ImportPCs
<1>6. ASSUME s.top # WholePackage, ret = "missing",
             Call([Top EXCEPT !.pc = "importTypes"], ParseInto(TypesOf(s.pkg), Top.file))
      PROVE  Learns
  <2> DEFINE t == [Top EXCEPT !.pc = "importTypes"]
  <2>1. /\ t.pc = "importTypes" /\ t.file = Top.file /\ t.enf = Top.enf
        /\ t.k = Top.k /\ t.j = Top.j /\ t.flag = Top.flag
    BY <1>1, TopTyped DEF SafeInv, Frames
  <2>2. Call(t, Activation("find", TypesOf(s.pkg), "NONE", Top.file))
    BY <1>6 DEF ParseInto
  <2> HIDE DEF t
  <2>3. NextImport(t) = s
    BY <2>1 DEF NextImport
  <2>4. ~Exists(File(s.pkg, s.top)) /\ Rooted(s.pkg)
    BY <1>2, <1>6 DEF Given, Wanted, File
  <2>5. Parsed(t, Accepted)
    BY <1>1, <1>2, <1>6, <2>1, <2>3, <2>4 DEF Parsed, ImportPCs, Gotten
  <2>6. Waits(t, "find", TypesOf(s.pkg))
    BY <2>1, <2>3 DEF Waits, ParsePCs
  <2> QED BY <1>1, <2>1, <2>2, <2>5, <2>6, ParseCalls DEF ParsePCs
<1> QED BY <1>3, <1>4, <1>5, <1>6 DEF Imported, NextImport

LEMMA ImportedTypesLearns == ASSUME SafeInv, KnownInv, PromiseInv, ImportedTypes PROVE Learns
<1> DEFINE s == NextImport(Top)
<1>1. stack # <<>> /\ Top.pc = "importTypes" /\ Answered
  BY DEF ImportedTypes, Resumed
<1>2. Parsed(Top, Accepted) /\ Given(TypesOf(s.pkg))
  BY <1>1, TopKnows, ImportAnswer DEF SafeInv, Knows
<1>3. CASE BadImport
  BY <1>1, <1>3, StatementLearns DEF ImportPCs
<1>4. CASE ret = "ok" /\ <<s.top, s.inner>> \in repo.defs[TypesOf(s.pkg)] /\ GoodImport
  <2>1. ImportHolds(Accepted, s)
    BY <1>1, <1>2, <1>4 DEF Parsed, Given, ImportHolds
  <2> QED BY <1>1, <1>4, <2>1, StatementLearns DEF ImportPCs
<1> QED BY <1>3, <1>4 DEF ImportedTypes, NextImport

LEMMA RejectLearns == ASSUME SafeInv, KnownInv, Reject PROVE Learns
<1>1. stack # <<>> /\ Top.pc = "import" /\ cache' = cache /\ Return("error")
  BY DEF Reject, At
<1>2. Top.file \in Null'
  BY <1>1, BuiltIsNull DEF BuildPCs, Null
<1> QED BY <1>1, <1>2, ParseEnds DEF ParsePCs

LEMMA AcceptLearns == ASSUME SafeInv, KnownInv, Accept PROVE Learns
<1> DEFINE t == [Top EXCEPT !.pc = "enforcing"]
           c == Rule("enforce", Top.file, Top.enf)
<1>1. stack # <<>> /\ Top.pc = "import" /\ Call(t, c) /\ Top.file \in Files
      /\ cache' = [cache EXCEPT ![Top.file] = "ast"]
  BY TopTyped DEF Accept, At, SafeInv
<1>2. t.pc = "enforcing" /\ t.file = Top.file /\ t.enf = Top.enf
  BY <1>1, TopTyped DEF SafeInv, Frames
<1>3. Top.enf = "NO_HASH" => ~WithHashes
  BY <1>1, TopKnows DEF SafeInv
<1>4. c.pc = "enforce" /\ c.file = Top.file /\ Knows(c, Accepted', Dead')
  BY <1>3, RuleStarts
<1> HIDE DEF t, c
<1>5. Top.file \in Accepted'
  BY <1>1 DEF Accepted, Live, SafeInv, TypeInv, TypeOK
<1>6. Parsed(t, Accepted')
  BY <1>2, <1>5 DEF Parsed, ImportPCs
<1>7. Knows(t, Accepted', Dead')
  BY <1>2, <1>3, <1>6, ParseKnows DEF ParsePCs
<1>8. Continues(t)
  BY <1>1, <1>2, ParseContinues DEF ParsePCs
<1>9. Waits(t, c.pc, c.file)
  BY <1>2, <1>4 DEF Waits, Enforcers
<1> QED BY <1>1, <1>4, <1>7, <1>8, <1>9, CallKnows DEF SafeInv, Learns

LEMMA EnforcedLearns == ASSUME SafeInv, KnownInv, Enforced PROVE Learns
<1>1. stack # <<>> /\ Top.pc = "enforcing" /\ Top.file \in Files
  BY TopTyped DEF Enforced, Resumed, SafeInv
<1>2. CASE Return("ok")
  <2>1. Top.file \in Accepted
    BY <1>1, TopKnows DEF SafeInv, Knows, Parsed
  <2> QED BY <1>1, <1>2, <2>1, ParseEnds DEF ParsePCs
<1>3. CASE Return("error") /\ cache' = [cache EXCEPT ![Top.file] = "null"]
  <2>1. Top.file \in Null'
    BY <1>1, <1>3 DEF Null, SafeInv, TypeInv, TypeOK
  <2> QED BY <1>1, <1>3, <2>1, ParseEnds DEF ParsePCs
<1> QED BY <1>2, <1>3 DEF Enforced

LEMMA ParseStepLearns ==
    ASSUME SafeInv, KnownInv, PromiseInv, GroundedInv, ParseStep
    PROVE  Learns
BY FindCachedLearns, FindAbsentLearns, TypesParsedLearns, OpenLearns, ImportNameLearns,
   ImportPackageLearns, ImportedLearns, ImportedTypesLearns, RejectLearns, AcceptLearns,
   EnforcedLearns DEF ParseStep

LEMMA DriverLearns ==
    ASSUME SafeInv, KnownInv, PromiseInv, Driver \/ Terminated \/ UNCHANGED vars
    PROVE  Learns
<1> SUFFICES ASSUME Grows PROVE KnownInv' /\ PromiseInv'
  BY DEF Learns
<1>1. CASE stack' = stack /\ (ret' = ret \/ stack = <<>>)
  <2>1. KnownInv'
    BY <1>1, BelowKnows, NewStackKnows DEF KnownInv, Depth
  <2>2. PromiseInv'
    <3> SUFFICES ASSUME stack' # <<>>, Answered'
                 PROVE  \E pc \in PCs, f \in Files :
                            Waits(Top, pc, f)' /\ Delivers(pc, f, ret, Accepted, Null, Dead)'
      BY DEF PromiseInv
    <3>1. stack # <<>> /\ ret' = ret /\ Answered /\ Top' = Top
      BY <1>1 DEF Answered, Top
    <3>2. PICK pc \in PCs, f \in Files :
              Waits(Top, pc, f) /\ Delivers(pc, f, ret, Accepted, Null, Dead)
      BY <3>1 DEF PromiseInv
    <3>3. cache' = cache
      BY DriverStack DEF SafeInv, files
    <3>4. Delivers(pc, f, ret, Accepted', Null', Dead')
      BY <3>2, <3>3, DeliversMore DEF Grows, Null
    <3>5. PICK a, v : a = Top /\ v = ret
      OBVIOUS
    <3>6. Waits(a, pc, f)'
      BY <3>2, <3>5, WaitsSame DEF Grows
    <3>7. Delivers(pc, f, v, Accepted, Null, Dead)'
      BY <3>4, <3>5, DeliversSame DEF Grows
    <3> QED BY <3>1, <3>5, <3>6, <3>7
  <2> QED BY <2>1, <2>2
<1>2. CASE /\ turn < Len(queue) /\ ret' = "none"
           /\ stack' = <<Parse(queue[turn + 1].file, queue[turn + 1].enf)>>
  <2> DEFINE r == queue[turn + 1]
             c == Parse(r.file, r.enf)
  <2>1. turn + 1 \in DOMAIN queue
    BY <1>2, RequestsAssumption DEF SafeInv, TypeInv, TypeOK
  <2>2. r.enf = "NO_HASH" => ~WithHashes
    BY <2>1 DEF WithHashes
  <2>3. Knows(c, Accepted', Dead')
    BY <2>2, ParseStarts DEF Parse
  <2>4. Len(stack') = 1 /\ stack'[1] = c
    BY <1>2
  <2> HIDE DEF c
  <2>5. KnownInv'
    BY <2>3, <2>4, NewStackKnows
  <2> QED BY <1>2, <2>5 DEF PromiseInv, Answered
<1> QED BY <1>1, <1>2, DriverStack DEF SafeInv

LEMMA NextLearns ==
    ASSUME SafeInv, KnownInv, PromiseInv, GroundedInv, [Next]_vars
    PROVE  KnownInv' /\ PromiseInv'
<1>1. Grows
  BY StepGrows
<1>2. Learns
  BY ParseStepLearns, RuleStepMoves, DriverLearns DEF Next, Moves
<1> QED BY <1>1, <1>2 DEF Learns

-----------------------------------------------------------------------------
(* Files that are given an AST, and packages that are recorded.            *)

RecordedInv ==
    \A p \in enforced :
        /\ UprevFine(p, Accepted, Dead)
        /\ WithHashes => \A n \in Listing(p) : HashFine(File(p, n), Accepted)

VerdictInv == SafeInv /\ KnownInv /\ PromiseInv /\ FreedInv /\ GroundedInv /\ RecordedInv

LEMMA JustifiedSame ==
    ASSUME tree' = tree, NEW S, NEW f, Justified(S, f)
    PROVE  Justified(S, f)'
BY SameTree, SameRepo, ImportHoldsSame DEF Justified, TypesOf, File

\* who gains and who loses an AST
LEMMA AstSteps ==
    ASSUME SafeInv, [Next]_vars
    PROVE  \/ Accept
           \/ Enforced
           \/ rejected' = rejected /\ \A f \in Live' : f \in Live
<1>1. CASE ParseStep /\ ~Accept /\ ~Enforced
  <2>1. rejected' = rejected
    BY <1>1 DEF ParseStep, FindCached, FindAbsent, TypesParsed, Open, ImportName, ImportPackage,
           Imported, ImportedTypes, Reject, files
  <2>2. cache' = cache \/ \E v : v # "ast" /\ cache' = [cache EXCEPT ![Top.file] = v]
    BY <1>1 DEF ParseStep, FindCached, FindAbsent, TypesParsed, Open, ImportName, ImportPackage,
           Imported, ImportedTypes, Reject, files
  <2> QED BY <2>1, <2>2 DEF Live, SafeInv, TypeInv, TypeOK
<1>2. CASE RuleStep
  BY <1>2 DEF RuleStep, Enforce, UprevsEnforced, HashesEnforced, Uprev, UprevNext,
     CurrentParsed, LastParsed, HashNext, HashChecked, DependenciesChecked, Check, Checked,
     Dependencies, DependenciesParsed, DependencyPick, DependencyNext, DependencyHashed,
     files, Live
<1>3. CASE Driver \/ Terminated \/ UNCHANGED vars
  BY <1>3, DriverStack DEF SafeInv, files, Live
<1> QED BY <1>1, <1>2, <1>3 DEF Next

LEMMA NextFreed ==
    ASSUME SafeInv, KnownInv, PromiseInv, FreedInv, [Next]_vars
    PROVE  FreedInv'
<1>1. \A f \in rejected : f \in Null' \ Building'
  <2>1. \A f \in rejected : f \in Null \ Building
    BY DEF FreedInv, Null, SafeInv, TypeInv, TypeOK
  <2> QED BY <2>1, NullStays
<1>2. CASE rejected' = rejected
  BY <1>1, <1>2 DEF FreedInv, Null
<1>3. CASE Enforced /\ rejected' # rejected
  <2>1. /\ stack # <<>> /\ Top.pc = "enforcing" /\ Top.file \in Files
        /\ cache' = [cache EXCEPT ![Top.file] = "null"] /\ rejected' = rejected \cup {Top.file}
    BY <1>3, TopTyped DEF Enforced, Resumed, SafeInv
  <2>2. cache'[Top.file] = "null"
    BY <2>1 DEF SafeInv, TypeInv, TypeOK
  <2>3. Top.file \notin Building
    <3>1. cache[Top.file] = "ast"
      BY <2>1, TopFits DEF SafeInv, Fits, Framed
    <3>2. ASSUME NEW i \in Depth, stack[i].pc \in BuildPCs PROVE cache[stack[i].file] = "null"
      BY <3>2 DEF SafeInv, StackInv, Framed
    <3> QED BY <3>1, <3>2 DEF Building
  <2>4. Top.file \notin Building'
    <3>1. cache[Top.file] = "ast"
      BY <2>1, TopFits DEF SafeInv, Fits, Framed
    <3> QED BY <2>3, <3>1, BuildingAfter
  <2> QED BY <1>1, <2>1, <2>2, <2>4 DEF FreedInv, Null
<1> QED BY <1>2, <1>3, AstSteps DEF Accept

LEMMA AcceptGrounded ==
    ASSUME SafeInv, KnownInv, FreedInv, GroundedInv, Accept
    PROVE  GroundedInv'
<1>1. /\ stack # <<>> /\ Top.pc = "import" /\ Top.k \notin Statements(Top.file)
      /\ ~Top.flag /\ repo.text[Top.file] = "good" /\ Top.file \in Files /\ Top.k \in Nat
      /\ cache' = [cache EXCEPT ![Top.file] = "ast"] /\ rejected' = rejected /\ tree' = tree
  BY TopTyped DEF Accept, At, SafeInv, world
<1>2. PICK a : a = Top.file
  OBVIOUS
<1>3. PICK A : A = Accepted
  OBVIOUS
<1>4. Justified(A, a)
  <2>1. Parsed(Top, Accepted)
    BY <1>1, TopKnows DEF SafeInv, Knows
  <2>2. Top.k >= 1
    BY <1>1, <2>1 DEF Parsed, ImportPCs
  <2>3. \A k \in Statements(Top.file) : k < Top.k
    <3>1. PICK m \in Nat : Statements(Top.file) = 1..m
      <4>1. Len(repo.imports[Top.file]) \in Nat
        BY <1>1, RepoTyped DEF IsRepo, SafeInv, TypeInv, TypeOK
      <4>2. CASE ImportsIBase(Top.file)
        BY <4>1, <4>2 DEF Statements
      <4>3. CASE ~ImportsIBase(Top.file)
        BY <4>1, <4>3 DEF Statements
      <4> QED BY <4>2, <4>3
    <3> QED BY <1>1, <2>2, <3>1
  <2>4. \A k \in Statements(Top.file) : ImportHolds(Accepted, Statement(Top.file, k))
    BY <1>1, <2>1, <2>3 DEF Parsed, ImportPCs
  <2> QED BY <1>1, <1>2, <1>3, <2>1, <2>4 DEF Parsed, ImportPCs, TypesGood, Justified
<1>5. a \notin A
  <2>1. cache[a] = "null"
    BY <1>1, <1>2, BuiltIsNull DEF Null, BuildPCs
  <2>2. Len(stack) \in Depth
    BY <1>1 DEF Depth, SafeInv, TypeInv, StackOK
  <2>3. a \in Building
    BY <1>1, <1>2, <2>2 DEF Building, Top, BuildPCs
  <2> QED BY <1>3, <2>1, <2>3 DEF FreedInv, Accepted, Live
<1>6. Accepted' = A \cup {a}
  BY <1>1, <1>2, <1>3 DEF Accepted, Live, SafeInv, TypeInv, TypeOK
<1>7. ASSUME NEW S \in (SUBSET (A \cup {a})) \ {{}}
      PROVE  \E f \in S : Justified((A \cup {a}) \ S, f)
  <2>1. CASE S = {a}
    BY <1>4, <1>5, <2>1, JustifiedMore
  <2>2. CASE S # {a}
    <3>1. S \ {a} \in (SUBSET A) \ {{}}
      BY <2>2
    <3>2. PICK f \in S \ {a} : Justified(A \ (S \ {a}), f)
      BY <1>3, <3>1 DEF GroundedInv
    <3>3. A \ (S \ {a}) \subseteq (A \cup {a}) \ S
      BY <1>5
    <3> QED BY <3>2, <3>3, JustifiedMore
  <2> QED BY <2>1, <2>2
<1>8. ASSUME NEW S \in (SUBSET (A \cup {a})) \ {{}}
      PROVE  \E f \in S : Justified((A \cup {a}) \ S, f)'
  <2>1. PICK f \in S : Justified((A \cup {a}) \ S, f)
    BY <1>7
  <2>2. PICK B : B = (A \cup {a}) \ S
    OBVIOUS
  <2>3. Justified(B, f)'
    BY <1>1, <2>1, <2>2, JustifiedSame
  <2> QED BY <2>2, <2>3
<1> QED BY <1>6, <1>8 DEF GroundedInv
LEMMA NextGrounded ==
    ASSUME SafeInv, KnownInv, PromiseInv, FreedInv, GroundedInv, [Next]_vars
    PROVE  GroundedInv'
<1>1. Grows
  BY StepGrows
<1>2. CASE Accept
  BY <1>2, AcceptGrounded
<1>3. CASE ~Accept
  <2>1. Accepted' \subseteq Accepted
    <3>1. CASE Enforced
      <4>1. Top.file \in Live /\ Live' \subseteq Live
        BY <3>1, TopTyped, TopFits
           DEF Enforced, Resumed, Live, SafeInv, Fits, Framed, TypeInv, TypeOK
      <4> QED BY <3>1, <4>1 DEF Enforced, Accepted
    <3>2. CASE rejected' = rejected /\ \A f \in Live' : f \in Live
      BY <3>2 DEF Accepted
    <3> QED BY <1>3, <3>1, <3>2, AstSteps
  <2>2. PICK A : A = Accepted
    OBVIOUS
  <2>3. Accepted' = A
    BY <1>1, <2>1, <2>2 DEF Grows
  <2>4. ASSUME NEW S \in (SUBSET A) \ {{}} PROVE \E f \in S : Justified(A \ S, f)'
    <3>1. PICK f \in S : Justified(A \ S, f)
      BY <2>2 DEF GroundedInv
    <3>2. PICK B : B = A \ S
      OBVIOUS
    <3>3. Justified(B, f)'
      BY <1>1, <3>1, <3>2, JustifiedSame DEF Grows
    <3> QED BY <3>2, <3>3
  <2> QED BY <2>3, <2>4 DEF GroundedInv
<1> QED BY <1>2, <1>3

\* a package is recorded when its rules are known to hold
LEMMA RecordSteps ==
    ASSUME SafeInv, KnownInv, PromiseInv, [Next]_vars
    PROVE  \A p \in enforced' :
               \/ p \in enforced
               \/ /\ UprevFine(p, Accepted, Dead)
                  /\ WithHashes => \A n \in Listing(p) : HashFine(File(p, n), Accepted)
<1> DEFINE q == Top.file.pkg
           Fine(p) == /\ UprevFine(p, Accepted, Dead)
                      /\ WithHashes => \A n \in Listing(p) : HashFine(File(p, n), Accepted)
<1>1. CASE UprevsEnforced
  <2>1. stack # <<>> /\ Top.pc = "uprevs" /\ Answered
    BY <1>1 DEF UprevsEnforced, Resumed
  <2>2. Top.enf = "NO_HASH" => ~WithHashes
    BY <2>1, TopKnows DEF SafeInv
  <2>3. ret = "ok" => UprevFine(q, Accepted, Dead)
    BY <2>1, RuleAnswer
  <2>4. ret = "ok" /\ Top.enf = "NO_HASH" => Fine(q)
    BY <2>2, <2>3
  <2> QED BY <1>1, <2>4 DEF UprevsEnforced
<1>2. CASE HashesEnforced
  <2>1. stack # <<>> /\ Top.pc = "hashes" /\ Answered
    BY <1>2 DEF HashesEnforced, Resumed
  <2>2. UprevFine(q, Accepted, Dead)
    BY <2>1, TopKnows DEF SafeInv, Knows, Uprevved
  <2>3. ret = "ok" => \A n \in Listing(q) : HashFine(File(q, n), Accepted)
    BY <2>1, RuleAnswer
  <2>4. ret = "ok" => Fine(q)
    BY <2>2, <2>3
  <2> QED BY <1>2, <2>4 DEF HashesEnforced
<1>3. CASE ~UprevsEnforced /\ ~HashesEnforced
  <2>1. CASE ParseStep
    BY <2>1 DEF ParseStep, FindCached, FindAbsent, TypesParsed, Open, ImportName, ImportPackage,
           Imported, ImportedTypes, Reject, Accept, Enforced, rules
  <2>2. CASE RuleStep
    BY <1>3, <2>2 DEF RuleStep, Enforce, Uprev, UprevNext,
       CurrentParsed, LastParsed, HashNext, HashChecked, DependenciesChecked, Check, Checked,
       Dependencies, DependenciesParsed, DependencyPick, DependencyNext, DependencyHashed, rules
  <2>3. CASE Driver \/ Terminated \/ UNCHANGED vars
    BY <2>3, DriverStack DEF SafeInv, rules
  <2> QED BY <2>1, <2>2, <2>3 DEF Next
<1> QED BY <1>1, <1>2, <1>3

LEMMA NextRecorded ==
    ASSUME SafeInv, KnownInv, PromiseInv, RecordedInv, [Next]_vars
    PROVE  RecordedInv'
<1>1. Grows
  BY StepGrows
<1> SUFFICES ASSUME NEW p \in enforced'
             PROVE  /\ UprevFine(p, Accepted, Dead)'
                    /\ WithHashes' => \A n \in Listing(p)' : HashFine(File(p, n), Accepted)'
  BY DEF RecordedInv
<1>2. /\ UprevFine(p, Accepted, Dead)
      /\ WithHashes => \A n \in Listing(p) : HashFine(File(p, n), Accepted)
  BY RecordSteps DEF RecordedInv
<1>3. PICK S, D : S = Accepted' /\ D = Dead'
  OBVIOUS
<1>4. /\ UprevFine(p, S, D)
      /\ WithHashes => \A n \in Listing(p) : HashFine(File(p, n), S)
  BY <1>1, <1>2, <1>3, UprevFineMore, HashFineMore DEF Grows
<1>5. UprevFine(p, S, D)'
  BY <1>1, <1>4, UprevFineSame DEF Grows
<1>6. WithHashes' = WithHashes /\ Listing(p)' = Listing(p)
  BY <1>1, SameTree DEF Grows, WithHashes
<1>7. \A f : HashFine(f, S) => HashFine(f, S)'
  BY <1>1, HashFineSame DEF Grows
<1> QED BY <1>3, <1>4, <1>5, <1>6, <1>7

LEMMA InitVerdict == ASSUME Init PROVE VerdictInv
<1>1. SafeInv
  BY InitSafe
<1>2. stack = <<>> /\ rejected = {} /\ enforced = {} /\ Accepted = {}
  BY DEF Init, Accepted, Live
<1>3. Depth = {} /\ 1..(Len(stack) - 1) = {}
  BY <1>2 DEF Depth
<1> QED BY <1>1, <1>2, <1>3
   DEF VerdictInv, KnownInv, PromiseInv, FreedInv, GroundedInv, RecordedInv

\* The verdicts the caches hold are justified, for every source tree, every list of
\* targets and every order of the calls: what each activation knows when it goes on,
\* what an answer tells the one it is for, that accepted files rest on each other from
\* the ground up, and that a recorded package was found to keep the rules.
THEOREM VerdictInvHolds == Spec => []VerdictInv
<1>1. ASSUME VerdictInv, [Next]_vars PROVE VerdictInv'
  <2>1. SafeInv /\ KnownInv /\ PromiseInv /\ FreedInv /\ GroundedInv /\ RecordedInv
    BY <1>1 DEF VerdictInv
  <2> QED BY <1>1, <2>1, NextSafe, NextLearns, NextFreed, NextGrounded, NextRecorded
     DEF VerdictInv
<1> QED BY <1>1, InitVerdict, PTL DEF Spec

\* An AST is given to files that are good by what they import, never to a cycle of
\* imports and never on top of a broken file (Coordinator::parseOptional).
THEOREM LiveIsValidHolds == Spec => []LiveIsValid
<1>1. ASSUME VerdictInv PROVE LiveIsValid
  BY <1>1 DEF VerdictInv, GroundedInv, LiveIsValid
<1> QED BY <1>1, VerdictInvHolds, PTL

\* A package that is recorded keeps the rules of the frozen hashes.
LEMMA RecordedKeepsHashes == ASSUME VerdictInv PROVE HashesHold
<1> SUFFICES ASSUME WithHashes, NEW p \in enforced, NEW n \in Listing(p),
                    HashFileOf(p) = "valid"
             PROVE  /\ repo.listed[File(p, n)] # "mismatch"
                    /\ repo.listed[File(p, n)] = "match" =>
                          \A q \in ImportedPackages(File(p, n)) : \A m \in Listing(q) :
                              LookedUp(File(q, m)) = "match"
  BY DEF HashesHold
<1>1. HashFine(File(p, n), Accepted)
  BY DEF VerdictInv, RecordedInv
<1>2. LookedUp(File(p, n)) = repo.listed[File(p, n)]
  BY DEF HashFileOf, LookedUp, File
<1> QED BY <1>1, <1>2 DEF HashFine, DependsOnFrozen, PackageFrozen

\* It keeps the rules of the minor versions.
LEMMA RecordedKeepsUprevs == ASSUME VerdictInv PROVE UprevsHold
<1>1. Dead \cap Live = {}
  <2> SUFFICES ASSUME NEW f \in Live, f \in Dead PROVE FALSE
    OBVIOUS
  <2>1. Exists(f)
    BY AcceptedExist DEF VerdictInv, Accepted
  <2> QED BY <2>1 DEF Dead, Live
<1>2. ASSUME NEW p, NEW n, NEW m, File(p, n) \in Accepted, Follows(p, n, m, Accepted, Dead)
      PROVE  ExtendsLatest(p, n, m)
  BY <1>1, <1>2 DEF Follows, ExtendsLatest
<1> SUFFICES ASSUME NEW p \in enforced, Earlier(p) # {}
             PROVE  /\ PrevPackage(p) \in Earlier(p)
                    /\ ~IsTypesOnly(PrevPackage(p)) =>
                         /\ \E n \in Names : ExtendsLatest(p, n, p.minor - 1)
                         /\ \A n \in Names \ {Types} :
                               /\ File(p, n) \in Live /\ SuperOf(File(p, n)) # NoFile
                               /\ \E m \in 0..(p.minor - 1) : LastOf(p, m, n) \in Live
                               => \E m \in 0..(p.minor - 1) : ExtendsLatest(p, n, m)
  BY DEF UprevsHold
<1>3. UprevFine(p, Accepted, Dead)
  BY DEF VerdictInv, RecordedInv
<1>4. p \in Packages /\ p.minor \in Nat
  BY PackagesAssumption DEF VerdictInv, SafeInv, TypeInv, TypeOK
<1>5. ASSUME ~IsTypesOnly(PrevPackage(p))
      PROVE  \E n \in Names : ExtendsLatest(p, n, p.minor - 1)
  <2>1. PICK n \in Names : /\ SuperOf(File(p, n)) = LastOf(p, p.minor - 1, n)
                           /\ {File(p, n), LastOf(p, p.minor - 1, n)} \subseteq Accepted
    BY <1>3, <1>5 DEF UprevFine, SomeFollows
  <2>2. (p.minor - 1 + 1)..(p.minor - 1) = {}
    BY <1>4
  <2> QED BY <2>1, <2>2 DEF ExtendsLatest
<1>6. ASSUME ~IsTypesOnly(PrevPackage(p)), NEW n \in Names \ {Types},
             File(p, n) \in Live, SuperOf(File(p, n)) # NoFile,
             NEW m \in 0..(p.minor - 1), LastOf(p, m, n) \in Live
      PROVE  \E l \in 0..(p.minor - 1) : ExtendsLatest(p, n, l)
  <2>1. n \in Listing(p)
    BY <1>6, AcceptedExist DEF VerdictInv, Accepted, Listing
  <2>2. NameFine(p, n, Accepted, Dead)
    BY <1>3, <1>6, <2>1 DEF UprevFine
  <2> QED BY <1>1, <1>2, <1>6, <2>2 DEF NameFine
<1> QED BY <1>3, <1>5, <1>6 DEF UprevFine

\* Its files were all parsed.
LEMMA RecordedIsParsed == ASSUME VerdictInv PROVE EnforcedIsParsed
BY DEF VerdictInv, RecordedInv, HashFine, EnforcedIsParsed

\* A package that is recorded in mPackagesEnforced keeps all rules, whatever was
\* parsed, enforced, skipped or freed on the way (enforceRestrictionsOnPackage).
THEOREM RulesHoldHolds == Spec => []RulesHold
<1>1. ASSUME VerdictInv PROVE RulesHold
  BY <1>1, RecordedKeepsHashes, RecordedKeepsUprevs, RecordedIsParsed DEF RulesHold
<1> QED BY <1>1, VerdictInvHolds, PTL

-----------------------------------------------------------------------------
(* Errors.  Hope is the set of files that may still turn out to be good:   *)
(* those that have no null entry, and those being built without an error   *)
(* so far, in them or in what they are building.  It only shrinks, and     *)
(* every file in error is one that could not be good on the hope of then.  *)

Bad == ret \in {"error", "garbage"}

Clean(i) == ~Bad /\ \A j \in Depth : j >= i /\ stack[j].pc \in BuildPCs => ~stack[j].flag

Hope ==
    {f \in Files : Exists(f) /\ \/ cache[f] # "null"
                                \/ \E i \in Depth : stack[i].pc \in BuildPCs
                                                    /\ stack[i].file = f /\ Clean(i)}

\* a file that cannot be parsed if only those of H can
Denied(f, H) ==
    \/ ~Rooted(f.pkg)
    \/ Exists(f) /\ f \notin H
    \/ ~Exists(f) /\ Exists(TypesOf(f.pkg)) /\ TypesOf(f.pkg) \notin H

Flagged(a, H) ==
    a.pc \in BuildPCs /\ a.flag =>
        \E k \in Statements(a.file) : ~ImportHolds(H, Statement(a.file, k))

FlagInv == \A i \in Depth : Flagged(stack[i], Hope)

FailedInv ==
    \A f \in Null \ (Building \cup rejected) : ~Justified(Hope, f) /\ Denied(f, Hope)

\* the top, or what it called, has found an error
Stained == Bad \/ (Top.pc \in BuildPCs /\ Top.flag)

\* a step does not lose the error
Stains ==
    LET Stain(t) == Stained => t.pc \in BuildPCs /\ t.flag
        Builds(t) == t.file = Top.file
                     /\ (t.pc \in BuildPCs => Top.pc \in BuildPCs \/ cache[Top.file] = "absent")
                     /\ (Top.pc \in BuildPCs => t.pc \in BuildPCs \/ Accept)
    IN  \/ \E t : Goto(t) /\ Builds(t) /\ Stain(t)
        \/ \E t, c : Call(t, c) /\ Builds(t) /\ Stain(t) /\ c.pc \notin BuildPCs
        \/ \E v : Return(v) /\ (Stained => v \in {"error", "garbage"})

\* A file has one activation that builds it; where that is, before and after.
LEMMA CleanBefore ==
    ASSUME TypeInv, stack # <<>>, Stains,
           NEW i \in 1..Len(stack'), stack'[i].pc \in BuildPCs, Clean(i)',
           cache[stack'[i].file] # "absent"
    PROVE  /\ i \in Depth /\ stack[i].pc \in BuildPCs /\ stack[i].file = stack'[i].file
           /\ Clean(i)
<1>1. Len(stack) \in Nat \ {0} /\ Len(stack) \in Depth
  BY DEF TypeInv, StackOK, Depth
<1>2. ~Bad' /\ \A j \in 1..Len(stack') : j >= i /\ stack'[j].pc \in BuildPCs => ~stack'[j].flag
  BY DEF Clean, Depth
<1>3. ASSUME NEW t, t.file = Top.file, t.pc \in BuildPCs => Top.pc \in BuildPCs \/ cache[Top.file] = "absent",
             Stained => t.pc \in BuildPCs /\ t.flag,
             Len(stack) \in 1..Len(stack'), stack'[Len(stack)] = t,
             \A d \in 1..(Len(stack) - 1) : d \in 1..Len(stack') /\ stack'[d] = stack[d],
             i <= Len(stack)
      PROVE  /\ i \in Depth /\ stack[i].pc \in BuildPCs /\ stack[i].file = stack'[i].file
             /\ Clean(i)
  <2>1. ~Stained
    BY <1>1, <1>2, <1>3
  <2>2. i \in Depth /\ stack[i].pc \in BuildPCs /\ stack[i].file = stack'[i].file
    <3>1. CASE i = Len(stack)
      BY <1>1, <1>3, <3>1 DEF Top
    <3>2. CASE i # Len(stack)
      <4>1. i \in 1..(Len(stack) - 1)
        BY <1>1, <1>3, <3>2
      <4> QED BY <1>1, <1>3, <4>1 DEF Depth
    <3> QED BY <3>1, <3>2
  <2>3. ASSUME NEW j \in Depth, j >= i, stack[j].pc \in BuildPCs PROVE ~stack[j].flag
    <3>1. CASE j = Len(stack)
      BY <2>1, <2>3, <3>1 DEF Stained, Top
    <3>2. CASE j # Len(stack)
      <4>1. j \in 1..(Len(stack) - 1)
        BY <1>1, <3>2 DEF Depth
      <4> QED BY <1>2, <1>3, <2>3, <4>1
    <3> QED BY <3>1, <3>2
  <2> QED BY <2>1, <2>2, <2>3 DEF Clean, Stained
<1>4. CASE \E t : /\ Goto(t) /\ t.file = Top.file
                  /\ t.pc \in BuildPCs => Top.pc \in BuildPCs \/ cache[Top.file] = "absent"
                  /\ Stained => t.pc \in BuildPCs /\ t.flag
  <2>1. PICK t : /\ Goto(t) /\ t.file = Top.file
                 /\ t.pc \in BuildPCs => Top.pc \in BuildPCs \/ cache[Top.file] = "absent"
                 /\ Stained => t.pc \in BuildPCs /\ t.flag
    BY <1>4
  <2>2. /\ Len(stack') = Len(stack) /\ stack'[Len(stack)] = t
        /\ \A d \in 1..(Len(stack) - 1) : stack'[d] = stack[d]
    BY <2>1, ReplaceLast DEF Goto, TypeInv, StackOK
  <2>3. /\ Len(stack) \in 1..Len(stack') /\ i <= Len(stack)
        /\ \A d \in 1..(Len(stack) - 1) : d \in 1..Len(stack')
    BY <1>1, <2>2
  <2> QED BY <1>3, <2>1, <2>2, <2>3
<1>5. CASE \E t, c : /\ Call(t, c) /\ t.file = Top.file /\ c.pc \notin BuildPCs
                     /\ t.pc \in BuildPCs => Top.pc \in BuildPCs \/ cache[Top.file] = "absent"
                     /\ Stained => t.pc \in BuildPCs /\ t.flag
  <2>1. PICK t, c : /\ Call(t, c) /\ t.file = Top.file /\ c.pc \notin BuildPCs
                    /\ t.pc \in BuildPCs => Top.pc \in BuildPCs \/ cache[Top.file] = "absent"
                    /\ Stained => t.pc \in BuildPCs /\ t.flag
    BY <1>5
  <2>2. /\ Len(stack') = Len(stack) + 1
        /\ stack'[Len(stack)] = t /\ stack'[Len(stack) + 1] = c
        /\ \A d \in 1..(Len(stack) - 1) : stack'[d] = stack[d]
    BY <2>1, Push DEF Call, TypeInv, StackOK
  <2>3. /\ Len(stack) \in 1..Len(stack')
        /\ i <= Len(stack) \/ i = Len(stack) + 1
        /\ \A d \in 1..(Len(stack) - 1) : d \in 1..Len(stack')
    BY <1>1, <2>2
  <2>4. i # Len(stack) + 1
    BY <2>1, <2>2
  <2> QED BY <1>3, <2>1, <2>2, <2>3, <2>4
<1>6. CASE \E v : Return(v) /\ (Stained => v \in {"error", "garbage"})
  <2>1. ~Stained
    BY <1>2, <1>6 DEF Return, Bad
  <2>2. Len(stack') = Len(stack) - 1 /\ \A d \in 1..(Len(stack) - 1) : stack'[d] = stack[d]
    BY <1>6, Pop DEF Return, Below, TypeInv, StackOK
  <2>3. i \in 1..(Len(stack) - 1) /\ i \in Depth
    BY <1>1, <2>2 DEF Depth
  <2>4. ASSUME NEW j \in Depth, j >= i, stack[j].pc \in BuildPCs PROVE ~stack[j].flag
    <3>1. CASE j = Len(stack)
      BY <2>1, <2>4, <3>1 DEF Stained, Top
    <3>2. CASE j # Len(stack)
      <4>1. j \in 1..(Len(stack) - 1)
        BY <1>1, <3>2 DEF Depth
      <4> QED BY <1>2, <2>2, <2>4, <4>1
    <3> QED BY <3>1, <3>2
  <2> QED BY <2>1, <2>2, <2>3, <2>4 DEF Clean, Stained
<1> QED BY <1>4, <1>5, <1>6 DEF Stains

\* a file that is no longer built is the top's
LEMMA NoLongerBuilt ==
    ASSUME TypeInv, stack # <<>>, Stains, NEW f \in Building, f \notin Building'
    PROVE  f = Top.file /\ Top.pc \in BuildPCs /\ (Accept \/ \E v : Return(v))
<1>1. Len(stack) \in Nat \ {0} /\ Len(stack) \in Depth
  BY DEF TypeInv, StackOK, Depth
<1>2. PICK i \in Depth : stack[i].pc \in BuildPCs /\ stack[i].file = f
  BY DEF Building
<1>3. ASSUME NEW d \in 1..Len(stack'), stack'[d].pc \in BuildPCs PROVE stack'[d].file # f
  BY <1>3 DEF Building, Depth
<1>4. i \in 1..(Len(stack) - 1) \/ i = Len(stack)
  BY <1>1 DEF Depth
<1>5. ASSUME \A d \in 1..(Len(stack) - 1) : d \in 1..Len(stack') /\ stack'[d] = stack[d]
      PROVE  i = Len(stack)
  BY <1>2, <1>3, <1>4, <1>5
<1>6. ASSUME NEW t, Goto(t), t.file = Top.file, Top.pc \in BuildPCs => t.pc \in BuildPCs \/ Accept
      PROVE  f = Top.file /\ Top.pc \in BuildPCs /\ Accept
  <2>1. /\ Len(stack') = Len(stack) /\ stack'[Len(stack)] = t
        /\ \A d \in 1..(Len(stack) - 1) : stack'[d] = stack[d]
    BY <1>6, ReplaceLast DEF Goto, TypeInv, StackOK
  <2>2. /\ Len(stack) \in 1..Len(stack')
        /\ \A d \in 1..(Len(stack) - 1) : d \in 1..Len(stack')
    BY <1>1, <2>1
  <2>3. i = Len(stack)
    BY <1>5, <2>1, <2>2
  <2> QED BY <1>2, <1>3, <1>6, <2>1, <2>2, <2>3 DEF Top
<1>7. ASSUME NEW t, NEW c, Call(t, c), t.file = Top.file,
             Top.pc \in BuildPCs => t.pc \in BuildPCs \/ Accept
      PROVE  f = Top.file /\ Top.pc \in BuildPCs /\ Accept
  <2>1. /\ Len(stack') = Len(stack) + 1 /\ stack'[Len(stack)] = t
        /\ \A d \in 1..(Len(stack) - 1) : stack'[d] = stack[d]
    BY <1>7, Push DEF Call, TypeInv, StackOK
  <2>2. /\ Len(stack) \in 1..Len(stack')
        /\ \A d \in 1..(Len(stack) - 1) : d \in 1..Len(stack')
    BY <1>1, <2>1
  <2>3. i = Len(stack)
    BY <1>5, <2>1, <2>2
  <2> QED BY <1>2, <1>3, <1>7, <2>1, <2>2, <2>3 DEF Top
<1>8. ASSUME NEW v, Return(v) PROVE f = Top.file /\ Top.pc \in BuildPCs
  <2>1. Len(stack') = Len(stack) - 1 /\ \A d \in 1..(Len(stack) - 1) : stack'[d] = stack[d]
    BY <1>8, Pop DEF Return, Below, TypeInv, StackOK
  <2>2. i = Len(stack)
    BY <1>5, <2>1
  <2> QED BY <1>2, <2>2 DEF Top
<1> QED BY <1>6, <1>7, <1>8 DEF Stains

LEMMA ParseStains == ASSUME SafeInv, KnownInv, PromiseInv, ParseStep PROVE stack # <<>> /\ Stains
<1>1. stack # <<>>
  BY DEF ParseStep, FindCached, FindAbsent, TypesParsed, Open, ImportName, ImportPackage,
         Imported, ImportedTypes, Reject, Accept, Enforced, At, Resumed
<1> SUFFICES Stains
  BY <1>1
<1>2. Top \in Frames /\ Parsed(Top, Accepted)
  BY <1>1, TopTyped, TopKnows DEF SafeInv, Knows
<1>3. ASSUME NEW t, Goto(t), t.file = Top.file, t.pc \in BuildPCs, Top.pc \in BuildPCs,
             Stained => t.flag
      PROVE  Stains
  BY <1>3 DEF Stains
<1>4. ASSUME NEW t, NEW c, Call(t, c), t.file = Top.file, c.pc \notin BuildPCs,
             t.pc \in BuildPCs, Top.pc \in BuildPCs, Stained => t.flag
      PROVE  Stains
  BY <1>4 DEF Stains
<1>5. ASSUME NEW v, Return(v), ~Stained \/ v \in {"error", "garbage"} PROVE Stains
  BY <1>5 DEF Stains
<1>6. ~Answered => ~Bad
  BY DEF Answered, Bad
<1>7. ASSUME NEW p PROVE /\ [Top EXCEPT !.pc = p].file = Top.file /\ [Top EXCEPT !.pc = p].pc = p
                         /\ [Top EXCEPT !.pc = p].flag = Top.flag
  BY <1>2 DEF Frames
<1>8. CASE FindCached
  <2>1. ~Stained
    BY <1>6, <1>8 DEF FindCached, At, Stained, BuildPCs
  <2> QED BY <1>5, <1>8, <2>1 DEF FindCached
<1>9. CASE FindAbsent
  <2>1. ~Stained /\ Top.pc \notin BuildPCs /\ cache[Top.file] = "absent"
    BY <1>6, <1>9 DEF FindAbsent, At, Stained, BuildPCs
  <2>2. Parse(TypesOf(Top.file.pkg), "NONE").pc \notin BuildPCs
    BY DEF Parse, Activation, BuildPCs
  <2>3. ASSUME NEW t, t.file = Top.file, Goto(t) PROVE Stains
    BY <2>1, <2>3 DEF Stains
  <2>4. ASSUME NEW t, t.file = Top.file, Call(t, Parse(TypesOf(Top.file.pkg), "NONE"))
        PROVE  Stains
    BY <2>1, <2>2, <2>4 DEF Stains
  <2>5. ASSUME Goto([Top EXCEPT !.pc = "open"]) PROVE Stains
    BY <1>7, <2>3, <2>5
  <2>6. ASSUME Call([Top EXCEPT !.pc = "types"], Parse(TypesOf(Top.file.pkg), "NONE"))
        PROVE  Stains
    BY <1>7, <2>4, <2>6
  <2> QED BY <1>9, <2>5, <2>6 DEF FindAbsent
<1>10. CASE TypesParsed
  <2>1. Top.pc = "types" /\ ~Top.flag
    BY <1>2, <1>10 DEF TypesParsed, Resumed, Parsed
  <2>2. ASSUME ret \in {"ok", "missing"}, Goto([Top EXCEPT !.pc = "open"]) PROVE Stains
    <3>1. ~Stained
      BY <2>1, <2>2 DEF Stained, Bad
    <3> QED BY <1>3, <1>7, <2>1, <2>2, <3>1 DEF BuildPCs
  <2> QED BY <1>5, <1>10, <2>2 DEF TypesParsed
<1>11. CASE Open
  <2>1. Top.pc = "open" /\ ~Stained
    BY <1>2, <1>6, <1>11 DEF Open, At, Parsed, Stained
  <2>2. ASSUME Goto([Top EXCEPT !.pc = "import"]) PROVE Stains
    BY <1>3, <1>7, <2>1, <2>2 DEF BuildPCs
  <2> QED BY <1>5, <1>11, <2>1, <2>2 DEF Open
<1>12. ASSUME Top.pc \in ImportPCs, BadImport PROVE Stains
  <2> DEFINE t == [Top EXCEPT !.pc = "import", !.k = @ + 1, !.j = 0, !.flag = TRUE]
  <2>1. Goto(t) /\ t.pc = "import" /\ t.file = Top.file /\ t.flag
    BY <1>2, <1>12 DEF BadImport, Frames
  <2> QED BY <1>3, <1>12, <2>1 DEF BuildPCs, ImportPCs
<1>13. ASSUME Top.pc \in ImportPCs, GoodImport, ~Bad PROVE Stains
  <2> DEFINE t == [Top EXCEPT !.pc = "import", !.k = @ + 1, !.j = 0]
  <2>1. Goto(t) /\ t.pc = "import" /\ t.file = Top.file /\ t.flag = Top.flag
    BY <1>2, <1>13 DEF GoodImport, Frames
  <2> QED BY <1>3, <1>13, <2>1 DEF BuildPCs, ImportPCs, Stained
<1>14. ASSUME Top.pc \in ImportPCs, ~Bad, NEW t, NEW f, NEW g, Call(t, ParseInto(f, g)),
              t.file = Top.file, t.pc \in ImportPCs, t.flag = Top.flag
       PROVE  Stains
  <2>1. ParseInto(f, g).pc \notin BuildPCs
    BY DEF ParseInto, Activation, BuildPCs
  <2> QED BY <1>4, <1>14, <2>1 DEF BuildPCs, ImportPCs, Stained
<1>15. CASE ImportName
  <2> DEFINE t == [Top EXCEPT !.pc = "importing"]
  <2>1. Top.pc \in ImportPCs /\ ~Bad /\ \E f, g : Call(t, ParseInto(f, g))
    BY <1>6, <1>15 DEF ImportName, At, ImportPCs
  <2>2. t.file = Top.file /\ t.pc \in ImportPCs /\ t.flag = Top.flag
    BY <1>7 DEF ImportPCs
  <2> HIDE DEF t
  <2> QED BY <1>14, <2>1, <2>2
<1>16. CASE ImportPackage
  <2>1. Top.pc \in ImportPCs /\ ~Bad
    BY <1>6, <1>16 DEF ImportPackage, At, ImportPCs
  <2>2. ASSUME NEW n PROVE /\ [Top EXCEPT !.pc = "importing", !.j = n].file = Top.file
                           /\ [Top EXCEPT !.pc = "importing", !.j = n].pc \in ImportPCs
                           /\ [Top EXCEPT !.pc = "importing", !.j = n].flag = Top.flag
    BY <1>2 DEF Frames, ImportPCs
  <2>3. \/ BadImport \/ GoodImport
        \/ \E n, f, g : Call([Top EXCEPT !.pc = "importing", !.j = n], ParseInto(f, g))
    BY <1>16 DEF ImportPackage
  <2> QED BY <1>12, <1>13, <1>14, <2>1, <2>2, <2>3
<1>17. CASE Imported
  <2>1. Top.pc \in ImportPCs
    BY <1>17 DEF Imported, Resumed, ImportPCs
  <2>2. ASSUME Goto([Top EXCEPT !.pc = "import", !.j = @ + 1]), ~Bad PROVE Stains
    <3> DEFINE t == [Top EXCEPT !.pc = "import", !.j = @ + 1]
    <3>1. Goto(t) /\ t.pc = "import" /\ t.file = Top.file /\ t.flag = Top.flag
      BY <1>2, <2>2 DEF Frames
    <3> QED BY <1>3, <2>1, <2>2, <3>1 DEF BuildPCs, ImportPCs, Stained
  <2>3. ASSUME Call([Top EXCEPT !.pc = "importTypes"],
                    ParseInto(TypesOf(Statement(Top.file, Top.k).pkg), Top.file)), ~Bad
        PROVE  Stains
    BY <1>7, <1>14, <2>1, <2>3 DEF ImportPCs
  <2>4. ret \in {"ok", "missing"} => ~Bad
    BY DEF Bad
  <2> QED BY <1>12, <1>13, <1>17, <2>1, <2>2, <2>3, <2>4 DEF Imported
<1>18. CASE ImportedTypes
  <2>1. ret = "ok" => ~Bad
    BY DEF Bad
  <2> QED BY <1>12, <1>13, <1>18, <2>1 DEF ImportedTypes, Resumed, ImportPCs
<1>19. CASE Reject
  BY <1>5, <1>19 DEF Reject
<1>20. CASE Accept
  <2> DEFINE t == [Top EXCEPT !.pc = "enforcing"]
             c == Rule("enforce", Top.file, Top.enf)
  <2>1. ~Stained
    BY <1>6, <1>20 DEF Accept, At, Stained
  <2>2. c.pc \notin BuildPCs
    BY DEF Rule, Activation, BuildPCs
  <2>3. Call(t, c) /\ t.file = Top.file /\ t.pc = "enforcing"
    BY <1>7, <1>20 DEF Accept
  <2> QED BY <1>20, <2>1, <2>2, <2>3 DEF Stains, BuildPCs
<1>21. CASE Enforced
  <2>1. ret = "ok" => ~Stained
    BY <1>21 DEF Enforced, Resumed, Stained, Bad, BuildPCs
  <2> QED BY <1>5, <1>21, <2>1 DEF Enforced
<1> QED BY <1>8, <1>9, <1>10, <1>11, <1>15, <1>16, <1>17, <1>18, <1>19, <1>20, <1>21 DEF ParseStep

LEMMA RuleStains ==
    ASSUME SafeInv, KnownInv, PromiseInv, RuleStep, Building # {}
    PROVE  Stains
<1>1. stack # <<>> /\ Top.pc \in RulePCs
  BY RuleStepMoves
<1>2. Top.pc = "enforce"
  BY <1>1, NothingBuilt
<1>3. Enforce
  BY <1>2 DEF RuleStep, UprevsEnforced, HashesEnforced, Uprev, UprevNext,
     CurrentParsed, LastParsed, HashNext, HashChecked, DependenciesChecked, Check, Checked,
     Dependencies, DependenciesParsed, DependencyPick, DependencyNext, DependencyHashed, At, Resumed
<1>4. PICK d \in Depth : stack[d].pc \in BuildPCs
  BY DEF Building
<1>5. d \in 1..(Len(stack) - 1)
  <2>1. d # Len(stack)
    BY <1>2, <1>4 DEF Top, BuildPCs
  <2> QED BY <2>1 DEF Depth, SafeInv, TypeInv, StackOK
<1>6. Top.enf = "NONE"
  BY <1>1, <1>4, <1>5, BelowTop DEF SafeInv, Nested
<1>7. Return("ok") /\ ~Stained
  BY <1>2, <1>3, <1>6 DEF Enforce, At, Answered, Stained, Bad, BuildPCs
<1> QED BY <1>7 DEF Stains

LEMMA HopeShrinks ==
    ASSUME SafeInv, KnownInv, PromiseInv, [Next]_vars
    PROVE  Hope' \subseteq Hope
<1>1. Grows
  BY StepGrows
<1>2. \A f : Exists(f)' = Exists(f)
  BY <1>1, SameTree DEF Grows
<1> SUFFICES ASSUME NEW f \in Files, Exists(f),
                    \/ cache'[f] # "null"
                    \/ \E i \in 1..Len(stack') : stack'[i].pc \in BuildPCs
                                                 /\ stack'[i].file = f /\ Clean(i)'
             PROVE  f \in Hope
  BY <1>2 DEF Hope, Depth
<1>3. cache[f] # "null" => f \in Hope
  BY DEF Hope
<1>4. CASE cache'[f] # "null"
  <2>1. CASE Accept
    <3>1. /\ stack # <<>> /\ Top.pc = "import" /\ ~Top.flag /\ ~Bad
          /\ cache' = [cache EXCEPT ![Top.file] = "ast"]
      BY <2>1 DEF Accept, At, Answered, Bad
    <3>2. CASE f = Top.file
      <4>1. Len(stack) \in Depth /\ \A j \in Depth : j >= Len(stack) => j = Len(stack)
        BY <3>1 DEF SafeInv, TypeInv, StackOK, Depth
      <4>2. Clean(Len(stack))
        BY <3>1, <4>1 DEF Clean, Top
      <4> QED BY <3>1, <3>2, <4>1, <4>2 DEF Hope, Top, BuildPCs
    <3>3. CASE f # Top.file
      BY <1>3, <1>4, <3>1, <3>3 DEF SafeInv, TypeInv, TypeOK
    <3> QED BY <3>2, <3>3
  <2>2. CASE ~Accept
    <3>1. cache'[f] = cache[f] \/ cache[f] # "null"
      <4>1. CASE FindAbsent
        BY <4>1 DEF FindAbsent, SafeInv, TypeInv, TypeOK
      <4>2. CASE Open
        BY <4>2 DEF Open, SafeInv, TypeInv, TypeOK
      <4>3. CASE Enforced
        BY <1>4, <4>3 DEF Enforced, SafeInv, TypeInv, TypeOK
      <4>4. CASE ParseStep /\ ~FindAbsent /\ ~Open /\ ~Enforced
        BY <2>2, <4>4 DEF ParseStep, FindCached, TypesParsed, ImportName, ImportPackage,
           Imported, ImportedTypes, Reject, files
      <4>5. CASE RuleStep
        BY <4>5, RuleStepMoves
      <4>6. CASE Driver \/ Terminated \/ UNCHANGED vars
        BY <4>6, DriverStack DEF SafeInv, files
      <4> QED BY <4>1, <4>2, <4>3, <4>4, <4>5, <4>6 DEF Next
    <3> QED BY <1>3, <1>4, <3>1
  <2> QED BY <2>1, <2>2
<1>5. ASSUME NEW i \in 1..Len(stack'), stack'[i].pc \in BuildPCs, stack'[i].file = f, Clean(i)'
      PROVE  f \in Hope
  <2>1. f \in Building' /\ (cache[f] = "absent" \/ f \in Building)
    <3>1. f \in Building'
      BY <1>5 DEF Building, Depth
    <3> QED BY <3>1, BuildingAfter
  <2>2. CASE cache[f] = "absent"
    BY <1>3, <2>2
  <2>3. ASSUME stack # <<>>, Stains, cache[f] # "absent" PROVE f \in Hope
    BY <1>5, <2>3, CleanBefore DEF SafeInv, Hope
  <2>4. CASE ParseStep
    BY <2>2, <2>3, <2>4, ParseStains
  <2>5. CASE RuleStep
    BY <2>1, <2>2, <2>3, <2>5, RuleStains, RuleStepMoves
  <2>6. CASE Driver \/ Terminated \/ UNCHANGED vars
    <3>1. CASE stack' = stack /\ ret' = ret
      BY <1>5, <3>1 DEF Hope, Clean, Depth, Bad
    <3>2. CASE stack = <<>> /\ stack' = stack
      BY <1>5, <3>2
    <3>3. ASSUME NEW g, NEW e, stack' = <<Parse(g, e)>> PROVE FALSE
      BY <1>5, <3>3 DEF Parse, Activation, BuildPCs
    <3> QED BY <2>6, <3>1, <3>2, <3>3, DriverStack DEF SafeInv
  <2> QED BY <2>4, <2>5, <2>6 DEF Next
<1> QED BY <1>4, <1>5

\* nobody waits at an error but those who called
LEMMA EveryoneWaits ==
    ASSUME KnownInv, PromiseInv, TypeInv, stack # <<>>, Answered, NEW i \in Depth
    PROVE  \E pc, f : Waits(stack[i], pc, f)
<1>1. CASE i = Len(stack)
  BY <1>1 DEF PromiseInv, Top
<1>2. CASE i # Len(stack)
  <2>1. i \in 1..(Len(stack) - 1)
    BY <1>2 DEF TypeInv, StackOK, Depth
  <2> QED BY <2>1 DEF KnownInv
<1> QED BY <1>1, <1>2

LEMMA BadAnswer ==
    ASSUME VerdictInv, FailedInv, stack # <<>>, Bad,
           NEW pc \in ParsePCs, NEW f \in Null, Waits(Top, pc, f)
    PROVE  Denied(f, Hope)
<1>1. Answered /\ \A g \in Null : g \notin Hope
  BY DEF Bad, Answered, Hope, Clean, Null
<1>2. CASE f \notin Building
  <2>1. CASE f \in rejected
    <3>1. Exists(f)
      BY <2>1, AcceptedExist DEF VerdictInv, Accepted
    <3> QED BY <1>1, <3>1 DEF Denied
  <2>2. CASE f \notin rejected
    BY <1>2, <2>2 DEF FailedInv
  <2> QED BY <2>1, <2>2
<1>3. CASE Exists(f)
  BY <1>1, <1>3 DEF Denied
<1>4. ASSUME NEW i \in Depth, stack[i].pc \in BuildPCs, stack[i].file = f, ~Exists(f)
      PROVE  Denied(f, Hope)
  <2>1. Parsed(stack[i], Accepted) /\ \E p, g : Waits(stack[i], p, g)
    BY <1>1, EveryoneWaits DEF VerdictInv, SafeInv, KnownInv, Knows
  <2>2. stack[i].pc = "types" /\ f.name # Types
    BY <1>4, <2>1 DEF Parsed, ImportPCs, BuildPCs, Waits
  <2>3. i # Len(stack)
    BY <1>4, <2>2 DEF Top, Waits, TypesOf, File
  <2>4. i \in 1..(Len(stack) - 1) /\ i + 1 \in Depth /\ i < i + 1
    BY <2>3 DEF Depth, VerdictInv, SafeInv, TypeInv, StackOK
  <2> DEFINE b == stack[i + 1]
             T == TypesOf(f.pkg)
  <2>5. b.pc \in ParsePCs /\ b.file = T
    BY <1>4, <2>2, <2>4 DEF VerdictInv, KnownInv, Waits
  <2>6. b.enf = "NONE"
    BY <1>4, <2>4 DEF VerdictInv, SafeInv, StackInv, Nested
  <2>7. Parsed(b, Accepted) /\ \E p, g : Waits(b, p, g)
    BY <1>1, <2>4, EveryoneWaits DEF VerdictInv, SafeInv, KnownInv, Knows
  <2>8. b.pc \in ImportPCs \/ b.pc = "enforcing"
    BY <2>5, <2>7 DEF Waits, Parsed, ParsePCs, ImportPCs, TypesOf, File
  <2>9. b.pc # "enforcing"
    <3> SUFFICES ASSUME b.pc = "enforcing" PROVE FALSE
      OBVIOUS
    <3>1. CASE i + 1 = Len(stack)
      BY <1>1, <2>6, <3>1 DEF VerdictInv, SafeInv, AnswerInv, Top, Bad
    <3>2. CASE i + 1 # Len(stack)
      <4>1. i + 1 \in 1..(Len(stack) - 1) /\ i + 1 + 1 \in Depth
        BY <2>4, <3>2 DEF Depth, VerdictInv, SafeInv, TypeInv, StackOK
      <4>2. stack[i + 1 + 1].pc \in Enforcers /\ stack[i + 1 + 1].enf = "NONE"
        BY <2>6, <4>1 DEF VerdictInv, SafeInv, StackInv, Linked
      <4>3. stack[i + 1 + 1].pc = "enforce"
        BY <4>1, <4>2 DEF VerdictInv, SafeInv, StackInv, Framed, Enforcers, RulePCs
      <4> QED BY <1>1, <4>1, <4>3, EveryoneWaits DEF VerdictInv, SafeInv, Waits
    <3> QED BY <3>1, <3>2
  <2>10. Exists(T) /\ T \in Null
    <3>1. Exists(T)
      BY <2>5, <2>7, <2>8, <2>9 DEF Parsed
    <3>2. cache[b.file] = "null" /\ b.file \in Files
      <4>1. b \in Frames
        BY <2>4 DEF VerdictInv, SafeInv, TypeInv, StackOK, Depth
      <4> QED BY <2>4, <2>8, <2>9, <4>1
         DEF VerdictInv, SafeInv, StackInv, Framed, BuildPCs, ImportPCs, Frames
    <3> QED BY <2>5, <3>1, <3>2 DEF Null
  <2> QED BY <1>1, <1>4, <2>10 DEF Denied
<1> QED BY <1>2, <1>3, <1>4 DEF Building

\* what an error of a parse means to the parse that asked for f
LEMMA BadImportAnswer ==
    ASSUME VerdictInv, FailedInv, stack # <<>>, Answered,
           Top.pc \in {"types", "importing", "importTypes"}
    PROVE  /\ ret \in {"ok", "missing", "error", "garbage"}
           /\ Bad /\ Top.pc = "types" => Denied(TypesOf(Top.file.pkg), Hope)
           /\ Bad /\ Top.pc = "importing" => Denied(Wanted(Top), Hope)
           /\ Bad /\ Top.pc = "importTypes" => Denied(TypesOf(NextImport(Top).pkg), Hope)
<1>1. PICK pc \in PCs, f \in Files :
          Waits(Top, pc, f) /\ Delivers(pc, f, ret, Accepted, Null, Dead)
  BY DEF VerdictInv, PromiseInv
<1>2. pc \in ParsePCs
  BY <1>1 DEF Waits
<1>3. ret \in {"ok", "missing", "error", "garbage"} /\ (Bad => f \in Null)
  BY <1>1, <1>2 DEF Delivers, Bad
<1>4. Bad => Denied(f, Hope)
  BY <1>1, <1>2, <1>3, BadAnswer
<1> QED BY <1>1, <1>3, <1>4 DEF Waits

-----------------------------------------------------------------------------
(* Errors are justified.                                                   *)

LEMMA HopeExists == \A f \in Hope : Exists(f)
BY DEF Hope

\* every file that is being built with an error has an import that cannot work out
Flags ==
    \/ \E t : Goto(t) /\ Flagged(t, Hope)
    \/ \E t, c : Call(t, c) /\ Flagged(t, Hope) /\ c.pc \notin BuildPCs
    \/ \E v : Return(v)

LEMMA TopFlagged ==
    ASSUME TypeInv, FlagInv, stack # <<>>,
           NEW t, t.file = Top.file, t.flag = Top.flag, ~t.flag \/ Top.pc \in BuildPCs
    PROVE  Flagged(t, Hope)
<1>1. Len(stack) \in Depth
  BY DEF TypeInv, StackOK, Depth
<1>2. Flagged(Top, Hope)
  BY <1>1 DEF FlagInv, Top
<1> QED BY <1>2 DEF Flagged

LEMMA ImportFlags ==
    ASSUME TypeInv, FlagInv, stack # <<>>, Top.pc \in ImportPCs, Top.k \in Statements(Top.file),
           GoodImport \/ (BadImport /\ ~ImportHolds(Hope, NextImport(Top)))
    PROVE  Flags
<1>1. Top \in Frames
  BY TopTyped
<1>2. CASE GoodImport
  <2> DEFINE t == [Top EXCEPT !.pc = "import", !.k = @ + 1, !.j = 0]
  <2>1. Goto(t) /\ t.file = Top.file /\ t.flag = Top.flag
    BY <1>1, <1>2 DEF GoodImport, Frames
  <2> HIDE DEF t
  <2>2. Flagged(t, Hope)
    BY <2>1, TopFlagged DEF ImportPCs, BuildPCs
  <2> QED BY <2>1, <2>2 DEF Flags
<1>3. CASE BadImport /\ ~ImportHolds(Hope, NextImport(Top))
  <2> DEFINE t == [Top EXCEPT !.pc = "import", !.k = @ + 1, !.j = 0, !.flag = TRUE]
  <2>1. Goto(t) /\ t.file = Top.file
    BY <1>1, <1>3 DEF BadImport, Frames
  <2> HIDE DEF t
  <2>2. Flagged(t, Hope)
    BY <1>3, <2>1 DEF Flagged, NextImport
  <2> QED BY <2>1, <2>2 DEF Flags
<1> QED BY <1>2, <1>3

LEMMA ImportPackageFlags ==
    ASSUME VerdictInv, FlagInv, ImportPackage
    PROVE  Flags
<1> DEFINE s == NextImport(Top)
<1>1. /\ stack # <<>> /\ Top.pc = "import" /\ Top.k \in Statements(Top.file)
      /\ s.top = WholePackage /\ TypeInv
  BY DEF ImportPackage, At, NextImport, VerdictInv, SafeInv
<1>2. CASE ~HasSources(s.pkg) /\ BadImport
  BY <1>1, <1>2, ImportFlags DEF ImportPCs, ImportHolds
<1>3. CASE GoodImport
  BY <1>1, <1>3, ImportFlags DEF ImportPCs
<1>4. ASSUME NEW n, NEW f, NEW g,
             Call([Top EXCEPT !.pc = "importing", !.j = n], ParseInto(f, g))
      PROVE  Flags
  <2> DEFINE t == [Top EXCEPT !.pc = "importing", !.j = n]
  <2>1. t.file = Top.file /\ t.flag = Top.flag
    BY <1>1, TopTyped DEF Frames
  <2>2. Call(t, ParseInto(f, g)) /\ ParseInto(f, g).pc \notin BuildPCs
    BY <1>4 DEF ParseInto, Activation, BuildPCs
  <2> HIDE DEF t
  <2>3. Flagged(t, Hope)
    BY <1>1, <2>1, TopFlagged DEF BuildPCs
  <2> QED BY <2>2, <2>3 DEF Flags
<1> QED BY <1>2, <1>3, <1>4 DEF ImportPackage, NextImport

LEMMA ImportedFlags ==
    ASSUME VerdictInv, FailedInv, FlagInv, Imported
    PROVE  Flags
<1> DEFINE s == NextImport(Top)
           f == File(s.pkg, s.top)
           defines == s.inner = NoInner \/ <<s.top, s.inner>> \in repo.defs[f]
<1>1. stack # <<>> /\ Top.pc = "importing" /\ Answered /\ TypeInv
  BY DEF Imported, Resumed, VerdictInv, SafeInv
<1>2. /\ Parsed(Top, Accepted) /\ Top.k \in Statements(Top.file)
      /\ ret = "ok" => Wanted(Top) \in Accepted
      /\ ret = "missing" => ~Exists(Wanted(Top))
  BY <1>1, TopKnows, ImportAnswer DEF VerdictInv, SafeInv, Knows, Parsed, Given
<1>3. /\ ret \in {"ok", "missing", "error", "garbage"}
      /\ ret \in {"error", "garbage"} => Denied(Wanted(Top), Hope)
  BY <1>1, BadImportAnswer DEF Bad
<1>4. CASE GoodImport
  BY <1>1, <1>2, <1>4, ImportFlags DEF ImportPCs
<1>5. CASE s.top = WholePackage /\ ret # "ok" /\ BadImport
  <2>1. HasSources(s.pkg) /\ Top.j \in Listing(s.pkg) /\ Exists(File(s.pkg, Top.j))
    BY <1>1, <1>2, <1>5 DEF Parsed, NextName, Listing
  <2>2. Denied(File(s.pkg, Top.j), Hope)
    BY <1>2, <1>3, <1>5, <2>1 DEF Wanted
  <2>3. File(s.pkg, Top.j) \notin Hope
    BY <2>1, <2>2 DEF Denied, HasSources, File
  <2>4. ~ImportHolds(Hope, s)
    BY <1>5, <2>1, <2>3 DEF ImportHolds
  <2> QED BY <1>1, <1>2, <1>5, <2>4, ImportFlags DEF ImportPCs
<1>6. CASE s.top # WholePackage /\ ret = "ok" /\ ~defines /\ BadImport
  <2>1. Exists(f)
    BY <1>2, <1>6, AcceptedExist DEF Wanted, VerdictInv
  <2>2. ~ImportHolds(Hope, s)
    BY <1>6, <2>1 DEF ImportHolds
  <2> QED BY <1>1, <1>2, <1>6, <2>2, ImportFlags DEF ImportPCs
<1>7. CASE s.top # WholePackage /\ ret \notin {"ok", "missing"} /\ BadImport
  <2>1. Denied(f, Hope)
    BY <1>3, <1>7 DEF Wanted
  <2>2. ~ImportHolds(Hope, s)
    BY <1>7, <2>1, HopeExists DEF Denied, ImportHolds, File
  <2> QED BY <1>1, <1>2, <1>7, <2>2, ImportFlags DEF ImportPCs
<1>8. CASE Goto([Top EXCEPT !.pc = "import", !.j = @ + 1])
  <2> DEFINE t == [Top EXCEPT !.pc = "import", !.j = @ + 1]
  <2>1. Goto(t) /\ t.file = Top.file /\ t.flag = Top.flag
    BY <1>1, <1>8, TopTyped DEF Frames
  <2> HIDE DEF t
  <2>2. Flagged(t, Hope)
    BY <1>1, <2>1, TopFlagged DEF BuildPCs
  <2> QED BY <2>1, <2>2 DEF Flags
<1>9. ASSUME NEW g, NEW h, Call([Top EXCEPT !.pc = "importTypes"], ParseInto(g, h))
      PROVE  Flags
  <2> DEFINE t == [Top EXCEPT !.pc = "importTypes"]
  <2>1. t.file = Top.file /\ t.flag = Top.flag
    BY <1>1, TopTyped DEF Frames
  <2>2. Call(t, ParseInto(g, h)) /\ ParseInto(g, h).pc \notin BuildPCs
    BY <1>9 DEF ParseInto, Activation, BuildPCs
  <2> HIDE DEF t
  <2>3. Flagged(t, Hope)
    BY <1>1, <2>1, TopFlagged DEF BuildPCs
  <2> QED BY <2>2, <2>3 DEF Flags
<1> QED BY <1>4, <1>5, <1>6, <1>7, <1>8, <1>9 DEF Imported, NextImport

LEMMA ImportedTypesFlags ==
    ASSUME VerdictInv, FailedInv, FlagInv, ImportedTypes
    PROVE  Flags
<1> DEFINE s == NextImport(Top)
           t == TypesOf(s.pkg)
<1>1. stack # <<>> /\ Top.pc = "importTypes" /\ Answered /\ TypeInv
  BY DEF ImportedTypes, Resumed, VerdictInv, SafeInv
<1>2. /\ Parsed(Top, Accepted) /\ Top.k \in Statements(Top.file)
      /\ ret = "missing" => ~Exists(t)
  BY <1>1, TopKnows, ImportAnswer DEF VerdictInv, SafeInv, Knows, Parsed, Given
<1>3. /\ ret \in {"ok", "missing", "error", "garbage"}
      /\ ret \in {"error", "garbage"} => Denied(t, Hope)
  BY <1>1, BadImportAnswer DEF Bad
<1>4. CASE GoodImport
  BY <1>1, <1>2, <1>4, ImportFlags DEF ImportPCs
<1>5. CASE BadImport /\ ~(ret = "ok" /\ <<s.top, s.inner>> \in repo.defs[t])
  <2>1. /\ s.top # WholePackage /\ Rooted(s.pkg) /\ ~Exists(File(s.pkg, s.top))
    BY <1>1, <1>2 DEF Parsed
  <2>2. TypesOf(t.pkg) = t /\ t.pkg = s.pkg
    BY DEF TypesOf, File
  <2>3. ret # "ok" => t \notin Hope
    BY <1>2, <1>3, <2>1, <2>2, HopeExists DEF Denied
  <2>4. ~ImportHolds(Hope, s)
    BY <1>5, <2>1, <2>3, HopeExists DEF ImportHolds
  <2> QED BY <1>1, <1>2, <1>5, <2>4, ImportFlags DEF ImportPCs
<1> QED BY <1>4, <1>5 DEF ImportedTypes, NextImport

LEMMA ParseStepFlags ==
    ASSUME VerdictInv, FailedInv, FlagInv, ParseStep
    PROVE  Flags
<1>1. /\ stack # <<>> /\ TypeInv
      /\ Top.pc \in {"find", "types", "open"} => ~Top.flag
  <2>1. stack # <<>>
    BY DEF ParseStep, FindCached, FindAbsent, TypesParsed, Open, ImportName, ImportPackage,
           Imported, ImportedTypes, Reject, Accept, Enforced, At, Resumed
  <2> QED BY <2>1, TopKnows DEF VerdictInv, SafeInv, Knows, Parsed
<1>2. ASSUME NEW p, ~Top.flag \/ Top.pc \in BuildPCs
      PROVE  Flagged([Top EXCEPT !.pc = p], Hope)
  <2> DEFINE t == [Top EXCEPT !.pc = p]
  <2>1. t.file = Top.file /\ t.flag = Top.flag
    BY <1>1, TopTyped DEF Frames
  <2> HIDE DEF t
  <2>2. Flagged(t, Hope)
    BY <1>1, <1>2, <2>1, TopFlagged
  <2> QED BY <2>2 DEF t
<1>3. \A f, g, e : ParseInto(f, g).pc \notin BuildPCs /\ Parse(f, e).pc \notin BuildPCs
                   /\ Rule("enforce", f, e).pc \notin BuildPCs
  BY DEF ParseInto, Parse, Rule, Activation, BuildPCs
<1>4. CASE FindCached \/ Reject \/ Enforced
  BY <1>4 DEF FindCached, Reject, Enforced, Flags
<1>5. CASE FindAbsent
  BY <1>1, <1>2, <1>3, <1>5 DEF FindAbsent, At, Flags
<1>6. CASE TypesParsed
  BY <1>1, <1>2, <1>6 DEF TypesParsed, Resumed, Flags
<1>7. CASE Open
  BY <1>1, <1>2, <1>7 DEF Open, At, Flags
<1>8. CASE ImportName
  BY <1>2, <1>3, <1>8 DEF ImportName, At, Flags, BuildPCs
<1>9. CASE Accept
  BY <1>2, <1>3, <1>9 DEF Accept, At, Flags
<1> QED BY <1>4, <1>5, <1>6, <1>7, <1>8, <1>9, ImportPackageFlags, ImportedFlags,
           ImportedTypesFlags DEF ParseStep

\* the source tree stays, and what could not work out with it
LEMMA JustifiedBack ==
    ASSUME tree' = tree, NEW S
    PROVE  /\ \A s : ImportHolds(S, s)' => ImportHolds(S, s)
           /\ \A f : Justified(S, f)' => Justified(S, f)
           /\ \A f : Denied(f, S)' = Denied(f, S)
<1>1. \A s : ImportHolds(S, s)' => ImportHolds(S, s)
  BY SameTree, SameRepo DEF ImportHolds, TypesOf, File
<1>2. \A f : Justified(S, f)' => Justified(S, f)
  BY <1>1, SameTree, SameRepo DEF Justified, TypesOf, File
<1>3. \A f : Denied(f, S)' = Denied(f, S)
  BY SameTree DEF Denied, TypesOf, File
<1> QED BY <1>1, <1>2, <1>3

LEMMA FlaggedLess ==
    ASSUME tree' = tree, NEW H, NEW K, K \subseteq H, NEW a, Flagged(a, H)
    PROVE  Flagged(a, K)'
<1>1. ASSUME NEW s, ImportHolds(K, s)' PROVE ImportHolds(H, s)
  BY <1>1, JustifiedBack, ImportHoldsMore
<1>2. \A f, k : Statements(f)' = Statements(f) /\ Statement(f, k)' = Statement(f, k)
  BY SameTree
<1> QED BY <1>1, <1>2 DEF Flagged

LEMMA FailedLess ==
    ASSUME tree' = tree, NEW H, NEW K, K \subseteq H, NEW f
    PROVE  /\ ~Justified(H, f) => ~Justified(K, f)'
           /\ Denied(f, H) => Denied(f, K)'
<1>1. ~Justified(H, f) => ~Justified(K, f)'
  BY JustifiedBack, JustifiedMore
<1>2. Denied(f, H) => Denied(f, K)
  BY DEF Denied
<1> QED BY <1>1, <1>2, JustifiedBack

LEMMA NextFlagged ==
    ASSUME VerdictInv, FailedInv, FlagInv, [Next]_vars
    PROVE  FlagInv'
<1>1. Grows /\ Hope' \subseteq Hope /\ TypeInv
  BY StepGrows, HopeShrinks DEF VerdictInv, SafeInv
<1>2. PICK K : K = Hope'
  OBVIOUS
<1>3. ASSUME NEW a, Flagged(a, Hope) PROVE Flagged(a, K)'
  BY <1>1, <1>2, <1>3, FlaggedLess DEF Grows
<1>4. ASSUME NEW d, NEW a, stack'[d] = a, Flagged(a, K)' PROVE Flagged(stack[d], Hope)'
  BY <1>2, <1>4
<1> SUFFICES ASSUME NEW i \in 1..Len(stack')
             PROVE  stack'[i].pc \notin BuildPCs \/ (\E a : stack'[i] = a /\ Flagged(a, Hope))
  <2>1. ASSUME NEW i \in 1..Len(stack'),
               stack'[i].pc \notin BuildPCs \/ (\E a : stack'[i] = a /\ Flagged(a, Hope))
        PROVE  Flagged(stack[i], Hope)'
    <3>1. stack'[i].pc \notin BuildPCs => Flagged(stack[i], Hope)'
      BY DEF Flagged
    <3>2. (\E a : stack'[i] = a /\ Flagged(a, Hope)) => Flagged(stack[i], Hope)'
      BY <1>3, <1>4
    <3> QED BY <2>1, <3>1, <3>2
  <2> QED BY <2>1 DEF FlagInv, Depth
<1>5. \A d \in Depth : Flagged(stack[d], Hope)
  BY DEF FlagInv
<1>6. CASE stack' = stack
  BY <1>5, <1>6 DEF Depth
<1>7. ASSUME stack # <<>>, Flags
      PROVE  stack'[i].pc \notin BuildPCs \/ (\E a : stack'[i] = a /\ Flagged(a, Hope))
  <2>1. Len(stack) \in Nat \ {0}
    BY <1>1, <1>7 DEF TypeInv, StackOK
  <2>2. ASSUME NEW t, Goto(t), Flagged(t, Hope)
        PROVE  \E a : stack'[i] = a /\ Flagged(a, Hope)
    <3>1. /\ Len(stack') = Len(stack) /\ stack'[Len(stack)] = t
          /\ \A d \in 1..(Len(stack) - 1) : stack'[d] = stack[d]
      BY <1>1, <1>7, <2>2, ReplaceLast DEF Goto, TypeInv, StackOK
    <3>2. i = Len(stack) \/ (i \in 1..(Len(stack) - 1) /\ i \in Depth)
      BY <2>1, <3>1 DEF Depth
    <3> QED BY <1>5, <2>2, <3>1, <3>2
  <2>3. ASSUME NEW t, NEW c, Call(t, c), Flagged(t, Hope), c.pc \notin BuildPCs
        PROVE  stack'[i].pc \notin BuildPCs \/ (\E a : stack'[i] = a /\ Flagged(a, Hope))
    <3>1. /\ Len(stack') = Len(stack) + 1
          /\ stack'[Len(stack)] = t /\ stack'[Len(stack) + 1] = c
          /\ \A d \in 1..(Len(stack) - 1) : stack'[d] = stack[d]
      BY <1>1, <1>7, <2>3, Push DEF Call, TypeInv, StackOK
    <3>2. i = Len(stack) + 1 \/ i = Len(stack) \/ (i \in 1..(Len(stack) - 1) /\ i \in Depth)
      BY <2>1, <3>1 DEF Depth
    <3> QED BY <1>5, <2>3, <3>1, <3>2
  <2>4. ASSUME NEW v, Return(v) PROVE \E a : stack'[i] = a /\ Flagged(a, Hope)
    <3>1. Len(stack') = Len(stack) - 1 /\ \A d \in 1..(Len(stack) - 1) : stack'[d] = stack[d]
      BY <1>1, <1>7, <2>4, Pop DEF Return, Below, TypeInv, StackOK
    <3>2. i \in 1..(Len(stack) - 1) /\ i \in Depth
      BY <2>1, <3>1 DEF Depth
    <3> QED BY <1>5, <3>1, <3>2
  <2> QED BY <1>7, <2>2, <2>3, <2>4 DEF Flags
<1>8. CASE ParseStep
  BY <1>7, <1>8, ParseStepFlags, ParseStains DEF VerdictInv
<1>9. CASE RuleStep
  <2>1. stack # <<>> /\ OnRules
    BY <1>9, RuleStepMoves DEF VerdictInv, Moves
  <2>2. Flags
    BY <2>1 DEF OnRules, Flags, Flagged, BuildPCs, RulePCs
  <2> QED BY <1>7, <2>1, <2>2
<1>10. CASE Driver \/ Terminated \/ UNCHANGED vars
  <2>1. ASSUME NEW g, NEW e, stack' = <<Parse(g, e)>> PROVE stack'[i].pc \notin BuildPCs
    BY <2>1 DEF Parse, Activation, BuildPCs
  <2> QED BY <1>1, <1>6, <1>10, <2>1, DriverStack
<1> QED BY <1>8, <1>9, <1>10 DEF Next

\* an activation returns, or it goes on
LEMMA NotBoth ==
    ASSUME TypeInv, stack # <<>>, NEW v, Return(v)
    PROVE  (\A t : ~Goto(t)) /\ (\A t, c : ~Call(t, c))
<1>1. Len(stack') = Len(stack) - 1 /\ Len(stack) \in Nat
  BY Pop DEF Return, Below, TypeInv, StackOK
<1>2. ASSUME NEW t, Goto(t) PROVE FALSE
  <2>1. Len(stack') = Len(stack)
    BY <1>2, ReplaceLast DEF Goto, TypeInv, StackOK
  <2> QED BY <1>1, <2>1
<1>3. ASSUME NEW t, NEW c, Call(t, c) PROVE FALSE
  <2>1. Len(stack') = Len(stack) + 1
    BY <1>3, Push DEF Call, TypeInv, StackOK
  <2> QED BY <1>1, <2>1
<1> QED BY <1>2, <1>3

\* the files that turn out to be in error with a step
LEMMA FailingSteps ==
    ASSUME VerdictInv, [Next]_vars, NEW f \in Null' \ (Building' \cup rejected')
    PROVE  \/ f \in Null \ (Building \cup rejected)
           \/ /\ f = Top.file /\ stack # <<>>
              /\ \/ Reject
                 \/ TypesParsed /\ ret \notin {"ok", "missing"}
                 \/ Open /\ ~Rooted(Top.file.pkg)
<1>1. SafeInv /\ KnownInv /\ PromiseInv /\ FreedInv /\ TypeInv
  BY DEF VerdictInv, SafeInv
<1>2. f \in Files /\ cache'[f] = "null" /\ cache \in [Files -> {"absent", "null", "ast"}]
  BY <1>1 DEF Null, TypeInv, TypeOK
<1>3. f \notin rejected
  <2>1. rejected \subseteq rejected'
    BY <1>1, AstSteps DEF Accept, Enforced
  <2> QED BY <2>1
<1>4. CASE ParseStep
  <2>1. stack # <<>> /\ Stains
    BY <1>1, <1>4, ParseStains
  <2>2. CASE f \in Building
    <3>1. f = Top.file /\ Top.pc \in BuildPCs /\ (Accept \/ \E v : Return(v))
      BY <1>1, <2>1, <2>2, NoLongerBuilt
    <3>2. ~Accept
      BY <1>2, <3>1 DEF Accept
    <3>3. (\A t : ~Goto(t)) /\ (\A t, c : ~Call(t, c))
      BY <1>1, <2>1, <3>1, <3>2, NotBoth
    <3>4. ~ImportName /\ ~ImportPackage /\ ~Imported /\ ~ImportedTypes
      BY <3>3 DEF ImportName, ImportPackage, Imported, ImportedTypes, BadImport, GoodImport
    <3>5. ~FindCached /\ ~FindAbsent /\ ~Enforced
      BY <3>1 DEF FindCached, FindAbsent, Enforced, At, Resumed, BuildPCs
    <3>6. TypesParsed => ret \notin {"ok", "missing"}
      BY <3>3 DEF TypesParsed
    <3>7. Open => ~Rooted(Top.file.pkg)
      <4> SUFFICES ASSUME Open, Rooted(Top.file.pkg) PROVE FALSE
        OBVIOUS
      <4>1. cache' = [cache EXCEPT ![Top.file] = "absent"]
        BY <3>3 DEF Open
      <4> QED BY <1>2, <3>1, <4>1
    <3> QED BY <1>4, <2>1, <3>1, <3>2, <3>4, <3>5, <3>6, <3>7 DEF ParseStep
  <2>3. CASE f \notin Building
    <3>1. CASE cache[f] = "null"
      BY <1>2, <1>3, <2>3, <3>1 DEF Null
    <3>2. CASE cache[f] # "null"
      <4>1. CASE FindAbsent
        <5>1. f = Top.file
          BY <1>2, <3>2, <4>1 DEF FindAbsent
        <5>2. Top \in Frames /\ Len(stack) \in Nat \ {0}
          BY <1>1, <2>1, TopTyped DEF TypeInv, StackOK
        <5>3. ASSUME NEW p, NEW c, Call([Top EXCEPT !.pc = p], c) \/ Goto([Top EXCEPT !.pc = p]),
                     p \in BuildPCs
              PROVE  f \in Building'
          <6> DEFINE t == [Top EXCEPT !.pc = p]
          <6>1. t.pc = p /\ t.file = Top.file
            BY <5>2 DEF Frames
          <6>2. Call(t, c) \/ Goto(t)
            BY <5>3
          <6> HIDE DEF t
          <6>3. stack'[Len(stack)] = t /\ Len(stack) \in 1..Len(stack')
            <7>1. CASE Goto(t)
              <8>1. stack'[Len(stack)] = t /\ Len(stack') = Len(stack)
                BY <1>1, <2>1, <7>1, ReplaceLast DEF Goto, TypeInv, StackOK
              <8> QED BY <5>2, <8>1
            <7>2. CASE Call(t, c)
              <8>1. stack'[Len(stack)] = t /\ Len(stack') = Len(stack) + 1
                BY <1>1, <2>1, <7>2, Push DEF Call, TypeInv, StackOK
              <8> QED BY <5>2, <8>1
            <7> QED BY <6>2, <7>1, <7>2
          <6> QED BY <5>1, <5>3, <6>1, <6>3 DEF Building, Depth
        <5> QED BY <4>1, <5>3 DEF FindAbsent, BuildPCs
      <4>2. CASE Enforced
        <5>1. cache' = [cache EXCEPT ![Top.file] = "null"] /\ rejected' = rejected \cup {Top.file}
          BY <1>2, <3>2, <4>2 DEF Enforced
        <5> QED BY <1>2, <3>2, <5>1
      <4>3. CASE Open \/ Accept
        BY <1>2, <3>2, <4>3 DEF Open, Accept
      <4>4. CASE ~FindAbsent /\ ~Enforced /\ ~Open /\ ~Accept
        BY <1>2, <1>4, <3>2, <4>4 DEF ParseStep, FindCached, TypesParsed, ImportName,
           ImportPackage, Imported, ImportedTypes, Reject, files
      <4> QED BY <4>1, <4>2, <4>3, <4>4
    <3> QED BY <3>1, <3>2
  <2> QED BY <2>2, <2>3
<1>5. CASE RuleStep
  <2>1. stack # <<>> /\ Top.pc \in RulePCs /\ cache' = cache
    BY <1>1, <1>5, RuleStepMoves
  <2>2. f \notin Building
    <3> SUFFICES ASSUME f \in Building PROVE FALSE
      OBVIOUS
    <3>1. Stains
      BY <1>1, <1>5, RuleStains
    <3>2. Top.pc \in BuildPCs
      BY <1>1, <2>1, <3>1, NoLongerBuilt
    <3> QED BY <2>1, <3>2 DEF RulePCs, BuildPCs
  <2> QED BY <1>2, <1>3, <2>1, <2>2 DEF Null
<1>6. CASE Driver \/ Terminated \/ UNCHANGED vars
  <2>1. cache' = cache /\ (stack' = stack \/ stack = <<>>)
    BY <1>1, <1>6, DriverStack DEF files
  <2>2. stack' = stack => Building' = Building
    BY DEF Building, Depth
  <2>3. stack = <<>> => Building = {}
    BY DEF Building, Depth
  <2> QED BY <1>2, <1>3, <2>1, <2>2, <2>3 DEF Null
<1> QED BY <1>4, <1>5, <1>6 DEF Next

\* an error that is found is one for good, on all that may still turn out good
LEMMA TopFails ==
    ASSUME VerdictInv, FailedInv, FlagInv, stack # <<>>,
           \/ Reject
           \/ TypesParsed /\ ret \notin {"ok", "missing"}
           \/ Open /\ ~Rooted(Top.file.pkg)
    PROVE  /\ ~Justified(Hope, Top.file)
           /\ Exists(Top.file) \/ Denied(Top.file, Hope)
<1>1. Top \in Frames /\ Parsed(Top, Accepted) /\ Len(stack) \in Depth
  BY TopTyped, TopKnows DEF VerdictInv, SafeInv, Knows, TypeInv, StackOK, Depth
<1>2. CASE Reject
  <2>1. Top.pc = "import" /\ (Top.flag \/ repo.text[Top.file] # "good")
    BY <1>2 DEF Reject, At
  <2>2. Exists(Top.file)
    BY <1>1, <2>1 DEF Parsed, ImportPCs
  <2>3. Top.flag => \E k \in Statements(Top.file) : ~ImportHolds(Hope, Statement(Top.file, k))
    BY <1>1, <2>1 DEF FlagInv, Flagged, BuildPCs, Top
  <2> QED BY <2>1, <2>2, <2>3 DEF Justified
<1>3. CASE TypesParsed /\ ret \notin {"ok", "missing"}
  <2> DEFINE T == TypesOf(Top.file.pkg)
  <2>1. Top.pc = "types" /\ Answered
    BY <1>3 DEF TypesParsed, Resumed
  <2>2. Top.file.name # Types /\ T.pkg = Top.file.pkg /\ TypesOf(T.pkg) = T
    BY <1>1, <2>1 DEF Parsed, TypesOf, File
  <2>3. Denied(T, Hope)
    BY <1>3, <2>1, BadImportAnswer DEF Bad
  <2>4. ~Rooted(Top.file.pkg) \/ (Exists(T) /\ T \notin Hope)
    BY <2>2, <2>3 DEF Denied
  <2> QED BY <2>2, <2>4 DEF Justified, Denied
<1>4. CASE Open /\ ~Rooted(Top.file.pkg)
  BY <1>4 DEF Justified, Denied
<1> QED BY <1>2, <1>3, <1>4

LEMMA NextFailed ==
    ASSUME VerdictInv, FailedInv, FlagInv, [Next]_vars
    PROVE  FailedInv'
<1>1. Grows /\ Hope' \subseteq Hope /\ tree' = tree
  BY StepGrows, HopeShrinks DEF VerdictInv, Grows
<1>2. PICK K : K = Hope'
  OBVIOUS
<1>3. ASSUME NEW f, ~Justified(Hope, f) PROVE ~Justified(K, f)'
  BY <1>1, <1>2, <1>3, FailedLess
<1>4. ASSUME NEW f, Denied(f, Hope) PROVE Denied(f, K)'
  BY <1>1, <1>2, <1>4, FailedLess
<1>5. ASSUME NEW f \in Null' \ (Building' \cup rejected')
      PROVE  ~Justified(K, f)' /\ Denied(f, K)'
  <2>1. CASE f \in Null \ (Building \cup rejected)
    BY <1>3, <1>4, <2>1 DEF FailedInv
  <2>2. CASE /\ f = Top.file /\ stack # <<>>
             /\ \/ Reject
                \/ TypesParsed /\ ret \notin {"ok", "missing"}
                \/ Open /\ ~Rooted(Top.file.pkg)
    <3>1. ~Justified(Hope, f) /\ (Exists(f) \/ Denied(f, Hope))
      BY <2>2, TopFails
    <3>2. f \notin K
      BY <1>2, <1>5 DEF Hope, Null, Building
    <3>3. Exists(f) => Denied(f, K)
      BY <3>2 DEF Denied
    <3>4. Denied(f, K) => Denied(f, K)'
      BY <1>1, JustifiedBack
    <3> QED BY <1>3, <1>4, <3>1, <3>3, <3>4
  <2> QED BY <1>5, <2>1, <2>2, FailingSteps
<1> QED BY <1>2, <1>5 DEF FailedInv

\* what the proof that no error is spurious rests on
HopeInv == VerdictInv /\ FailedInv /\ FlagInv

LEMMA HopeStep == ASSUME HopeInv, [Next]_vars PROVE FailedInv' /\ FlagInv'
BY NextFailed, NextFlagged DEF HopeInv

\* A file with a null entry is in error on anything that may still turn out good:
\* the error is of the file or of what it imports, not of the order of the lookups.
THEOREM HopeInvHolds == Spec => []HopeInv
<1>1. Init => FailedInv /\ FlagInv
  BY DEF Init, FailedInv, FlagInv, Null, Depth
<1>2. HopeInv /\ [Next]_vars => FailedInv' /\ FlagInv'
  BY HopeStep
<1> QED BY <1>1, <1>2, VerdictInvHolds, PTL DEF HopeInv, Spec

\* Between two targets the files in error are those that could not be good, or that
\* broke a rule (the null entries of Coordinator::parseOptional).
THEOREM NoSpuriousErrorHolds == Spec => []NoSpuriousError
<1>1. ASSUME HopeInv PROVE NoSpuriousError
  <2> SUFFICES ASSUME stack = <<>>, NEW f \in Null \ rejected
               PROVE  ~Justified(repo.files \ Null, f)
    BY DEF NoSpuriousError
  <2>1. Building = {} /\ f \in Null \ (Building \cup rejected)
    BY DEF Building, Depth
  <2>2. repo.files \subseteq Files
    BY <1>1, ReposAssumption DEF HopeInv, VerdictInv, SafeInv, TypeInv, TypeOK, IsRepo, repo
  <2>3. repo.files \ Null \subseteq Hope
    BY <2>2 DEF Hope, Null, Exists
  <2>4. ~Justified(Hope, f)
    BY <1>1, <2>1 DEF HopeInv, FailedInv
  <2> QED BY <2>3, <2>4, JustifiedMore
<1> QED BY <1>1, HopeInvHolds, PTL

\* What the cache says of a file is right, on every source tree.
THEOREM VerdictsAreRightHolds == Spec => []VerdictsAreRight
<1>1. LiveIsValid /\ NoSpuriousError => VerdictsAreRight
  BY DEF VerdictsAreRight
<1> QED BY <1>1, LiveIsValidHolds, NoSpuriousErrorHolds, PTL

-----------------------------------------------------------------------------
(* The first target.  Nothing is freed until its own package is enforced.  *)
(* Enforcement may free what it parses itself, never what the target was   *)
(* parsed into before.                                                     *)

\* every AST in the cache has all it imports
AllIntact == \A g \in Live : imported[g] \subseteq Live

\* the calls of the first target's activation do not own a file of S
Untouched(S) == \A i \in 2..Len(stack) : stack[i].pc \in OwnPCs => stack[i].file \notin S

Closed(S) == S \subseteq Live /\ \A g \in S : imported[g] \subseteq S

FirstInv ==
    /\ turn = 0 => stack = <<>> /\ AllIntact
    /\ turn = 1 /\ stack # <<>> =>
          /\ stack[1].file = queue[1].file /\ stack[1].pc \in ParsePCs
          /\ stack[1].pc # "enforcing" => AllIntact
          /\ stack[1].pc = "enforcing" =>
                \E S \in SUBSET Live : stack[1].file \in S /\ Closed(S) /\ Untouched(S)
    /\ turn = 1 /\ stack = <<>> /\ ret = "ok" => Intact(queue[1].file)

\* an AST is freed, which enforcement does
Frees == Enforced /\ ret # "ok"

LEMMA ClosedIntact == ASSUME NEW S, Closed(S), NEW f \in S PROVE Intact(f)
BY DEF Closed, Intact

\* the imports of an AST are complete, and stay until it is freed
LEMMA AstStays ==
    ASSUME SafeInv, [Next]_vars, NEW g \in Live, ~(Frees /\ g = Top.file)
    PROVE  g \in Live' /\ imported'[g] = imported[g]
<1>1. /\ g \in Files /\ cache[g] = "ast" /\ TypeInv /\ StackInv
      /\ cache \in [Files -> {"absent", "null", "ast"}] /\ imported \in [Files -> SUBSET Files]
  BY DEF Live, SafeInv, TypeInv, TypeOK
<1>2. ASSUME stack # <<>>, Top.pc \in BuildPCs PROVE g # Top.file
  <2>1. cache[Top.file] = "null"
    BY <1>1, <1>2, TopFits DEF Fits, Framed
  <2> QED BY <1>1, <2>1
<1>3. ASSUME stack # <<>>, Top.pc \in ParsePCs, NEW f PROVE Inserted(f, Top.into)[g] = imported[g]
  <2>1. Top.into # NoFile => Top.into # g
    BY <1>1, <1>3, IntoBuilding
  <2> QED BY <1>1, <2>1 DEF Inserted
<1>4. ASSUME NEW f, g # Top.file PROVE Inserted(f, Top.file)[g] = imported[g]
  BY <1>1, <1>4 DEF Inserted
<1>5. ASSUME cache' = cache, imported'[g] = imported[g]
      PROVE  g \in Live' /\ imported'[g] = imported[g]
  BY <1>1, <1>5 DEF Live
<1>6. ASSUME NEW v, cache' = [cache EXCEPT ![Top.file] = v], g # Top.file \/ v = "ast",
             imported'[g] = imported[g]
      PROVE  g \in Live' /\ imported'[g] = imported[g]
  BY <1>1, <1>6 DEF Live
<1>7. CASE Driver \/ Terminated \/ UNCHANGED vars
  BY <1>1, <1>5, <1>7, DriverStack DEF files
<1>8. CASE RuleStep
  BY <1>5, <1>8 DEF RuleStep, Enforce, UprevsEnforced, HashesEnforced, Uprev, UprevNext,
     CurrentParsed, LastParsed, HashNext, HashChecked, DependenciesChecked, Check, Checked,
     Dependencies, DependenciesParsed, DependencyPick, DependencyNext, DependencyHashed, files
<1>9. CASE FindCached
  BY <1>3, <1>5, <1>9 DEF FindCached, At, ParsePCs
<1>10. CASE FindAbsent
  <2>1. g # Top.file
    BY <1>1, <1>10 DEF FindAbsent
  <2> QED BY <1>6, <1>10, <2>1 DEF FindAbsent
<1>11. CASE TypesParsed
  <2>1. g # Top.file
    BY <1>2, <1>11 DEF TypesParsed, Resumed, BuildPCs
  <2> QED BY <1>4, <1>5, <1>11, <2>1 DEF TypesParsed
<1>12. CASE Open
  <2>1. g # Top.file
    BY <1>2, <1>12 DEF Open, At, BuildPCs
  <2>2. imported'[g] = imported[g]
    BY <1>1, <1>12, <2>1 DEF Open
  <2>3. cache' = cache \/ cache' = [cache EXCEPT ![Top.file] = "absent"]
    BY <1>12 DEF Open
  <2> QED BY <1>5, <1>6, <2>1, <2>2, <2>3
<1>13. CASE ImportName \/ ImportPackage \/ Imported \/ ImportedTypes
  BY <1>5, <1>13 DEF ImportName, ImportPackage, Imported, ImportedTypes, files
<1>14. CASE Reject
  <2>1. g # Top.file
    BY <1>2, <1>14 DEF Reject, At, BuildPCs
  <2> QED BY <1>1, <1>5, <1>14, <2>1 DEF Reject
<1>15. CASE Accept
  BY <1>3, <1>6, <1>15 DEF Accept, At, ParsePCs
<1>16. CASE Enforced
  <2>1. CASE ret = "ok"
    BY <1>5, <1>16, <2>1 DEF Enforced
  <2>2. CASE ret # "ok"
    <3>1. g # Top.file
      BY <1>16, <2>2 DEF Frees
    <3>2. imported'[g] = imported[g] /\ cache' = [cache EXCEPT ![Top.file] = "null"]
      BY <1>1, <1>16, <2>2, <3>1 DEF Enforced
    <3> QED BY <1>6, <3>1, <3>2
  <2> QED BY <2>1, <2>2
<1> QED BY <1>7, <1>8, <1>9, <1>10, <1>11, <1>12, <1>13, <1>14, <1>15, <1>16 DEF Next, ParseStep

LEMMA ClosedStays ==
    ASSUME SafeInv, [Next]_vars, NEW S, Closed(S), Frees => Top.file \notin S
    PROVE  Closed(S)'
<1>1. \A g \in S : g \in Live' /\ imported'[g] = imported[g]
  BY AstStays DEF Closed
<1> QED BY <1>1 DEF Closed

LEMMA AllIntactStays ==
    ASSUME SafeInv, [Next]_vars, AllIntact, ~Frees
    PROVE  AllIntact'
<1>1. \A g \in Live : g \in Live' /\ imported'[g] = imported[g]
  BY AstStays
<1>2. ASSUME NEW g \in Live', g \notin Live PROVE imported'[g] \subseteq Live'
  <2>1. Accept
    <3>1. Enforced => cache' = cache
      BY DEF Frees, Enforced
    <3> QED BY <1>2, <3>1, AstSteps DEF Live
  <2>2. /\ cache' = [cache EXCEPT ![Top.file] = "ast"] /\ imported' = Inserted(Top.file, Top.into)
        /\ stack # <<>> /\ Top.pc = "import"
    BY <2>1 DEF Accept, At
  <2>3. g = Top.file /\ g \in Files
    BY <1>2, <2>2 DEF Live, SafeInv, TypeInv, TypeOK
  <2>4. imported[g] \subseteq Live
    <3>1. Framed(Top, cache, imported) /\ imported[g] \subseteq Files
      BY <2>2, <2>3, TopFits DEF SafeInv, Fits, TypeInv, TypeOK
    <3> QED BY <2>2, <2>3, <3>1 DEF Framed, BuildPCs, Live
  <2>5. imported'[g] \subseteq imported[g] \cup {g}
    BY <2>2, <2>3 DEF Inserted, SafeInv, TypeInv, TypeOK
  <2> QED BY <1>1, <1>2, <2>4, <2>5
<1> QED BY <1>1, <1>2 DEF AllIntact

\* the stack after a step of the top
LEMMA StackAfter ==
    ASSUME TypeInv, stack # <<>>, OnStack
    PROVE  /\ \A i \in 1..(Len(stack) - 1) : i \in 1..Len(stack') /\ stack'[i] = stack[i]
           /\ \/ Len(stack') = Len(stack) - 1 /\ \E v : Return(v)
              \/ /\ Len(stack') = Len(stack) \/ Len(stack') = Len(stack) + 1
                 /\ stack'[Len(stack)].file = Top.file
                 /\ stack'[Len(stack)].pc \in ParsePCs <=> Top.pc \in ParsePCs
                 /\ Len(stack') = Len(stack) + 1 => stack'[Len(stack) + 1].pc \notin OwnPCs
<1>1. Len(stack) \in Nat \ {0}
  BY DEF TypeInv, StackOK
<1>2. ASSUME NEW t, Goto(t)
      PROVE  /\ Len(stack') = Len(stack) /\ stack'[Len(stack)] = t
             /\ \A i \in 1..(Len(stack) - 1) : stack'[i] = stack[i]
  BY <1>2, ReplaceLast DEF Goto, TypeInv, StackOK
<1>3. ASSUME NEW t, NEW c, Call(t, c)
      PROVE  /\ Len(stack') = Len(stack) + 1
             /\ stack'[Len(stack)] = t /\ stack'[Len(stack) + 1] = c
             /\ \A i \in 1..(Len(stack) - 1) : stack'[i] = stack[i]
  BY <1>3, Push DEF Call, TypeInv, StackOK
<1>4. ASSUME NEW v, Return(v)
      PROVE  /\ Len(stack') = Len(stack) - 1
             /\ \A i \in 1..(Len(stack) - 1) : stack'[i] = stack[i]
  BY <1>4, Pop DEF Return, Below, TypeInv, StackOK
<1>5. CASE \E t : /\ Goto(t) /\ t.file = Top.file
                  /\ t.pc \in ParsePCs <=> Top.pc \in ParsePCs
  BY <1>1, <1>2, <1>5
<1>6. CASE \E t, c : /\ Call(t, c) /\ t.file = Top.file /\ c.pc \notin OwnPCs
                     /\ t.pc \in ParsePCs <=> Top.pc \in ParsePCs
  <2>1. PICK t, c : /\ Call(t, c) /\ t.file = Top.file /\ c.pc \notin OwnPCs
                    /\ t.pc \in ParsePCs <=> Top.pc \in ParsePCs
    BY <1>6
  <2>2. /\ Len(stack') = Len(stack) + 1
        /\ stack'[Len(stack)] = t /\ stack'[Len(stack) + 1] = c
        /\ \A i \in 1..(Len(stack) - 1) : stack'[i] = stack[i]
    BY <1>3, <2>1
  <2> QED BY <1>1, <2>1, <2>2
<1>7. CASE \E v : Return(v)
  BY <1>1, <1>4, <1>7
<1> QED BY <1>5, <1>6, <1>7 DEF OnStack

\* who owns a file after a step has owned it before, or takes one without an entry
LEMMA OwnersAfter ==
    ASSUME TypeInv, stack # <<>>, OnStack,
           Top.pc \in OwnPCs \cup RulePCs \/ cache[Top.file] = "absent",
           NEW i \in 1..Len(stack'), stack'[i].pc \in OwnPCs
    PROVE  \/ i \in Depth /\ stack[i].pc \in OwnPCs /\ stack'[i].file = stack[i].file
           \/ cache[stack'[i].file] = "absent"
<1>1. Len(stack) \in Nat \ {0} /\ Len(stack) \in Depth
  BY DEF TypeInv, StackOK, Depth
<1>2. CASE i \in 1..(Len(stack) - 1)
  <2>1. i \in Depth /\ stack'[i] = stack[i]
    BY <1>1, <1>2, StackAfter DEF Depth
  <2> QED BY <2>1
<1>3. CASE i = Len(stack)
  <2>1. /\ stack'[i].file = Top.file
        /\ stack'[i].pc \in ParsePCs <=> Top.pc \in ParsePCs
    BY <1>1, <1>3, StackAfter
  <2>2. Top.pc \notin RulePCs
    BY <2>1 DEF OwnPCs, BuildPCs, ParsePCs, RulePCs
  <2> QED BY <1>1, <1>3, <2>1, <2>2 DEF Top
<1>4. CASE i \notin 1..(Len(stack) - 1) /\ i # Len(stack)
  <2>1. i = Len(stack) + 1 /\ Len(stack') = Len(stack) + 1
    BY <1>1, <1>4, StackAfter
  <2> QED BY <1>1, <2>1, StackAfter
<1> QED BY <1>2, <1>3, <1>4

\* a step of the program below main
Inner == ParseStep \/ RuleStep

LEMMA InnerStep ==
    ASSUME VerdictInv, Inner
    PROVE  /\ stack # <<>> /\ OnStack /\ UNCHANGED world
           /\ Top.pc \in OwnPCs \cup RulePCs \/ cache[Top.file] = "absent" \/ \E v : Return(v)
           /\ Top.pc \in ParsePCs => ParseStep
<1>1. CASE ParseStep
  <2>1. stack # <<>> /\ OnStack
    BY <1>1, ParseStepOnStack DEF VerdictInv
  <2>2. UNCHANGED world
    BY <1>1 DEF ParseStep, FindCached, FindAbsent, TypesParsed, Open, ImportName, ImportPackage,
       Imported, ImportedTypes, Reject, Accept, Enforced
  <2>3. Top.pc \in OwnPCs \/ FindAbsent \/ FindCached
    BY <1>1 DEF ParseStep, TypesParsed, Open, ImportName, ImportPackage,
       Imported, ImportedTypes, Reject, Accept, Enforced, At, Resumed, OwnPCs, BuildPCs
  <2>4. FindAbsent => cache[Top.file] = "absent"
    BY DEF FindAbsent
  <2>5. FindCached => \E v : Return(v)
    BY DEF FindCached
  <2> QED BY <1>1, <2>1, <2>2, <2>3, <2>4, <2>5
<1>2. CASE RuleStep
  <2>1. Moves /\ stack # <<>> /\ Top.pc \in RulePCs /\ UNCHANGED world
    BY <1>2, RuleStepMoves DEF VerdictInv
  <2>2. Top.pc \notin ParsePCs
    BY <2>1 DEF RulePCs, ParsePCs
  <2> QED BY <2>1, <2>2, RulesOnStack DEF Moves
<1> QED BY <1>1, <1>2 DEF Inner

\* Nothing is freed before the package of the first target is enforced.
LEMMA NoneFreed ==
    ASSUME VerdictInv, stack # <<>>, stack[1].pc \in ParsePCs \ {"enforcing"}
    PROVE  ~Frees
<1> SUFFICES ASSUME Enforced, ret # "ok" PROVE FALSE
  BY DEF Frees
<1>1. Top.pc = "enforcing" /\ Answered /\ Len(stack) \in Nat \ {0}
  BY DEF Enforced, Resumed, VerdictInv, SafeInv, TypeInv, StackOK
<1>2. Len(stack) # 1
  BY <1>1 DEF Top
<1>3. 1 \in 1..(Len(stack) - 1) /\ 1 \in Depth /\ Len(stack) \in Depth /\ 1 < Len(stack)
  <2>1. \A n \in Nat \ {0} : n # 1 => 1 \in 1..(n - 1) /\ 1 \in 1..n /\ n \in 1..n /\ 1 < n
    OBVIOUS
  <2> QED BY <1>1, <1>2, <2>1 DEF Depth
<1>4. \E pc, f : Waits(stack[1], pc, f)
  BY <1>3 DEF VerdictInv, KnownInv
<1>5. stack[1].pc \in BuildPCs
  BY <1>4 DEF Waits, ParsePCs, BuildPCs
<1>6. Top.enf = "NONE"
  BY <1>3, <1>5 DEF VerdictInv, SafeInv, StackInv, Nested, Top
<1> QED BY <1>1, <1>6 DEF VerdictInv, SafeInv, AnswerInv

\* only a hit in the cache and the end of an enforcement answer with an AST
LEMMA WhoAnswersOk == ASSUME VerdictInv, ParseStep, ret' = "ok" PROVE FindCached \/ Enforced
<1>1. ~TypesParsed /\ ~Open /\ ~Reject
  BY DEF TypesParsed, Open, Reject, Goto, Return
<1>2. ~FindAbsent /\ ~ImportName /\ ~Accept
  BY DEF FindAbsent, ImportName, Accept, Goto, Call
<1>3. ~ImportPackage /\ ~Imported /\ ~ImportedTypes
  BY DEF ImportPackage, Imported, ImportedTypes, BadImport, GoodImport, Goto, Call
<1> QED BY <1>1, <1>2, <1>3 DEF ParseStep

\* the first activation's step, before its package is enforced
LEMMA FirstParses ==
    ASSUME VerdictInv, SafeInv', FirstInv, Inner, turn = 1, stack[1].pc # "enforcing"
    PROVE  FirstInv'
<1>1. /\ stack # <<>> /\ OnStack /\ UNCHANGED world /\ TypeInv /\ [Next]_vars
      /\ stack[1].file = queue[1].file /\ stack[1].pc \in ParsePCs /\ AllIntact
      /\ Len(stack) \in Nat \ {0}
  BY InnerStep DEF VerdictInv, SafeInv, FirstInv, TypeInv, StackOK, Inner, Next
<1>2. ~Frees
  BY <1>1, NoneFreed
<1>3. AllIntact'
  BY <1>1, <1>2, AllIntactStays DEF VerdictInv
<1>4. turn' = 1 /\ queue' = queue
  BY <1>1 DEF world
<1>5. CASE Len(stack) # 1
  <2>1. 1 \in 1..(Len(stack) - 1)
    <3>1. \A n \in Nat \ {0} : n # 1 => 1 \in 1..(n - 1)
      OBVIOUS
    <3> QED BY <1>1, <1>5, <3>1
  <2>2. 1 \in 1..Len(stack') /\ stack'[1] = stack[1]
    BY <1>1, <2>1, StackAfter
  <2>3. stack' # <<>>
    BY <2>2
  <2> QED BY <1>1, <1>3, <1>4, <2>2, <2>3 DEF FirstInv
<1>6. CASE Len(stack) = 1
  <2>1. Top = stack[1] /\ ParseStep
    BY <1>1, <1>6, InnerStep DEF Top
  <2>2. CASE \E v : Return(v)
    <3>1. stack' = <<>>
      <4>1. stack' = [i \in 1..0 |-> stack[i]]
        BY <1>6, <2>2 DEF Return, Below
      <4> QED BY <4>1
    <3>2. ret' = "ok" => FindCached
      BY <1>1, <2>1, WhoAnswersOk DEF Enforced, Resumed
    <3>3. FindCached /\ ret' = "ok" => Top.file \in Live'
      <4>1. Top.file \in Files
        BY <1>1, TopTyped DEF Frames
      <4> SUFFICES ASSUME FindCached, ret' = "ok" PROVE Top.file \in Live'
        OBVIOUS
      <4>2. cache[Top.file] = "ast"
        BY DEF FindCached, Return
      <4>3. cache' = cache
        BY DEF FindCached
      <4> QED BY <4>1, <4>2, <4>3 DEF Live
    <3>4. ret' = "ok" => queue[1].file \in Live'
      BY <1>1, <2>1, <3>2, <3>3
    <3>5. queue[1].file \in Live' => Intact(queue[1].file)'
      BY <1>3, <1>4 DEF AllIntact, Intact
    <3> QED BY <1>4, <3>1, <3>4, <3>5 DEF FirstInv
  <2>3. CASE ~\E v : Return(v)
    <3>1. /\ Len(stack') = 1 \/ Len(stack') = 2
          /\ stack'[1].file = Top.file /\ stack'[1].pc \in ParsePCs
          /\ Len(stack') = 2 => stack'[2].pc \notin OwnPCs
      BY <1>1, <1>6, <2>1, <2>3, StackAfter
    <3>2. stack' # <<>> /\ 1 \in 1..Len(stack')
      BY <3>1
    <3>3. \A S : Untouched(S)'
      BY <3>1 DEF Untouched
    <3>4. stack'[1].pc = "enforcing" => stack'[1].file \in Live'
      <4>1. Framed(stack[1], cache, imported)' /\ stack' \in Seq(Frames)
        BY <3>2 DEF SafeInv, StackInv, TypeInv, StackOK, Depth
      <4>2. stack'[1] \in Frames
        BY <3>2, <4>1
      <4>3. stack'[1].file \in Files
        BY <4>2 DEF Frames
      <4> QED BY <4>1, <4>3 DEF Framed, Live
    <3>5. Live' \in SUBSET Live' /\ Closed(Live)'
      BY <1>3 DEF AllIntact, Closed
    <3> QED BY <1>1, <1>3, <1>4, <2>1, <3>1, <3>2, <3>3, <3>4, <3>5 DEF FirstInv
  <2> QED BY <2>2, <2>3
<1> QED BY <1>5, <1>6

\* the steps of a parse whose package is being enforced
LEMMA FirstEnforces ==
    ASSUME VerdictInv, FirstInv, Inner, turn = 1, stack[1].pc = "enforcing"
    PROVE  FirstInv'
<1>1. /\ stack # <<>> /\ OnStack /\ UNCHANGED world /\ TypeInv /\ [Next]_vars
      /\ stack[1].file = queue[1].file /\ stack[1].pc \in ParsePCs
      /\ Len(stack) \in Nat \ {0}
  BY InnerStep DEF VerdictInv, SafeInv, FirstInv, TypeInv, StackOK, Inner, Next
<1>2. PICK S \in SUBSET Live : stack[1].file \in S /\ Closed(S) /\ Untouched(S)
  BY <1>1 DEF FirstInv
<1>3. turn' = 1 /\ queue' = queue
  BY <1>1 DEF world
<1>4. CASE Len(stack) = 1
  <2>1. Top = stack[1] /\ ParseStep
    BY <1>1, <1>4, InnerStep DEF Top
  <2>2. Enforced
    BY <1>4, <2>1 DEF ParseStep, FindCached, FindAbsent, TypesParsed, Open, ImportName,
       ImportPackage, Imported, ImportedTypes, Reject, Accept, At, Resumed
  <2>3. stack' = <<>>
    <3>1. \E v : Return(v)
      BY <2>2 DEF Enforced
    <3>2. stack' = [i \in 1..0 |-> stack[i]]
      BY <1>4, <3>1 DEF Return, Below
    <3> QED BY <3>2
  <2>4. ret' = "ok" => ~Frees
    BY <2>2 DEF Frees, Enforced, Return
  <2>5. ~Frees => Closed(S)'
    BY <1>1, <1>2, ClosedStays DEF VerdictInv
  <2>6. Closed(S)' => Intact(queue[1].file)'
    BY <1>1, <1>2, <1>3 DEF Closed, Intact
  <2> QED BY <1>3, <2>3, <2>4, <2>5, <2>6 DEF FirstInv
<1>5. CASE Len(stack) # 1
  <2>1. 1 \in 1..(Len(stack) - 1) /\ Len(stack) \in 2..Len(stack)
    <3>1. \A n \in Nat \ {0} : n # 1 => 1 \in 1..(n - 1) /\ n \in 2..n
      OBVIOUS
    <3> QED BY <1>1, <1>5, <3>1
  <2>2. 1 \in 1..Len(stack') /\ stack'[1] = stack[1]
    BY <1>1, <2>1, StackAfter
  <2>3. stack' # <<>>
    BY <2>2
  <2>4. Closed(S)'
    <3>1. Frees => Top.file \notin S
      BY <1>2, <2>1 DEF Frees, Enforced, Resumed, Untouched, OwnPCs, Top
    <3> QED BY <1>1, <1>2, <3>1, ClosedStays DEF VerdictInv
  <2>5. Untouched(S)'
    <3> SUFFICES ASSUME NEW i \in 2..Len(stack'), stack'[i].pc \in OwnPCs
                 PROVE  stack'[i].file \notin S
      BY DEF Untouched
    <3>1. i \in 1..Len(stack') /\ i >= 2
      BY <1>1, StackAfter
    <3>2. CASE i \in Depth /\ stack[i].pc \in OwnPCs /\ stack'[i].file = stack[i].file
      <4>1. i \in 2..Len(stack)
        BY <1>1, <3>1, <3>2 DEF Depth
      <4> QED BY <1>2, <3>2, <4>1 DEF Untouched
    <3>3. CASE cache[stack'[i].file] = "absent"
      BY <1>2, <3>3 DEF Live
    <3>4. CASE \E v : Return(v)
      <4>1. Len(stack') = Len(stack) - 1 /\ \A d \in 1..(Len(stack) - 1) : stack'[d] = stack[d]
        BY <1>1, <3>4, Pop DEF Return, Below, TypeInv, StackOK
      <4>2. i \in 1..(Len(stack) - 1) /\ i \in 2..Len(stack)
        BY <1>1, <3>1, <4>1
      <4> QED BY <1>2, <4>1, <4>2 DEF Untouched
    <3> QED BY <1>1, <3>1, <3>2, <3>3, <3>4, InnerStep, OwnersAfter
  <2>6. S \in SUBSET Live'
    BY <2>4 DEF Closed
  <2> QED BY <1>1, <1>2, <1>3, <2>2, <2>3, <2>4, <2>5, <2>6 DEF FirstInv
<1> QED BY <1>4, <1>5

\* main and what comes after the first target
LEMMA FirstDriven ==
    ASSUME VerdictInv, FirstInv, Driver \/ Terminated \/ UNCHANGED vars
    PROVE  FirstInv'
<1>1. /\ UNCHANGED <<queue, cache, imported>> /\ turn \in Nat
      /\ Live' = Live
  BY DriverStack DEF VerdictInv, SafeInv, files, Live, TypeInv, TypeOK
<1>2. /\ AllIntact' = AllIntact
      /\ \A f : Intact(f)' = Intact(f)
      /\ \A S : Closed(S)' = Closed(S)
  BY <1>1 DEF AllIntact, Intact, Closed
<1>3. CASE Request
  <2>1. CASE status' = "failed" /\ UNCHANGED <<stack, turn, ret>>
    <3>1. \A S : Untouched(S)' = Untouched(S)
      BY <2>1 DEF Untouched
    <3> QED BY <1>1, <1>2, <2>1, <3>1 DEF FirstInv
  <2>2. CASE stack' = <<Parse(queue[turn + 1].file, queue[turn + 1].enf)>> /\ turn' = turn + 1
    <3>1. /\ stack'[1].pc = "find" /\ stack'[1].file = queue[turn + 1].file /\ stack' # <<>>
      BY <2>2 DEF Parse, Activation
    <3>2. turn' # 0 /\ (turn' = 1 => turn = 0)
      BY <1>1, <2>2
    <3> QED BY <1>1, <1>2, <2>2, <3>1, <3>2 DEF FirstInv, ParsePCs
  <2> QED BY <1>3, <2>1, <2>2 DEF Request
<1>4. CASE ~Request
  <2>1. UNCHANGED <<stack, turn>> /\ (ret' = ret \/ ret' = "none")
    BY <1>4 DEF Driver, Generated, Fail, Finish, Abort, Terminated, vars, world
  <2>2. \A S : Untouched(S)' = Untouched(S)
    BY <2>1 DEF Untouched
  <2> QED BY <1>1, <1>2, <2>1, <2>2 DEF FirstInv
<1> QED BY <1>3, <1>4

LEMMA FirstNext ==
    ASSUME VerdictInv, SafeInv', FirstInv, [Next]_vars
    PROVE  FirstInv'
<1>1. CASE Inner
  <2>1. stack # <<>> /\ turn' = turn /\ turn \in Nat
    BY <1>1, InnerStep DEF world, VerdictInv, SafeInv, TypeInv, TypeOK
  <2>2. CASE turn = 1
    BY <1>1, <2>2, FirstParses, FirstEnforces
  <2>3. CASE turn # 1
    BY <2>1, <2>3 DEF FirstInv
  <2> QED BY <2>2, <2>3
<1>2. CASE ~Inner
  BY <1>2, FirstDriven DEF Next, Inner
<1> QED BY <1>1, <1>2

\* What the first target was parsed into is alive as a whole when main generates from
\* it, whatever enforcement freed meanwhile (enforceMinorVersionUprevs swallows the
\* failures of the files it parses).
THEOREM FirstTargetIsIntactHolds == Spec => []FirstTargetIsIntact
<1>1. Init => FirstInv
  BY DEF Init, FirstInv, AllIntact, Live
<1>2. VerdictInv /\ VerdictInv' /\ FirstInv /\ [Next]_vars => FirstInv'
  BY FirstNext DEF VerdictInv
<1>3. FirstInv => FirstTargetIsIntact
  BY DEF FirstInv, FirstTargetIsIntact
<1> QED BY <1>1, <1>2, <1>3, VerdictInvHolds, PTL DEF Spec
=============================================================================
