----------------------------- MODULE FullNames -----------------------------
(***************************************************************************)
(* Fully and partly qualified names, class FQName.  A name has a package   *)
(* (a sequence of components, empty when it is not given), a version (the  *)
(* empty string when it is not given) and the nested names of a type       *)
(* (empty for a whole package).  A package is never given without its      *)
(* version: the grammar of FQName::setTo has no such form.                 *)
(***************************************************************************)
EXTENDS Sequences, SequencesExt

IsName(n) ==
  /\ DOMAIN n = {"package", "version", "names"}
  /\ n.package # <<>> => n.version # ""
  /\ n.package # <<>> \/ n.names # <<>>

\* A version is written with its "@", so that it differs from every component.
Parts(n) ==
  n.package \o (IF n.version = "" THEN <<>> ELSE <<n.version>>) \o n.names

\* The match is by whole components, from the end: "bar.baz", "IFoo.bar.baz",
\* "@1.0::IFoo.bar.baz" and "foo@1.0::IFoo.bar.baz" all match
\* "android.hardware.foo@1.0::IFoo.bar.baz".
EndsWith(full, n) == IsSuffix(Parts(n), Parts(full))

WithDefaults(n, pkg) ==
  [n EXCEPT !.package = IF @ = <<>> THEN pkg.package ELSE @,
            !.version = IF @ = "" THEN pkg.version ELSE @]

PackageAndVersion(n) == [n EXCEPT !.names = <<>>]

TopLevelType(n) == [n EXCEPT !.names = SubSeq(@, 1, 1)]

TypesForPackage(n) == [n EXCEPT !.names = <<"types">>]
=============================================================================
