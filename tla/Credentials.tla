----------------------------- MODULE Credentials -----------------------------
(***************************************************************************)
(* Where the credentials of a registry host come from.  A secret is the    *)
(* number of the password rotation it belongs to, or Nothing.              *)
(***************************************************************************)
EXTENDS Naturals, Sequences

Nothing == 0

NoPair == <<Nothing, Nothing>>

Pair(secret) == <<secret, secret>>

\* FileSource.Lookup on what it read from the username and password files: one
\* of the two is enough.
FileSource(u, p) == IF u = Nothing /\ p = Nothing THEN NoPair ELSE <<u, p>>

\* The first of the answers that is not none.
FirstFound(answers, none) ==
  LET found == {i \in DOMAIN answers : answers[i] # none}
  IN  IF found = {} THEN none ELSE answers[CHOOSE i \in found : \A j \in found : i <= j]

\* configFile.lookup: the host's helper, the global helper, the static entry.
lookup(helper, store, auth) == Pair(FirstFound(<<helper, store, auth>>, Nothing))

\* Chain.Lookup: the first source that finds something.
Chain(sources) == FirstFound(sources, NoPair)
=============================================================================
