----------------------------- MODULE ScopeParse -----------------------------
(***************************************************************************)
(* auth.ParseScope (src/pkg/auth/scope.go) as an operator.                *)
(*                                                                         *)
(* A string is a sequence of atoms. An atom is one punctuation character  *)
(* or a whole lower-case word ("registry", "catalog", "pull", ...). No    *)
(* word is spelt by a concatenation of other atoms, so two atom sequences *)
(* denote the same string exactly when they are equal, and comparing a    *)
(* field with "registry" is comparing it with <<"registry">>. The length  *)
(* of a string in characters is the sum of the lengths of its atoms.      *)
(***************************************************************************)
EXTENDS Integers, Sequences, SequencesExt

CONSTANTS
    Atoms,          \* the atoms strings are made of
    RepoNameMaxLen  \* the 256 of scope.go line 90

ASSUME /\ {":", ",", "/"} \subseteq Atoms
       /\ RepoNameMaxLen \in Nat

String == Seq(Atoms)

\* The character classes of repoComponentRegexp: [a-z0-9] and [._-].
AlnumAtoms == {w \in Atoms : w \notin {":", ",", "/", ".", "_", "-", "*", "A"}}
SepAtoms   == {".", "_", "-"}

\* len() of a Go string: its length in bytes.
StrLen(s) == FoldLeft(LAMBDA n, w : n + Len(w), 0, s)

\* strings.Split(s, sep): the pieces between the separators; "" gives [""].
Split(s, sep) ==
    FoldLeft(LAMBDA fs, w : IF w = sep THEN Append(fs, <<>>)
                            ELSE [fs EXCEPT ![Len(fs)] = Append(@, w)],
             << <<>> >>, s)

\* Mutant: a trailing separator or slash is accepted.
RECURSIVE RegexpRunTrailingSep(_, _)
RegexpRunTrailingSep(st, s) ==
    IF s = <<>> THEN st \in {"alnum", "punct"}
    ELSE LET w == Head(s) IN
         IF w \in AlnumAtoms THEN RegexpRunTrailingSep("alnum", Tail(s))
         ELSE (w \in SepAtoms \cup {"/"}) /\ st = "alnum" /\ RegexpRunTrailingSep("punct", Tail(s))

(***************************************************************************)
(* repoNameRegexp.MatchString: the anchored regular expression            *)
(*   comp(/comp)*  with  comp = [a-z0-9]+([._-][a-z0-9]+)*                 *)
(* run as the automaton it compiles to. "start": nothing read; "alnum":   *)
(* last read [a-z0-9] (accepting); "punct": last read [._-] or "/".       *)
(***************************************************************************)
RECURSIVE RegexpRun(_, _)
RegexpRun(st, s) ==
    IF s = <<>> THEN st = "alnum"
    ELSE LET w == Head(s) IN
         IF w \in AlnumAtoms THEN RegexpRun("alnum", Tail(s))
         ELSE (w \in SepAtoms \cup {"/"}) /\ st = "alnum" /\ RegexpRun("punct", Tail(s))

RepoNameMatches(s) == RegexpRun("start", s)

\* The Scope struct, lines 45-49.
Scope == [ResourceType : String, ResourceName : String, Actions : Seq(String)]

\* The errors of scope.go lines 33-42, and the result of ParseScope.
Errors == {"errorScopeMissing", "errorScopeMissingResource",
           "errorScopeMissingRepository", "errorScopeMissingActions",
           "errorScopeInvalid", "errorScopeResourceUnsupported",
           "errorScopeRepositoryTooLong", "errorScopeRepositoryInvalid",
           "errorScopeActionUndefined", "errorScopeActionInvalid"}
Failed(e) == [err |-> e, scope |-> [ResourceType |-> <<>>, ResourceName |-> <<>>, Actions |-> <<>>]]
Parsed(sc) == [err |-> "nil", scope |-> sc]

(***************************************************************************)
(* ParseScope, lines 55-106: the checks in the order the code makes them; *)
(* each IF is one early return.                                            *)
(***************************************************************************)
ParseScope(input) ==
    LET fields == Split(input, ":")
        scope  == [ResourceType |-> fields[1], ResourceName |-> fields[2],
                   Actions |-> Split(fields[3], ",")]
    IN
    IF input = <<>> THEN Failed("errorScopeMissing")
    ELSE IF fields[1] = <<>> THEN Failed("errorScopeMissingResource")
    ELSE IF Len(fields) > 3 THEN Failed("errorScopeInvalid")
    ELSE IF Len(fields) = 2 THEN Failed("errorScopeMissingActions")
    ELSE IF Len(fields) = 1 THEN Failed("errorScopeMissingRepository")
    ELSE IF Len(scope.Actions) = 0 THEN Failed("errorScopeActionInvalid")
    ELSE IF scope.ResourceType = <<"registry">> THEN
        IF scope.ResourceName # <<"catalog">> THEN Failed("errorScopeResourceUnsupported")
        ELSE Parsed([scope EXCEPT !.Actions = << <<"*">> >>])
    ELSE IF scope.ResourceType = <<"repository">> THEN
        IF StrLen(scope.ResourceName) > RepoNameMaxLen THEN Failed("errorScopeRepositoryTooLong")
        ELSE IF ~RepoNameMatches(scope.ResourceName) THEN Failed("errorScopeRepositoryInvalid")
        ELSE IF \E i \in 1..Len(scope.Actions) :
                    scope.Actions[i] \notin {<<"pull">>, <<"push">>}
             THEN Failed("errorScopeActionInvalid")
        ELSE Parsed(scope)
    ELSE Failed("errorScopeResourceUnsupported")

-----------------------------------------------------------------------------
(***************************************************************************)
(* Reference definitions, written from the grammar rather than from the   *)
(* code: a scope string is  type ":" name ":" action ("," action)*, and a *)
(* repository name is a "/"-separated list of components, each a          *)
(* separator-joined list of non-empty alphanumeric words.                 *)
(***************************************************************************)
JoinWith(parts, sep) ==
    IF parts = <<>> THEN <<>>
    ELSE FoldLeft(LAMBDA acc, p : acc \o <<sep>> \o p, Head(parts), Tail(parts))

ScopeString(t, n, acts) == t \o <<":">> \o n \o <<":">> \o JoinWith(acts, ",")

IsWord(w) == w # <<>> /\ \A i \in 1..Len(w) : w[i] \in AlnumAtoms
IsComponent(c) ==
    LET words == Split([i \in 1..Len(c) |-> IF c[i] \in SepAtoms THEN "-" ELSE c[i]], "-")
    IN \A i \in 1..Len(words) : IsWord(words[i])
IsRepoName(n) == LET comps == Split(n, "/") IN \A i \in 1..Len(comps) : IsComponent(comps[i])

\* The strings a repository scope accepts, by the grammar, with names of at
\* most maxLen characters.
IsRepoScopeString(s, maxLen) ==
    \E i, j \in 1..Len(s) :
        /\ i < j /\ s[i] = ":" /\ s[j] = ":"
        /\ SubSeq(s, 1, i - 1) = <<"repository">>
        /\ LET n == SubSeq(s, i + 1, j - 1)
               acts == Split(SubSeq(s, j + 1, Len(s)), ",")
           IN /\ IsRepoName(n) /\ StrLen(n) <= maxLen
              /\ \A k \in 1..Len(acts) : acts[k] \in {<<"pull">>, <<"push">>}
=============================================================================
