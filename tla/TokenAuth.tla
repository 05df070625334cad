------------------------------ MODULE TokenAuth ------------------------------
(***************************************************************************)
(* The token endpoint handleGetAuth (src/pkg/auth/scope.go lines 257-307)  *)
(* with filterRegistryActions and filterRepoActions (lines 309-327).       *)
(*                                                                         *)
(* One request is served at a time: the handler keeps no state across    *)
(* requests, so concurrent requests do not interact. Each call the        *)
(* handler makes (ParseRequest, FindAccount, GetAccessLevelForUser) is one *)
(* step that may return an error. ParseRequest and the AccessLevel of the  *)
(* openstack package are not under src/: ParseRequest hands the "scope"   *)
(* query parameter to ParseScope (as ParseScope's doc comment shows) and  *)
(* fails on a malformed Authorization header; an AccessLevel is modelled  *)
(* by the three predicates the filters call.                               *)
(***************************************************************************)
EXTENDS ScopeParse

CONSTANTS
    ScopeInputs,    \* values of the "scope" query parameter clients send
    NoScope,        \* the request has no "scope" parameter
    AccountNames,   \* accounts in the database (names, as strings)
    NoAccount,      \* FindAccount found none (a nil *database.Account)
    AccessLevels    \* what GetAccessLevelForUser can return

ASSUME /\ ScopeInputs \subseteq String
       /\ NoScope \notin String
       /\ AccessLevels \subseteq [CanViewAccounts : BOOLEAN,
                                  CanViewAccount : SUBSET AccountNames,
                                  CanChangeAccount : SUBSET AccountNames]

VARIABLES
    pc,         \* "idle", or the next call of handleGetAuth
    input,      \* the scope parameter of the request being served
    req,        \* the parsed request: its Scope, or NoScope
    account,    \* the account found for a repository scope, or NoAccount
    access,     \* the AccessLevel of the user
    resp        \* how the last request ended: status text or error name

vars == <<pc, input, req, account, access, resp>>

NoAccess == [CanViewAccounts |-> FALSE, CanViewAccount |-> {}, CanChangeAccount |-> {}]
Responses == {"none", "400 Authorization", "500 database", "401 user", "panic"} \cup Errors

TypeOK ==
    /\ pc \in {"idle", "ParseRequest", "FindAccount", "GetAccessLevel", "Filter", "ToJWT"}
    /\ input \in ScopeInputs \cup {NoScope}
    /\ req \in Scope \cup {NoScope}
    /\ account \in AccountNames \cup {NoAccount}
    /\ access \in AccessLevels \cup {NoAccess}
    /\ resp \in Responses

\* strings.SplitN(name, "/", 2)[0]: the account part of a repository name.
AccountOf(name) == Split(name, "/")[1]

\* filterRegistryActions, lines 309-316.
filterRegistryActions(actions, acc) ==
    SelectSeq(actions, LAMBDA a : a = <<"*">> /\ acc.CanViewAccounts)

\* Mutant: push is granted on the view permission.
filterRepoActionsPushOnView(actions, acc, acct) ==
    SelectSeq(actions, LAMBDA a : a \in {<<"pull">>, <<"push">>} /\ acct \in acc.CanViewAccount)

\* filterRepoActions, lines 318-327.
filterRepoActions(actions, acc, acct) ==
    SelectSeq(actions, LAMBDA a : \/ a = <<"pull">> /\ acct \in acc.CanViewAccount
                                  \/ a = <<"push">> /\ acct \in acc.CanChangeAccount)

Init ==
    /\ pc = "idle"
    /\ input = NoScope
    /\ req = NoScope
    /\ account = NoAccount
    /\ access = NoAccess
    /\ resp = "none"

\* A request arrives, with or without a scope parameter.
Receive ==
    /\ pc = "idle"
    /\ input' \in ScopeInputs \cup {NoScope}
    /\ pc' = "ParseRequest"
    /\ UNCHANGED <<req, account, access, resp>>

\* Ends the request with a response (http.Error, ErrorText or the panic);
\* the handler's locals are gone.
Respond(r) ==
    /\ pc' = "idle" /\ resp' = r
    /\ input' = NoScope /\ req' = NoScope /\ account' = NoAccount /\ access' = NoAccess

\* auth.ParseRequest, lines 259-266.
ParseRequest ==
    /\ pc = "ParseRequest"
    /\ \/ Respond("400 Authorization")
       \/ /\ input = NoScope
          /\ req' = NoScope /\ pc' = "FindAccount"
          /\ UNCHANGED <<input, account, access, resp>>
       \/ /\ input # NoScope
          /\ LET r == ParseScope(input) IN
             IF r.err # "nil" THEN Respond(r.err)
             ELSE /\ req' = r.scope /\ pc' = "FindAccount"
                  /\ UNCHANGED <<input, account, access, resp>>

\* Mutant: the account is taken to exist whatever FindAccount returns.
FindAccountNoNilCheck ==
    /\ pc = "FindAccount"
    /\ IF req # NoScope /\ req.ResourceType = <<"repository">>
       THEN \/ Respond("500 database")
            \/ /\ account' = AccountOf(req.ResourceName)
               /\ pc' = "GetAccessLevel"
               /\ UNCHANGED <<input, req, access, resp>>
       ELSE /\ pc' = "GetAccessLevel"
            /\ UNCHANGED <<input, req, account, access, resp>>

\* Lines 268-278: look up the account of a repository scope.
FindAccount ==
    /\ pc = "FindAccount"
    /\ IF req # NoScope /\ req.ResourceType = <<"repository">>
       THEN \/ Respond("500 database")
            \/ /\ account' = IF AccountOf(req.ResourceName) \in AccountNames
                             THEN AccountOf(req.ResourceName) ELSE NoAccount
               /\ pc' = "GetAccessLevel"
               /\ UNCHANGED <<input, req, access, resp>>
       ELSE /\ pc' = "GetAccessLevel"
            /\ UNCHANGED <<input, req, account, access, resp>>

\* Lines 280-286: GetAccessLevelForUser.
GetAccessLevel ==
    /\ pc = "GetAccessLevel"
    /\ \/ Respond("401 user")
       \/ /\ access' \in AccessLevels
          /\ pc' = "Filter"
          /\ UNCHANGED <<input, req, account, resp>>

\* Lines 288-302: restrict the scope's actions to what the user may do.
Filter ==
    /\ pc = "Filter"
    /\ req' = IF req = NoScope THEN NoScope
              ELSE [req EXCEPT !.Actions =
                      CASE req.ResourceType = <<"registry">> ->
                               filterRegistryActions(req.Actions, access)
                        [] req.ResourceType = <<"repository">> /\ account # NoAccount ->
                               filterRepoActions(req.Actions, access, account)
                        [] OTHER -> <<>>]
    /\ pc' = "ToJWT"
    /\ UNCHANGED <<input, account, access, resp>>

\* Lines 304-306: req.ToJWT(), then panic("unimplemented").
ToJWT ==
    /\ pc = "ToJWT"
    /\ Respond("panic")

Next == Receive \/ ParseRequest \/ FindAccount \/ GetAccessLevel \/ Filter \/ ToJWT

Spec == Init /\ [][Next]_vars

-----------------------------------------------------------------------------
(***************************************************************************)
(* ParseScope agrees with the grammar on repository scopes: a repository  *)
(* scope it accepts is exactly the input re-serialised and is in the      *)
(* grammar, and every input of the grammar whose name is shorter than the *)
(* limit ("must be less than 256 characters", scope.go line 39) is        *)
(* accepted. A registry scope it accepts names the catalog and asks for   *)
(* "*". A name of exactly the limit is left to RepoNameBelowLimit, where  *)
(* the check on line 90 and the error text disagree.                      *)
(***************************************************************************)
ParseScopeMatchesGrammar ==
    /\ pc = "FindAccount" /\ input # NoScope =>
          \/ /\ req.ResourceType = <<"repository">>
             /\ input = ScopeString(req.ResourceType, req.ResourceName, req.Actions)
             /\ IsRepoScopeString(input, StrLen(input))
          \/ /\ req.ResourceType = <<"registry">>
             /\ req.ResourceName = <<"catalog">> /\ req.Actions = << <<"*">> >>
    /\ pc = "ParseRequest" /\ input # NoScope /\ IsRepoScopeString(input, RepoNameMaxLen - 1) =>
          ParseScope(input).err = "nil"

(***************************************************************************)
(* The token about to be issued grants only actions that were requested   *)
(* and that the user's access level allows on the account the repository *)
(* name starts with, and that account exists (handleGetAuth's account     *)
(* lookup and the two filters together).                                  *)
(***************************************************************************)
GrantedWithinAccess ==
    pc = "ToJWT" /\ req # NoScope =>
        \A i \in 1..Len(req.Actions) :
            LET a == req.Actions[i]
                acct == AccountOf(req.ResourceName)
            IN /\ a \in ToSet(ParseScope(input).scope.Actions)
               /\ a = <<"*">> => req.ResourceType = <<"registry">> /\ access.CanViewAccounts
               /\ a \in {<<"pull">>, <<"push">>} =>
                     /\ req.ResourceType = <<"repository">>
                     /\ acct \in AccountNames
               /\ a = <<"pull">> => acct \in access.CanViewAccount
               /\ a = <<"push">> => acct \in access.CanChangeAccount

\* The actions field of a scope string: what follows its second colon.
ActionsField(s) == LET f == Split(s, ":") IN IF Len(f) >= 3 THEN f[3] ELSE <<>>

(***************************************************************************)
(* A scope whose actions field is empty is refused, as the check on line  *)
(* 79 and the unused error errorScopeActionUndefined ("actions must not   *)
(* be empty", line 41) intend.                                            *)
(***************************************************************************)
EmptyActionsRefused ==
    pc = "FindAccount" /\ input # NoScope => ActionsField(input) # <<>>

(***************************************************************************)
(* An accepted repository name is shorter than the limit, as the error    *)
(* errorScopeRepositoryTooLong ("must be less than 256 characters long",  *)
(* line 39) says of the check on line 90.                                 *)
(***************************************************************************)
RepoNameBelowLimit ==
    pc = "FindAccount" /\ req # NoScope /\ req.ResourceType = <<"repository">> =>
        StrLen(req.ResourceName) < RepoNameMaxLen
=============================================================================
