---------------------------- MODULE RegistryProxy ----------------------------
(***************************************************************************)
(* The registry API handlers of src/pkg/auth/scope.go lines 140-223:      *)
(* requireBearerToken, handleProxyToplevel (GET /v2/), handleProxyCatalog *)
(* (GET /v2/_catalog) and handleProxyToAccount, which forwards a request  *)
(* for /v2/<account>/... to the keppel-registry of that account.         *)
(*                                                                         *)
(* The handlers share no state, so each serves one request in one step.   *)
(* Paths are sequences of atoms as in ScopeParse. The calls out of the    *)
(* package are inputs: ParseTokenFromRequest says whether the bearer      *)
(* token is valid, FindAccount and http.DefaultClient.Do may fail, and    *)
(* the backend registry answers 401 to a request without a valid token.   *)
(***************************************************************************)
EXTENDS Sequences, SequencesExt

CONSTANTS
    Accounts,       \* account names in the database
    AccountNames,   \* account names clients put in URLs
    RestPaths,      \* what follows /v2/<account>/ in a URL path
    ClientXFF,      \* X-Forwarded-For values a client may send ("" = none)
    RemoteAddrs,    \* r.RemoteAddr values ("" = unknown)
    HostOf,         \* net.SplitHostPort(addr): the host part
    HostPort,       \* orch.GetHostPortForAccount
    NoForward       \* no request has been forwarded

ASSUME Accounts \subseteq AccountNames

VARIABLES
    last,   \* the request answered last
    w,      \* the response written for it
    fwd,    \* the request forwarded for it to a backend, or NoForward
    seen    \* account existence and status of each answered account-route
            \* request without a valid token

vars == <<last, w, fwd, seen>>

Requests == [route : {"toplevel", "catalog", "account"}, token : BOOLEAN,
             account : AccountNames, rest : RestPaths,
             xff : ClientXFF, remote : RemoteAddrs]

\* The challenge scopes of requireBearerToken's two callers.
RouteScope == [toplevel |-> "", catalog |-> "registry:catalog:*", account |-> "none"]

Response(status, challenge, version) ==
    [status |-> status, challenge |-> challenge, version |-> version]

\* The URL path of a request for the account route.
PathOf(r) == <<"/", "v2", "/", r.account, "/">> \o r.rest

\* strings.TrimPrefix(s, prefix).
TrimPrefix(s, prefix) ==
    IF IsPrefix(prefix, s) THEN SubSeq(s, Len(prefix) + 1, Len(s)) ELSE s

PathAtoms == {"/", "v2"} \cup AccountNames \cup UNION {Range(p) : p \in RestPaths}

TypeOK ==
    /\ last \in Requests
    /\ w \in [status : {0, 200, 401, 404, 500}, challenge : {"", "registry:catalog:*", "none"},
              version : BOOLEAN]
    /\ fwd \in [host : Range(HostPort), path : Seq(PathAtoms),
                xff : ClientXFF \cup Range(HostOf)] \cup {NoForward}
    /\ seen \subseteq [exists : BOOLEAN, status : {200, 401, 404, 500}]

Init ==
    /\ last \in Requests
    /\ w = Response(0, "none", FALSE)
    /\ fwd = NoForward
    /\ seen = {}

\* Writes the response to request rq.
Answer(rq, resp) ==
    /\ w' = resp
    /\ last' = rq
    /\ seen' = IF rq.route = "account" /\ ~rq.token
               THEN seen \cup {[exists |-> rq.account \in Accounts, status |-> resp.status]}
               ELSE seen

\* Mutant: the version header is set only once the token is accepted.
ServeToplevelOrCatalogLateHeader(rq) ==
    /\ rq.route \in {"toplevel", "catalog"}
    /\ Answer(rq, IF rq.token THEN Response(200, "none", TRUE)
              ELSE Response(401, RouteScope[rq.route], FALSE))
    /\ fwd' = NoForward

\* requireBearerToken (lines 140-149) as called by handleProxyToplevel
\* (lines 152-161) and handleProxyCatalog (lines 164-176). The version
\* header is set before the token is checked.
ServeToplevelOrCatalog(rq) ==
    /\ rq.route \in {"toplevel", "catalog"}
    /\ Answer(rq, IF rq.token THEN Response(200, "none", TRUE)
              ELSE Response(401, RouteScope[rq.route], TRUE))
    /\ fwd' = NoForward

\* Mutant: X-Forwarded-For gets RemoteAddr without SplitHostPort.
ServeAccountRawRemoteAddr(rq) ==
    /\ rq.route = "account"
    /\ \/ /\ Answer(rq, Response(500, "none", FALSE))     \* FindAccount failed
          /\ fwd' = NoForward
       \/ /\ rq.account \notin Accounts               \* account == nil
          /\ Answer(rq, Response(404, "none", FALSE))
          /\ fwd' = NoForward
       \/ /\ rq.account \in Accounts
          /\ fwd' = [host |-> HostPort[rq.account],
                     path |-> <<"/", "v2", "/">> \o
                              TrimPrefix(PathOf(rq), <<"/", "v2", "/", rq.account, "/">>),
                     xff  |-> IF rq.remote # "" /\ rq.xff = "" THEN rq.remote
                              ELSE rq.xff]
          /\ \/ Answer(rq, Response(500, "none", FALSE))  \* Do failed
             \/ Answer(rq, Response(IF rq.token THEN 200 ELSE 401, "none", TRUE))

\* Mutant: the trimmed prefix lacks the slash after the account name.
ServeAccountPrefixNoSlash(rq) ==
    /\ rq.route = "account"
    /\ \/ /\ Answer(rq, Response(500, "none", FALSE))     \* FindAccount failed
          /\ fwd' = NoForward
       \/ /\ rq.account \notin Accounts               \* account == nil
          /\ Answer(rq, Response(404, "none", FALSE))
          /\ fwd' = NoForward
       \/ /\ rq.account \in Accounts
          /\ fwd' = [host |-> HostPort[rq.account],
                     path |-> <<"/", "v2", "/">> \o
                              TrimPrefix(PathOf(rq), <<"/", "v2", "/", rq.account>>),
                     xff  |-> IF rq.remote # "" /\ rq.xff = "" THEN HostOf[rq.remote]
                              ELSE rq.xff]
          /\ \/ Answer(rq, Response(500, "none", FALSE))  \* Do failed
             \/ Answer(rq, Response(IF rq.token THEN 200 ELSE 401, "none", TRUE))

\* handleProxyToAccount, lines 178-223.
ServeAccount(rq) ==
    /\ rq.route = "account"
    /\ \/ /\ Answer(rq, Response(500, "none", FALSE))     \* FindAccount failed
          /\ fwd' = NoForward
       \/ /\ rq.account \notin Accounts               \* account == nil
          /\ Answer(rq, Response(404, "none", FALSE))
          /\ fwd' = NoForward
       \/ /\ rq.account \in Accounts
          /\ fwd' = [host |-> HostPort[rq.account],
                     path |-> <<"/", "v2", "/">> \o
                              TrimPrefix(PathOf(rq), <<"/", "v2", "/", rq.account, "/">>),
                     xff  |-> IF rq.remote # "" /\ rq.xff = "" THEN HostOf[rq.remote]
                              ELSE rq.xff]
          /\ \/ Answer(rq, Response(500, "none", FALSE))  \* Do failed
             \/ Answer(rq, Response(IF rq.token THEN 200 ELSE 401, "none", TRUE))

Next == \E rq \in Requests : ServeToplevelOrCatalog(rq) \/ ServeAccount(rq)

Spec == Init /\ [][Next]_vars

-----------------------------------------------------------------------------
(***************************************************************************)
(* GET /v2/ and GET /v2/_catalog answer 401 exactly when the bearer token *)
(* is not valid; a 401 carries the challenge for the route's own scope,   *)
(* and every answer carries Docker-Distribution-Api-Version ("must be set *)
(* even for 401 responses!", lines 153 and 165).                          *)
(***************************************************************************)
ChallengeOnUnauthorized ==
    last.route \in {"toplevel", "catalog"} /\ w.status # 0 =>
        /\ w.version
        /\ w.status = 401 <=> ~last.token
        /\ w.status = 401 => w.challenge = RouteScope[last.route]

(***************************************************************************)
(* A forwarded request goes to the backend of the account named in the    *)
(* URL, which exists; its path is the client's path with the account      *)
(* segment removed; and X-Forwarded-For keeps the client's value, or else *)
(* names the client's host (lines 195-207).                               *)
(***************************************************************************)
ForwardedToAccountBackend ==
    fwd # NoForward =>
        /\ last.route = "account" /\ last.account \in Accounts
        /\ fwd.host = HostPort[last.account]
        /\ fwd.path = <<"/", "v2", "/">> \o last.rest
        /\ fwd.xff = IF last.xff # "" \/ last.remote = "" THEN last.xff
                     ELSE HostOf[last.remote]

(***************************************************************************)
(* A client without a valid token cannot tell whether an account exists:  *)
(* the TODO at lines 185-190 asks to answer for a missing account as the  *)
(* registry answers an unauthorized request.                              *)
(***************************************************************************)
AccountExistenceHidden ==
    \A s, t \in seen : s.status # 500 /\ t.status # 500 => s.status = t.status
=============================================================================
