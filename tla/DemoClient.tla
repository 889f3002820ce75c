---------------------------- MODULE DemoClient ----------------------------
(* Where the page gets its case from: packages/api-client/workbench-client.mjs*)
(* with the bootstrap and the login of apps/web/app.mjs.  The base URL that a *)
(* login stores is shared by all tabs of the browser; tokens, actors and     *)
(* payloads are left out: whether a server answers well is any choice.       *)
CONSTANTS
  Apis,    \* base URLs of demonstration APIs
  NoApi    \* no base URL: requests go to the server of the page

VARIABLES
  staticDeployment,  \* the page was built for static training
  stored,            \* nappDemoApiBaseUrl in the local storage
  asked,             \* the base URL that the bootstrap of the page read
  transport,         \* where the case of the page came from, or "loading"
  logins             \* the base URLs of logins that wait for an answer

client == <<staticDeployment, stored, asked, transport, logins>>

(* The page awaits its bootstrap before it attaches any handler.             *)
Ready == transport # "loading"

(* Fault: a failure goes by the base URL that is stored by then.             *)
AfterFailureNow(api) ==
  IF stored = NoApi THEN "static-training-fallback" ELSE "demo-api-error"

(* A configured API that fails is an error, the page's own server is not.    *)
AfterFailure(api) ==
  IF api = NoApi THEN "static-training-fallback" ELSE "demo-api-error"

(* How loadWorkbenchBootstrap ends.  A browser always has a fetch function.  *)
Bootstraps(api) ==
  IF staticDeployment /\ api = NoApi THEN {"static-training-fallback"}
  ELSE {"authorized-api", AfterFailure(api)}

ClientInit ==
  /\ staticDeployment \in BOOLEAN
  /\ stored = NoApi /\ asked = NoApi
  /\ transport = "loading" /\ logins = {}

(* A page that is loaded reads the base URL and sends its request.           *)
LoadClient ==
  /\ asked' = stored' /\ transport' = "loading" /\ logins' = {}
  /\ UNCHANGED staticDeployment

(* The answer comes, or the failure.                                         *)
Bootstrap ==
  /\ ~Ready /\ transport' \in Bootstraps(asked)
  /\ UNCHANGED <<staticDeployment, stored, asked, logins>>

StartLogin == \E api \in Apis \cup {NoApi} :
  /\ Ready /\ logins' = logins \cup {api}
  /\ UNCHANGED <<staticDeployment, stored, asked, transport>>

(* Refused; or the storage is full, after or before the base URL was stored. *)
LoginFails == \E api \in logins :
  /\ logins' = logins \ {api} /\ stored' \in {stored, api}
  /\ UNCHANGED <<staticDeployment, asked, transport>>

(* A login that succeeded stores its base URL and loads the page again.      *)
FinishLogin == \E api \in logins : stored' = api /\ LoadClient

(* Logging out removes the token and the actor, and keeps the base URL.      *)
Logout == Ready /\ UNCHANGED stored /\ LoadClient

(* The user may load the page again while it waits for its answer, too.      *)
Reload == UNCHANGED stored /\ LoadClient

(* Another tab logs in, perhaps while this one waits.                        *)
OtherTabLogsIn ==
  /\ stored' \in Apis \cup {NoApi}
  /\ UNCHANGED <<staticDeployment, asked, transport, logins>>
===========================================================================
