------------------------- MODULE ProviderConnector -------------------------
(***************************************************************************)
(* One enterprise connector (backend/integrations): how it is built from   *)
(* the registry, the adapter and the credential store                      *)
(* (core/integration_registry.py, provider_adapters.py,                    *)
(* credential_store.py), how its credentials come and go                   *)
(* (jira_connector.py and so on, auth.py), and how its requests are sent,  *)
(* tried again and answered (client.py).                                   *)
(*                                                                         *)
(* Everything runs on one event loop.  A call is suspended while an HTTP   *)
(* request is in flight and while it backs off; in between other calls     *)
(* run, and the credentials may be replaced or dropped.                    *)
(*                                                                         *)
(* The specification and what IntegrationManager calls by the same name    *)
(* have names of their own, so that one module can prove about both.       *)
(***************************************************************************)
EXTENDS ProviderRules

CONSTANTS
    Calls,          \* calls of the connector's methods, each made once
    Sessions,       \* tokens (with the site they are for) a provider issues
    MaxRetries,     \* max_retries of the clients
    MaxPages,       \* pages a listing has at most: an assumption on Graph
    MaxTime         \* bound on the clock

ASSUME RetryAssumption == {MaxRetries, MaxPages, MaxTime} \subseteq Nat /\ MaxPages > 0
ASSUME SessionAssumption == {"none", "password"} \cap Sessions = {}

VARIABLES
    provider,       \* the connector's provider (never changes)
    secret,         \* the secret behind the one reference, if there is one
    registration,   \* of the provider: none, enabled or disabled
    now,
    creation,       \* what the last create_connector came to (history)
    connector,      \* its mode, the credential of its client, its site
    call            \* call -> its frame

factory == <<secret, registration, now, creation>>
providerVars == <<provider, factory, connector, call>>

NoSecret == [stored |-> FALSE]
NotBuilt == [built |-> FALSE]
Never == MaxTime + 1

Payloads == {{}, {"access_token"}, {"access_token", "site"}, {"client_secret"}, {"password"}}

NotCalled == [pc |-> "idle"]
Done(result) == [pc |-> "done", result |-> result]

ProviderInit ==
    /\ provider \in Providers
    /\ secret = NoSecret
    /\ registration = "none"
    /\ now = 0
    /\ creation = "none"
    /\ connector = NotBuilt
    /\ call = [c \in Calls |-> NotCalled]

(* Nothing the connector does reads the stores it was built from, so they  *)
(* rest once it is there.                                                  *)
Building == ~connector.built

-----------------------------------------------------------------------------
(* The credential store.  A reference is put once and never reused. *)

Expired(s) == now >= s.expires

PutSecret ==
    /\ Building /\ secret = NoSecret
    /\ \E fields \in Payloads, session \in Sessions, parses \in BOOLEAN,
          expires \in now + 1 .. Never :
            secret' = [stored |-> TRUE, fields |-> fields, session |-> session,
                       parses |-> parses, expires |-> expires]
    /\ UNCHANGED <<provider, registration, now, creation, connector, call>>

DeleteSecret ==
    /\ Building /\ secret.stored
    /\ secret' = NoSecret
    /\ UNCHANGED <<provider, registration, now, creation, connector, call>>

(* Asking for an expired secret removes it. *)
Exists ==
    /\ Building /\ secret.stored
    /\ secret' = IF Expired(secret) THEN NoSecret ELSE secret
    /\ UNCHANGED <<provider, registration, now, creation, connector, call>>

Tick ==
    /\ Building /\ now < MaxTime
    /\ now' = now + 1
    /\ UNCHANGED <<provider, secret, registration, creation, connector, call>>

-----------------------------------------------------------------------------
(* The registry *)

(* A registration is replaced only explicitly. *)
Register ==
    /\ Building
    /\ \E enabled, replace \in BOOLEAN :
            registration' = IF registration # "none" /\ ~replace THEN registration
                            ELSE IF enabled THEN "enabled" ELSE "disabled"
    /\ UNCHANGED <<provider, secret, now, creation, connector, call>>

Unregister ==
    /\ Building
    /\ registration' = "none"
    /\ UNCHANGED <<provider, secret, now, creation, connector, call>>

-----------------------------------------------------------------------------
(* Building a connector *)

(* Mutated form: a secret is good for as long as it is stored. *)
ResolvedStored(withSecret) ==
    IF ~withSecret THEN {} ELSE IF secret.stored /\ secret.parses THEN secret.fields ELSE {"none"}

(* The fields the adapter gets, {"none"} when resolving them raised. *)
Resolved(withSecret) ==
    IF ~withSecret THEN {}
    ELSE IF secret.stored /\ ~Expired(secret) /\ secret.parses THEN secret.fields ELSE {"none"}

(* A SAP client exists without a token; with basic authentication it needs *)
(* none.  The others are created when all their credentials are there.     *)
Built(mode, fields, session) ==
    LET has == /\ "access_token" \in fields
               /\ HasSite(provider) => "site" \in fields
    IN  [built |-> TRUE, mode |-> mode,
         client |-> IF mode = "basic" THEN "password" ELSE IF has THEN session ELSE "none",
         site |-> IF HasSite(provider) /\ "site" \in fields THEN session ELSE "none"]

(* create_connector: the registration, the mode asked for, the secret and  *)
(* its fields, and the configuration are checked in this order, and every  *)
(* failure leaves no connector.  The mode that is asked for and the mode   *)
(* of the configuration are not compared.                                  *)
Create ==
    \E withSecret \in BOOLEAN, asked \in {"none", "oauth2", "basic", "bearer", "api_key"},
       mode \in DOMAIN ModesOf(provider) :
        LET fields == Resolved(withSecret)
            known == registration = "enabled" /\ asked \in {"none"} \cup BindingOf(provider).authModes
            built == /\ known
                     /\ fields \subseteq BindingOf(provider).secrets
                     /\ ModesOf(provider)[mode] \subseteq fields \cap ConfigFields
        IN  /\ Building
            /\ creation' = IF built THEN "built" ELSE "refused"
            /\ connector' = IF built
                            THEN Built(mode, fields, IF withSecret THEN secret.session ELSE "none")
                            ELSE connector
            /\ secret' = IF known /\ withSecret /\ secret.stored /\ Expired(secret)
                         THEN NoSecret ELSE secret
            /\ UNCHANGED <<provider, registration, now, call>>

(* The application constructs the connector itself, with a complete        *)
(* configuration and perhaps a token, and uses neither registry nor store. *)
Construct ==
    /\ Building
    /\ secret = NoSecret /\ registration = "none" /\ now = 0 /\ creation = "none"
    /\ \E mode \in DOMAIN ModesOf(provider), s \in Sessions,
          fields \in {{}, {"access_token"}, {"access_token", "site"}} :
            connector' = Built(mode, fields, s)
    /\ UNCHANGED <<provider, factory, call>>

-----------------------------------------------------------------------------
(* Credentials *)

(* A bound: what the registry builds is a connector that Construct builds  *)
(* too, so the methods are only called on the latter.                      *)
Usable == connector.built /\ creation = "none"

InFlight(c) == call[c].pc \notin {"idle", "done"}

(* The frames of the requests in flight while the credentials change. *)
Overtaken == [c \in Calls |-> IF InFlight(c) THEN [call[c] EXCEPT !.changed = TRUE] ELSE call[c]]

(* Mutated form: the site of the first credentials stays. *)
HoldingKeepsSite(s) ==
    [connector EXCEPT !.client = s,
                      !.site = IF HasSite(provider) /\ @ = "none" THEN s ELSE @]

Holding(s) ==
    [connector EXCEPT !.client = s, !.site = IF HasSite(provider) THEN s ELSE "none"]

(* set_credentials and set_access_token *)
SetCredentials ==
    /\ connector.built /\ connector.mode # "basic"
    /\ \E s \in Sessions : connector' = Holding(s)
    /\ call' = Overtaken
    /\ UNCHANGED <<provider, factory>>

(* disconnect: the password of basic authentication stays with the         *)
(* configuration. *)
DropCredentials ==
    /\ connector.built
    /\ connector' = IF connector.mode = "basic" THEN connector
                    ELSE [connector EXCEPT !.client = "none", !.site = "none"]
    /\ call' = IF connector.mode = "basic" THEN call ELSE Overtaken
    /\ UNCHANGED <<provider, factory>>

-----------------------------------------------------------------------------
(* Calls.  A frame holds the requests the method has still to make, the   *)
(* first of them in flight, the credential that was started with, the one  *)
(* its latest attempt was sent with, and the number of retries.            *)

Methods == MethodsOf(provider, connector.mode)

Request(health, requests, credential) ==
    [pc |-> "sent", health |-> health, requests |-> requests, held |-> credential,
     sent |-> credential, retries |-> 0, page |-> 1, changed |-> FALSE]

(* _require_client, and the first attempt. *)
Asked(health, requests) ==
    IF connector.client = "none" \/ requests = <<>> THEN Done("configuration")
    ELSE Request(health, requests, connector.client)

CallMethod(c) ==
    /\ Usable /\ call[c] = NotCalled
    /\ \E m \in DOMAIN Methods :
          \/ call' = [call EXCEPT ![c] = Asked(Methods[m].health, Methods[m].requests)]
          \* The arguments are checked before anything else.
          \/ /\ Methods[m].checks
             /\ call' = [call EXCEPT ![c] = Done(Errors(provider).invalid)]
    /\ UNCHANGED <<provider, factory, connector>>

(* health_check answers whatever happens to its request. *)
Failure(f, error) == IF f.health THEN Done("unhealthy") ELSE Done(error)

(* A health check reports the site the connector has by then. *)
Completed(f) ==
    IF f.health THEN [pc |-> "done", result |-> "healthy", site |-> connector.site]
    ELSE Done("answered")

(* What follows a request that succeeded: a listing asks its client for    *)
(* the next page, list_site_files the connector for its client, unless     *)
(* there is nothing listed.                                                *)
Succeeded(f, answer) ==
    LET first == Head(f.requests)
        rest == Tail(f.requests)
    IN  IF answer = "empty" /\ first.looks THEN {Failure(f, "value")}
        ELSE (IF rest = <<>> \/ first.pages THEN {Completed(f)} ELSE {})
             \cup (IF rest # <<>> THEN {Asked(f.health, rest)} ELSE {})
             \cup (IF first.pages /\ f.page < MaxPages /\ answer = "ok"
                   THEN {[f EXCEPT !.page = @ + 1, !.retries = 0]} ELSE {})

MayRetry(f) == Retries(provider, Head(f.requests).verb) /\ f.retries < MaxRetries

(* The client suspended in "await client.request" goes on. *)
Answer(c) ==
    /\ call[c].pc = "sent"
    /\ \E answer \in Answers :
        LET f == call[c]
        IN  \/ /\ answer \in Transient /\ MayRetry(f)
               /\ call' = [call EXCEPT ![c].pc = "backoff"]
            \/ /\ answer \notin {"ok", "empty"} /\ ~(answer \in Transient /\ MayRetry(f))
               /\ call' = [call EXCEPT ![c] = Failure(f, Errors(provider)[answer])]
            \/ /\ answer \in {"ok", "empty"}
               /\ \E next \in Succeeded(f, answer) : call' = [call EXCEPT ![c] = next]
    /\ UNCHANGED <<provider, factory, connector>>

(* Mutated form: a retry does not count as one. *)
AttemptUncounted(c) == call' = [call EXCEPT ![c].pc = "sent"]

(* Only the client of SAP makes its headers anew, and raises when the      *)
(* token is gone.                                                          *)
Attempt(c) ==
    LET again == [call[c] EXCEPT !.pc = "sent", !.retries = @ + 1]
    IN  IF provider # "sap" THEN call' = [call EXCEPT ![c] = again]
        ELSE call' = [call EXCEPT ![c] = IF connector.client = "none"
                                         THEN Failure(call[c], "authentication")
                                         ELSE [again EXCEPT !.sent = connector.client]]

(* The sleep between two attempts is over. *)
BackoffOver(c) ==
    /\ call[c].pc = "backoff"
    /\ Attempt(c)
    /\ UNCHANGED <<provider, factory, connector>>

-----------------------------------------------------------------------------
(* Authentication *)

FlowNow == FlowsOf(provider)[connector.mode]

Awaiting(answers) == [pc |-> "token", awaits |-> answers, changed |-> FALSE]

(* What is left of the flow once the connector has its token.  Only the    *)
(* flows without a wait find the client that was there before.             *)
Authenticated(client) ==
    IF ~FlowNow.checks THEN Done("answered")
    ELSE IF client = "none" THEN Done("configuration")
    ELSE Request(TRUE, Methods.health_check.requests, client)

(* The flow is over: its token is taken, whatever became of the connector  *)
(* meanwhile, or handed to the caller.                                     *)
TokenTaken(c) ==
    IF FlowNow.holds
    THEN \E s \in Sessions :
            /\ connector' = Holding(s)
            /\ call' = [Overtaken EXCEPT ![c] = Authenticated(s)]
    ELSE /\ call' = [call EXCEPT ![c] = Authenticated(connector.client)]
         /\ UNCHANGED connector

(* authenticate, authenticate_client_credentials, authenticate_app_only    *)
(* and exchange_authorization_code. *)
Authenticate(c) ==
    /\ Usable /\ call[c] = NotCalled
    /\ IF FlowNow.awaits = 0 THEN TokenTaken(c)
       ELSE /\ call' = [call EXCEPT ![c] = Awaiting(FlowNow.awaits)]
            /\ UNCHANGED connector
    /\ UNCHANGED <<provider, factory>>

(* The wrong flow for the mode, or no code to exchange. *)
AuthenticateRefused(c) ==
    /\ Usable /\ call[c] = NotCalled
    /\ call' = [call EXCEPT ![c] = Done("authentication")]
    /\ UNCHANGED <<provider, factory, connector>>

(* The token request failed, or its answer has no token. *)
TokenRefused(c) ==
    /\ call[c].pc = "token"
    /\ call' = [call EXCEPT ![c] = Done("authentication")]
    /\ UNCHANGED <<provider, factory, connector>>

(* Jira asks for the sites after the token, and takes the first. *)
TokenArrives(c) ==
    /\ call[c].pc = "token"
    /\ IF call[c].awaits = 1 THEN TokenTaken(c)
       ELSE /\ call' = [call EXCEPT ![c].awaits = @ - 1]
            /\ UNCHANGED connector
    /\ UNCHANGED <<provider, factory>>

-----------------------------------------------------------------------------
Factory ==
    \/ PutSecret \/ DeleteSecret \/ Exists \/ Tick
    \/ Register \/ Unregister
    \/ Create \/ Construct

(* The loop runs what is ready, and an HTTP request ends or times out. *)
Progress(c) ==
    \/ Answer(c) \/ BackoffOver(c)
    \/ TokenRefused(c) \/ TokenArrives(c)

ProviderNext ==
    \/ Factory
    \/ SetCredentials \/ DropCredentials
    \/ \E c \in Calls :
            \/ CallMethod(c)
            \/ Authenticate(c) \/ AuthenticateRefused(c)
            \/ Progress(c)

ProviderFairness == \A c \in Calls : WF_providerVars(Progress(c))

ProviderSpec == ProviderInit /\ [][ProviderNext]_providerVars /\ ProviderFairness

-----------------------------------------------------------------------------
(* Properties *)

(* The registry builds a connector that can send requests only while the   *)
(* provider is enabled and, unless its password is in the configuration,   *)
(* the secret has neither been deleted nor expired.                        *)
BuiltFromLiveSecret ==
    [][creation' # creation /\ creation' = "built" =>
        /\ registration = "enabled"
        /\ connector'.client # "none" => secret.stored /\ now < secret.expires]_providerVars

(* A call gives up on a transient answer when its retries are spent and    *)
(* not before, except that Jira never repeats a request that may write.    *)
RetriesAreSpent ==
    [][\A c \in Calls :
        call[c].pc = "sent" /\ call'[c].pc = "done" /\ call'[c].result = "rate_limit" =>
            call[c].retries =
                IF provider = "jira" /\ Head(call[c].requests).verb = "POST" THEN 0 ELSE MaxRetries]_providerVars

(* A healthy status names the site whose credential answered, unless the   *)
(* credentials changed while the check was under way.                      *)
HealthIsOfOneSession ==
    [][\A c \in Calls :
        /\ call[c].pc = "sent" /\ call'[c].pc = "done" /\ call'[c].result = "healthy"
        /\ ~call[c].changed /\ HasSite(provider)
        => call'[c].site = call[c].held]_providerVars

(* Every call ends: retries are bounded and so are the pages. *)
CallEnds == \A c \in Calls : InFlight(c) ~> call[c].pc = "done"
=============================================================================
