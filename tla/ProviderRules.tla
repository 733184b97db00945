--------------------------- MODULE ProviderRules ---------------------------
(***************************************************************************)
(* The five enterprise providers, a table for each: the exceptions of its  *)
(* REST client (client.py), the requests its methods make (the connector), *)
(* the modes of its authentication (models.py, auth.py) and what the       *)
(* composition root declares of it (core/integration_bootstrap.py).        *)
(***************************************************************************)
EXTENDS Naturals, Sequences

Providers == {"jira", "salesforce", "servicenow", "sharepoint", "sap"}

-----------------------------------------------------------------------------
(* Clients.  limited stands for 429, unavailable for 408, 500, 502, 503    *)
(* and 504, timeout for a network error too, bad for 400, rejected for any *)
(* other status from 400, empty for 204, garbled for a body that does not  *)
(* parse.                                                                  *)

Transient == {"timeout", "limited", "unavailable"}
Answers == Transient \cup
    {"ok", "empty", "garbled", "unauthorized", "forbidden", "missing", "bad", "rejected"}

(* Mutated form: every method is sent again. *)
RetriesEveryMethod(p, verb) == TRUE

(* Only the client of Jira looks at the method of a request. *)
Retries(p, verb) == p = "jira" => verb = "GET"

(* The exception for an answer that is not tried again, and, under         *)
(* invalid, for arguments that a connector does not send.                  *)
SalesforceErrors ==
    [limited |-> "rate_limit", timeout |-> "api", unavailable |-> "api", rejected |-> "api",
     unauthorized |-> "authorization", forbidden |-> "authorization",
     missing |-> "not_found", bad |-> "query", garbled |-> "value", invalid |-> "query"]
ServiceNowErrors == SalesforceErrors
JiraErrors == [SalesforceErrors EXCEPT !.garbled = "api"]
SAPErrors == [SalesforceErrors EXCEPT !.unauthorized = "authentication"]
SharePointErrors == [SalesforceErrors EXCEPT !.bad = "api", !.invalid = "value"]

Errors(p) ==
    CASE p = "jira" -> JiraErrors [] p = "salesforce" -> SalesforceErrors
      [] p = "servicenow" -> ServiceNowErrors [] p = "sap" -> SAPErrors
      [] p = "sharepoint" -> SharePointErrors

-----------------------------------------------------------------------------
(* Methods of the connectors.  A request may look into the payload, which  *)
(* is None for 204, and may go on to further pages.                        *)

Raw == [verb |-> "GET", looks |-> FALSE, pages |-> FALSE]
Read == [Raw EXCEPT !.looks = TRUE]
Listing == [Read EXCEPT !.pages = TRUE]
Search == [Read EXCEPT !.verb = "POST"]
Post == [Raw EXCEPT !.verb = "POST"]

(* A method without a request always raises for want of a client. *)
Plain(requests) == [checks |-> FALSE, health |-> FALSE, requests |-> requests]
Checked(requests) == [Plain(requests) EXCEPT !.checks = TRUE]
Health(request) == [Plain(<<request>>) EXCEPT !.health = TRUE]

JiraMethods ==
    [health_check |-> Health(Read), get_current_user |-> Plain(<<Raw>>),
     get_issue |-> Checked(<<Read>>), search_issues |-> Checked(<<Read>>),
     search_text |-> Checked(<<Read>>), list_projects |-> Checked(<<Read>>),
     get_project |-> Checked(<<Read>>), client_post |-> Plain(<<Post>>)]

SalesforceMethods ==
    [health_check |-> Health(Raw), get_identity |-> Plain(<<Raw>>),
     query_soql |-> Checked(<<Read>>), query_more |-> Checked(<<Read>>),
     search_accounts |-> Checked(<<Read>>), search_contacts |-> Checked(<<Read>>),
     search_opportunities |-> Checked(<<Read>>), search_cases |-> Checked(<<Read>>),
     client_post |-> Plain(<<Post>>)]

ServiceNowMethods ==
    [health_check |-> Health(Raw), query_table |-> Checked(<<Read>>),
     get_record |-> Checked(<<Read>>), search_incidents |-> Checked(<<Read>>),
     search_requests |-> Checked(<<Read>>), search_changes |-> Checked(<<Read>>),
     client_post |-> Plain(<<Post>>)]

SAPMethods ==
    [health_check |-> Health(Raw), metadata |-> Plain(<<Raw>>),
     query_entity_set |-> Checked(<<Read>>), get_entity |-> Checked(<<Raw>>),
     follow_next_link |-> Checked(<<Read>>)]

(* list_site_files asks for the site, its drives and a drive's files, and  *)
(* get_user is for delegated authentication only.                          *)
SharePointMethods(mode) ==
    [health_check |-> Health(IF mode = "delegated" THEN Read ELSE Raw),
     get_site_by_path |-> Checked(<<Read>>), get_site |-> Plain(<<Read>>),
     list_drives |-> Plain(<<Listing>>), get_drive |-> Plain(<<Read>>),
     list_children |-> Plain(<<Listing>>), get_item |-> Plain(<<Read>>),
     download_file |-> Plain(<<Read>>), search_files |-> Checked(<<Search>>),
     list_site_files |-> Checked(<<Read, Listing, Listing>>),
     get_user |-> Plain(IF mode = "delegated" THEN <<Raw>> ELSE <<>>),
     client_post |-> Plain(<<Post>>)]

MethodsOf(p, mode) ==
    CASE p = "jira" -> JiraMethods [] p = "salesforce" -> SalesforceMethods
      [] p = "servicenow" -> ServiceNowMethods [] p = "sap" -> SAPMethods
      [] p = "sharepoint" -> SharePointMethods(mode)

-----------------------------------------------------------------------------
(* Modes of authentication, with the secrets their configuration cannot do *)
(* without.                                                                *)

JiraModes == [delegated |-> {}]
SalesforceModes == [delegated |-> {}, client_credentials |-> {"client_secret"}]
ServiceNowModes == [delegated |-> {}, client_credentials |-> {"client_secret"}]
SharePointModes == [delegated |-> {}, app_only |-> {"client_secret"}]
SAPModes == [bearer |-> {}, oauth2_client_credentials |-> {"client_secret"},
             basic |-> {"password"}]

ModesOf(p) ==
    CASE p = "jira" -> JiraModes [] p = "salesforce" -> SalesforceModes
      [] p = "servicenow" -> ServiceNowModes [] p = "sap" -> SAPModes
      [] p = "sharepoint" -> SharePointModes

(* The flow of a mode: how many answers it awaits, whether the connector   *)
(* then holds a new token, and whether it goes on to check the health.     *)
Flow(awaits, holds, checks) == [awaits |-> awaits, holds |-> holds, checks |-> checks]

JiraFlows == [delegated |-> Flow(2, TRUE, FALSE)]
SalesforceFlows == [delegated |-> Flow(1, FALSE, FALSE), client_credentials |-> Flow(1, TRUE, TRUE)]
ServiceNowFlows == [delegated |-> Flow(1, FALSE, FALSE), client_credentials |-> Flow(1, TRUE, TRUE)]
SharePointFlows == [delegated |-> Flow(1, FALSE, FALSE), app_only |-> Flow(0, TRUE, TRUE)]
SAPFlows == [bearer |-> Flow(0, FALSE, TRUE), basic |-> Flow(0, FALSE, TRUE),
             oauth2_client_credentials |-> Flow(1, TRUE, TRUE)]

FlowsOf(p) ==
    CASE p = "jira" -> JiraFlows [] p = "salesforce" -> SalesforceFlows
      [] p = "servicenow" -> ServiceNowFlows [] p = "sap" -> SAPFlows
      [] p = "sharepoint" -> SharePointFlows

-----------------------------------------------------------------------------
(* Bindings.  The site stands for the fields that name it. *)

SharePointBinding == [secrets |-> {"access_token", "client_secret"}, authModes |-> {"oauth2"}]
SalesforceBinding == [secrets |-> {"access_token", "client_secret", "site"}, authModes |-> {"oauth2"}]
ServiceNowBinding == [secrets |-> {"access_token", "client_secret"}, authModes |-> {"oauth2"}]
JiraBinding == [secrets |-> {"access_token", "client_secret", "site"}, authModes |-> {"oauth2"}]
SAPBinding == [secrets |-> {"access_token", "client_secret", "password"},
               authModes |-> {"oauth2", "basic", "bearer"}]

BindingOf(p) ==
    CASE p = "jira" -> JiraBinding [] p = "salesforce" -> SalesforceBinding
      [] p = "servicenow" -> ServiceNowBinding [] p = "sap" -> SAPBinding
      [] p = "sharepoint" -> SharePointBinding

(* The secrets that register_provider_bindings lets into a configuration. *)
ConfigFields == {}

(* A connector reads its site or instance from the credentials. *)
HasSite(p) == "site" \in BindingOf(p).secrets
=============================================================================
