------------------------------- MODULE Failures -------------------------------
(***************************************************************************)
(* From the reply to one HTTP request to what the poll loop does about it: *)
(* the exception an adapter raises (src/app/sources/os2forms.py,           *)
(* src/app/destinations/automation_server.py) and the outcome              *)
(* classify() gives that exception (src/app/exceptions.py).                *)
(*                                                                         *)
(* A reply is reduced to the classes the adapters tell apart:              *)
(*   auth       401, 403                missing    404                     *)
(*   throttled  408, 429, 503           client     any other 4xx           *)
(*   server     any other 5xx           transport  no reply arrived        *)
(*   garbled    below 400, not JSON     shapeless  JSON of another shape   *)
(***************************************************************************)

Replies == {"ok", "auth", "missing", "throttled", "client", "server",
            "transport", "garbled", "shapeless"}

\* Replies either adapter's _RETRY policy tries again within one call.
Transient == {"throttled", "server", "transport"}

Errors == {"SourceAuthError", "SourceNotFoundError", "SourceResponseError",
           "SourceServerError", "DestinationAuthError", "DestinationConfigError",
           "DestinationResponseError", "DestinationServerError", "ValueError"}

NoError == "none"

Outcomes == {"failed", "dead_letter", "abort_job", "abort_group"}

\* An exception outside the hierarchy (ValueError) is retried on purpose.
Classify(error) ==
  CASE error = "SourceAuthError"                                      -> "abort_group"
    [] error \in {"DestinationAuthError", "DestinationConfigError"}   -> "abort_job"
    [] error \in {"SourceNotFoundError", "SourceResponseError",
                  "DestinationResponseError"}                         -> "dead_letter"
    [] OTHER                                                          -> "failed"

-------------------------------------------------------------------------------
(* OS2forms: what get_submission raises once its retries are spent.        *)

SourceGet(reply) ==
  CASE reply = "ok"                                  -> NoError
    [] reply = "auth"                                -> "SourceAuthError"
    [] reply = "missing"                             -> "SourceNotFoundError"
    [] reply \in Transient                           -> "SourceServerError"
    [] reply \in {"client", "garbled", "shapeless"}  -> "SourceResponseError"

\* What build_workitem_payload may raise: the job's mapping is unusable, or it
\* trips over this submission (a path segment isdigit accepts and int refuses).
PayloadErrors == {"DestinationConfigError", "ValueError"}

-------------------------------------------------------------------------------
(* Automation Server: what _request raises; any other reply is returned to *)
(* the caller, who judges it for itself.                                   *)

Request(reply) ==
  CASE reply = "auth"        -> "DestinationAuthError"
    [] reply \in Transient   -> "DestinationServerError"
    [] OTHER                 -> NoError

\* GET workqueues/by_name: is the job's queue there?
ResolveQueue(reply) ==
  CASE Request(reply) # NoError           -> Request(reply)
    [] reply = "missing"                  -> "DestinationConfigError"
    [] reply \in {"client", "shapeless"}  -> "DestinationResponseError"
    [] reply = "garbled"                  -> "ValueError"
    [] OTHER                              -> NoError

\* GET by_reference: an unexpected 4xx counts as "not there" and is no error.
LookupReference(reply) ==
  CASE Request(reply) # NoError -> Request(reply)
    [] reply = "garbled"        -> "ValueError"
    [] OTHER                    -> NoError

\* Mutant: the check of the add's own 4xx is missing.
AddItem_NoCheck(reply) ==
  CASE Request(reply) # NoError -> Request(reply)
    [] reply = "garbled"        -> "ValueError"
    [] OTHER                    -> NoError

\* POST add, which takes any JSON for success.
AddItem(reply) ==
  CASE Request(reply) # NoError         -> Request(reply)
    [] reply \in {"missing", "client"}  -> "DestinationResponseError"
    [] reply = "garbled"                -> "ValueError"
    [] OTHER                            -> NoError
===============================================================================
