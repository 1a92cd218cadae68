---------------------------- MODULE ApiRequests ----------------------------
(***************************************************************************)
(* A request on its way through the middlewares of app.py, and the audit   *)
(* log it leaves: the shared limiter first, then the audit, the check of   *)
(* where the request comes from, the endpoint with its dependencies, and   *)
(* on the way back the line in a log that is rotated by size and searched  *)
(* by the administrators.                                                  *)
(*                                                                         *)
(* All of it runs on the event loop: requests interleave where they wait.  *)
(* Limits, roles, tokens and keys are those of RequestWindows,             *)
(* AccessStores and Credentials: here they pass or refuse.  A log whose    *)
(* writing fails is left out.                                              *)
(***************************************************************************)
EXTENDS Naturals, Sequences, FiniteSets

CONSTANTS
    Connections,   \* requests at a time
    FileSize,      \* events to a file, for AuditLogger's max_bytes
    Backups,       \* AuditLogger's backup_count, and the files search_logs reads
    ArrivalsMax    \* bound on the requests

ASSUME ApiRequestsAssumption ==
    /\ IsFiniteSet(Connections) /\ FileSize \in Nat \ {0} /\ Backups \in Nat
    /\ ArrivalsMax \in Nat

Paths == {"public", "read", "write", "keys"}    \* "keys": generate, rotate, revoke
SafeScopes == {"public", "read"}                      \* GET, HEAD, OPTIONS
Origins == {"good", "bad", "local"}             \* "local": none given, from this machine

Waiting == [at |-> "idle", id |-> 0, path |-> "read", origin |-> "good", raised |-> FALSE]

VARIABLES
    dev,           \* development mode
    server,        \* "begins", "serves" or "refused"
    request,       \* by connection, how far it is
    auditFiles,         \* audit.json, audit.json.1, ...: sequences of events
    due,           \* the events that ought to be logged, in order (history)
    arrivals

requestVars == <<dev, server, request, auditFiles, due, arrivals>>

ApiRequestsInit ==
    /\ dev = FALSE /\ server = "begins"
    /\ request = [c \in Connections |-> Waiting]
    /\ auditFiles = <<<<>>>> /\ due = <<>> /\ arrivals = 0

-----------------------------------------------------------------------------
\* startup_event: development mode only on this machine, a secret that lasts
\* outside of it, in strict mode a key of sufficient length.
Environments == [dev : BOOLEAN, loopback : BOOLEAN, key : {"none", "short", "long"},
                 secret : BOOLEAN, strict : BOOLEAN]

Sound(environment) ==
    /\ environment.dev => environment.loopback
    /\ environment.secret \/ environment.dev
    /\ environment.strict => environment.key # "short"

StartsUp ==
    /\ server = "begins"
    /\ \E environment \in Environments :
         /\ dev' = environment.dev
         /\ server' = IF Sound(environment) THEN "serves" ELSE "refused"
    /\ UNCHANGED <<request, auditFiles, due, arrivals>>

-----------------------------------------------------------------------------
\* The audit log: a full file is renamed, the oldest goes.
Rotated == IF Len(auditFiles) <= Backups THEN <<<<>>>> \o auditFiles
           ELSE <<<<>>>> \o SubSeq(auditFiles, 1, Backups)
Logged(event) ==
    LET open == IF Len(auditFiles[1]) < FileSize THEN auditFiles ELSE Rotated
    IN  [open EXCEPT ![1] = Append(@, event)]

\* search_logs: the file that is written first, then the others.
Searched ==
    LET upTo[i \in 0 .. Backups + 1] ==
          IF i = 0 THEN <<>>
          ELSE upTo[i - 1] \o (IF i <= Len(auditFiles) THEN auditFiles[i] ELSE <<>>)
    IN  upTo[Backups + 1]

LineOf(c) == [kind |-> "api_request", id |-> request[c].id]
RequestGoes(c, place) == request' = [request EXCEPT ![c].at = place]
Unlogged == UNCHANGED <<auditFiles, due>>
Ends(c, raised) ==
    request' = [request EXCEPT ![c].at = "audit", ![c].raised = raised]

-----------------------------------------------------------------------------
Arrives(c) ==
    /\ request[c].at = "idle" /\ arrivals < ArrivalsMax
    /\ arrivals' = arrivals + 1
    /\ \E path \in Paths : \E origin \in IF path \in SafeScopes THEN {"good"} ELSE Origins :
         request' = [request EXCEPT ![c] =
            [at |-> IF path = "public" THEN "endpoint" ELSE "limiter", id |-> arrivals + 1,
             path |-> path, origin |-> origin, raised |-> FALSE]]
    /\ Unlogged

\* The shared limiter is outside of the audit: what it refuses leaves no line.
LimiterRefuses(c) ==
    /\ request[c].at = "limiter"
    /\ request' = [request EXCEPT ![c] = Waiting]
    /\ Unlogged /\ UNCHANGED arrivals

LimiterPasses(c) ==
    /\ request[c].at = "limiter" /\ RequestGoes(c, "origin")
    /\ Unlogged /\ UNCHANGED arrivals

\* csrf_origin_referer_middleware, without what it lets pass in development.
FromElsewhere(c) ==
    /\ request[c].path \notin SafeScopes /\ request[c].origin # "good"
    /\ ~(dev /\ request[c].origin = "local")

OriginRefused(c) ==
    /\ request[c].at = "origin" /\ FromElsewhere(c)
    /\ Ends(c, FALSE) /\ due' = Append(due, LineOf(c))
    /\ UNCHANGED <<auditFiles, arrivals>>

OriginPasses(c) ==
    /\ request[c].at = "origin" /\ ~FromElsewhere(c) /\ RequestGoes(c, "endpoint")
    /\ Unlogged /\ UNCHANGED arrivals

\* The endpoint answers, refuses, or raises (or the client goes away).
Responds(c) ==
    /\ request[c].at = "endpoint"
    /\ IF request[c].path = "public"
       THEN request' = [request EXCEPT ![c] = Waiting] /\ UNCHANGED due
       ELSE /\ \E raised \in BOOLEAN : Ends(c, raised)
            /\ due' = Append(due, LineOf(c))
    /\ UNCHANGED <<auditFiles, arrivals>>

\* A key that was generated, rotated or revoked has a line of its own.
ChangesKey(c) ==
    LET event == [kind |-> "security", id |-> request[c].id]
    IN  /\ request[c].at = "endpoint" /\ request[c].path = "keys"
        /\ auditFiles' = Logged(event) /\ due' = due \o <<event, LineOf(c)>>
        /\ Ends(c, FALSE)
        /\ UNCHANGED arrivals

\* What a plausible change would do: a line for what was answered.
AuditsAnswered(c) ==
    /\ request[c].at = "audit"
    /\ auditFiles' = (IF request[c].raised THEN auditFiles ELSE Logged(LineOf(c)))
    /\ request' = [request EXCEPT ![c] = Waiting]
    /\ UNCHANGED <<due, arrivals>>

\* audit_logging_middleware, in its finally clause.
Audits(c) ==
    /\ request[c].at = "audit"
    /\ auditFiles' = Logged(LineOf(c))
    /\ request' = [request EXCEPT ![c] = Waiting]
    /\ UNCHANGED <<due, arrivals>>

ApiRequestsNext ==
    \/ StartsUp
    \/ /\ server = "serves"
       /\ \E c \in Connections :
            \/ Arrives(c) \/ LimiterRefuses(c) \/ LimiterPasses(c)
            \/ OriginRefused(c) \/ OriginPasses(c)
            \/ Responds(c) \/ ChangesKey(c) \/ Audits(c)
       /\ UNCHANGED <<dev, server>>

ApiRequestsSpec == ApiRequestsInit /\ [][ApiRequestsNext]_requestVars

-----------------------------------------------------------------------------
\* The other kinds of AuditLogger's events have no caller.
Events == [kind : {"api_request", "security"}, id : 1 .. ArrivalsMax]

ApiRequestsTypeOK ==
    /\ dev \in BOOLEAN /\ server \in {"begins", "serves", "refused"}
    /\ \A c \in Connections :
         /\ request[c].at \in {"idle", "limiter", "origin", "endpoint", "audit"}
         /\ request[c].path \in Paths /\ request[c].id \in 0 .. ArrivalsMax
    /\ Len(auditFiles) \in 1 .. Backups + 1
    /\ \A i \in DOMAIN auditFiles : Len(auditFiles[i]) <= FileSize
    /\ \A i \in DOMAIN due : due[i] \in Events

\* The files hold this many of the newest events, those apart that a request
\* logs late.
Kept == Backups * FileSize + 2 - Cardinality(Connections)
Times(event) == Cardinality({i \in DOMAIN Searched : Searched[i] = event})

\* Whatever way a request that passed the shared limiter ends, a search finds
\* its line, once, as long as the files still have to hold it; and the line of
\* every change of a key (app.audit_logging_middleware, AuditLogger.search_logs).
TrailComplete ==
    \A i \in DOMAIN due : i + Kept > Len(due) =>
        \/ Times(due[i]) = 1
        \/ \E c \in Connections : request[c].at = "audit" /\ LineOf(c) = due[i]
=============================================================================
